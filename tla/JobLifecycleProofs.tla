------------------------- MODULE JobLifecycleProofs -------------------------
(***************************************************************************)
(* Theorems about JobLifecycle, for every set of requests, strategies and  *)
(* workers, every set of faults and every bound on their number; then      *)
(* about the statuses a job takes: for every fault, that a job that has    *)
(* ended runs again only after an enqueue error; and for faults that leave *)
(* no step half known, that JobLifecycle implements JobPromise.            *)
(***************************************************************************)
EXTENDS JobLifecycle, SequenceTheorems, TLAPS

---------------------------------------------------------------------------
(* Facts about the rows.                                                   *)

\* The updates and the flush of a job row give job rows.
LEMMA RowTypes ==
  /\ NoRow \in Row /\ QueuedRow \in Row
  /\ \A row \in Row : /\ AsRunning(row) \in Row
                      /\ AsCompleted(row) \in Row
                      /\ AsFailed(row) \in Row
  /\ \A now, old, new \in Row : Flush(now, old, new) \in Row
BY DEF Row, Statuses, NoRow, QueuedRow, AsRunning, AsCompleted, AsFailed, Flush

\* A flush leaves the status that was in the table or sets the new one.
LEMMA FlushStatus ==
  ASSUME NEW now \in Row, NEW old \in Row, NEW new \in Row
  PROVE  Flush(now, old, new).status \in {now.status, new.status}
BY DEF Flush

\* Each of the three updates sets the status it is named for.
LEMMA NewStatus ==
  ASSUME NEW row \in Row
  PROVE  /\ AsRunning(row).status = "running"
         /\ AsCompleted(row).status = "completed"
         /\ AsFailed(row).status = "failed"
BY DEF Row, AsRunning, AsCompleted, AsFailed

---------------------------------------------------------------------------
(* Type correctness.                                                       *)

\* Every pc the code can be at, spelled out.
LEMMA PcNames ==
  /\ HandlerPc = {"idle", "enqueue", "load_failed", "save_failed", "ensure", "upsert",
                  "insert", "rejected", "http_202", "http_500", "http_503", "crashed"}
  /\ HorsePc = {"idle", "load_failed", "save_failed", "load_running", "save_running",
                "execute", "load_completed", "save_completed", "return"}
BY DEF HandlerPc, InTransaction, Ended, HorsePc, TryBlock

\* A handler that moves on is still a handler, and so is a horse with a job.
LEMMA GotoTypes ==
  ASSUME TypeOK
  PROVE  /\ \A r \in Requests, pc \in HandlerPc :
              ApiGoto(r, pc) => api' \in [Requests -> Handler]
         /\ \A w \in Workers, pc \in HorsePc \ {"idle"} :
              worker[w].pc # "idle" /\ WorkerGoto(w, pc) =>
                /\ worker' \in [Workers -> Horse]
                /\ \A v \in Workers : worker'[v].pc = "idle" <=> worker'[v].job = NoJob
<1>1. ASSUME NEW r \in Requests, NEW pc \in HandlerPc, ApiGoto(r, pc)
      PROVE  api' \in [Requests -> Handler]
  <2>1. [api[r] EXCEPT !.pc = pc] \in Handler
    BY DEF TypeOK, Handler
  <2> QED BY <1>1, <2>1 DEF ApiGoto, TypeOK
<1>2. ASSUME NEW w \in Workers, NEW pc \in HorsePc \ {"idle"},
             worker[w].pc # "idle", WorkerGoto(w, pc)
      PROVE  /\ worker' \in [Workers -> Horse]
             /\ \A v \in Workers : worker'[v].pc = "idle" <=> worker'[v].job = NoJob
  <2>1. /\ [worker[w] EXCEPT !.pc = pc] \in Horse
        /\ [worker[w] EXCEPT !.pc = pc].pc = pc
        /\ [worker[w] EXCEPT !.pc = pc].job = worker[w].job
    BY DEF TypeOK, Horse
  <2> QED BY <1>2, <2>1 DEF WorkerGoto, TypeOK
<1> QED BY <1>1, <1>2

\* A fault that happens stays within the bound.
LEMMA FaultType ==
  ASSUME TypeOK, NEW kind, Fault(kind)
  PROVE  faults' \in 0..MaxFaults
BY Assumption DEF Fault, TypeOK

\* The worker variable when one horse becomes another value of the right shape.
LEMMA HorseTypes ==
  ASSUME TypeOK, NEW w \in Workers, NEW h \in Horse, h.pc = "idle" <=> h.job = NoJob,
         worker' = [worker EXCEPT ![w] = h]
  PROVE  /\ worker' \in [Workers -> Horse]
         /\ \A v \in Workers : worker'[v].pc = "idle" <=> worker'[v].job = NoJob
BY DEF TypeOK

\* The idle horse is a horse, and the only kind without a job.
LEMMA IdleType == IdleHorse \in Horse /\ IdleHorse.pc = "idle" /\ IdleHorse.job = NoJob
BY RowTypes, PcNames DEF IdleHorse, Horse

\* A busy horse works on a request.
LEMMA BusyHorse ==
  ASSUME TypeOK, NEW w \in Workers, worker[w].pc # "idle"
  PROVE  /\ worker[w].job \in Requests
         /\ worker[w].loaded \in Row
         /\ jobs[worker[w].job] \in Row
BY DEF TypeOK, Horse

\* The steps of the POST handler preserve the types.
LEMMA HandlerTypeStep ==
  ASSUME TypeOK, NEW r \in Requests,
         Reject(r) \/ Accept(r) \/ HandlerStep(r) \/ HandlerFault(r)
  PROVE  TypeOK'
<1>1. CASE Reject(r) \/ Accept(r)
  BY <1>1, PcNames, GotoTypes DEF Reject, Accept, TypeOK
<1>2. CASE LoadStrategy(r)
  <2> DEFINE known == StrategyOf[r] \in strategies
             h     == [api[r] EXCEPT !.pc = "upsert", !.existing = known]
  <2>1. h \in Handler
    <3>1. known \in BOOLEAN
      OBVIOUS
    <3> HIDE DEF known
    <3> QED BY <3>1, PcNames DEF TypeOK, Handler
  <2>2. api' \in [Requests -> Handler]
    <3>1. api' = [api EXCEPT ![r] = h]
      BY <1>2 DEF LoadStrategy
    <3> HIDE DEF h
    <3> QED BY <2>1, <3>1 DEF TypeOK
  <2> QED BY <1>2, <2>2 DEF LoadStrategy, TypeOK
<1>3. CASE UpsertStrategy(r)
  BY <1>3, PcNames, GotoTypes DEF UpsertStrategy, TypeOK
<1>4. CASE InsertJob(r)
  <2>1. strategies' \subseteq Strategies /\ jobs' \in [Requests -> Row]
    BY <1>4, RowTypes, Assumption DEF InsertJob, InsertRows, TypeOK
  <2>2. api' \in [Requests -> Handler] /\ faults' \in 0..MaxFaults
    BY <1>4, PcNames, GotoTypes, FaultType DEF InsertJob, TypeOK
  <2> QED BY <1>4, <2>1, <2>2 DEF InsertJob, TypeOK
<1>5. CASE Enqueue(r)
  <2>1. queue' \in Seq(Requests)
    <3>1. queue' = queue \/ queue' = Append(queue, r)
      BY <1>5 DEF Enqueue
    <3> QED BY <3>1, AppendProperties DEF TypeOK
  <2>2. api' \in [Requests -> Handler] /\ faults' \in 0..MaxFaults
    BY <1>5, PcNames, GotoTypes, FaultType DEF Enqueue, TypeOK
  <2> QED BY <1>5, <2>1, <2>2 DEF Enqueue, TypeOK
<1>6. CASE LoadEnqueueFailed(r)
  <2>1. [api[r] EXCEPT !.pc = "save_failed", !.loaded = jobs[r]] \in Handler
    BY PcNames DEF TypeOK, Handler
  <2>2. api' \in [Requests -> Handler]
    BY <1>6, <2>1 DEF LoadEnqueueFailed, TypeOK
  <2> QED BY <1>6, <2>2 DEF LoadEnqueueFailed, TypeOK
<1>7. CASE SaveEnqueueFailed(r)
  <2>1. api[r].loaded \in Row /\ jobs[r] \in Row
    BY DEF TypeOK, Handler
  <2>2. jobs' \in [Requests -> Row]
    BY <1>7, <2>1, RowTypes DEF SaveEnqueueFailed, TypeOK
  <2>3. api' \in [Requests -> Handler] /\ faults' \in 0..MaxFaults
    BY <1>7, PcNames, GotoTypes, FaultType DEF SaveEnqueueFailed, TypeOK
  <2> QED BY <1>7, <2>2, <2>3 DEF SaveEnqueueFailed, TypeOK
<1>8. CASE HandlerFault(r)
  BY <1>8, PcNames, GotoTypes, FaultType
     DEF HandlerFault, CreateAborts, MarkEnqueueFailedAborts, TypeOK
<1> QED BY <1>1, <1>2, <1>3, <1>4, <1>5, <1>6, <1>7, <1>8 DEF HandlerStep

\* So do the steps and the faults of a horse.
LEMMA HorseTypeStep ==
  ASSUME TypeOK, NEW w \in Workers, HorseStep(w) \/ HorseFault(w)
  PROVE  TypeOK'
<1>1. CASE Dequeue(w)
  <2>1. Head(queue) \in Requests /\ queue' \in Seq(Requests)
    BY <1>1 DEF Dequeue, TypeOK
  <2>2. [pc |-> "load_running", job |-> Head(queue), loaded |-> NoRow, armed |-> TRUE] \in Horse
    BY <2>1, RowTypes, PcNames DEF Horse
  <2>3. /\ worker' \in [Workers -> Horse]
        /\ \A v \in Workers : worker'[v].pc = "idle" <=> worker'[v].job = NoJob
    BY <1>1, <2>1, <2>2, HorseTypes, Assumption DEF Dequeue
  <2> QED BY <1>1, <2>1, <2>3 DEF Dequeue, TypeOK
<1>2. ASSUME NEW from \in HorsePc \ {"idle"}, NEW to \in HorsePc \ {"idle"}, LoadRow(w, from, to)
      PROVE  TypeOK'
  <2> DEFINE row == jobs[worker[w].job]
             pc  == IF row.status = "none" THEN "load_failed" ELSE to
             h   == [worker[w] EXCEPT !.pc = pc, !.loaded = row]
  <2>1. worker[w].pc # "idle" /\ row \in Row
    BY <1>2, BusyHorse DEF LoadRow
  <2>2. h \in Horse /\ h.pc # "idle" /\ h.job # NoJob
    BY <2>1, PcNames DEF TypeOK, Horse
  <2>3. worker' = [worker EXCEPT ![w] = h]
    BY <1>2 DEF LoadRow
  <2>4. /\ worker' \in [Workers -> Horse]
        /\ \A v \in Workers : worker'[v].pc = "idle" <=> worker'[v].job = NoJob
    <3> HIDE DEF h
    <3> QED BY <2>2, <2>3, HorseTypes
  <2> QED BY <1>2, <2>4 DEF LoadRow, TypeOK
<1>3. CASE LoadRunning(w) \/ LoadCompleted(w)
  BY <1>2, <1>3, PcNames DEF LoadRunning, LoadCompleted
<1>4. ASSUME NEW new \in Row, worker[w].pc # "idle", WriteRow(w, new)
      PROVE  jobs' \in [Requests -> Row]
  BY <1>4, BusyHorse, RowTypes DEF WriteRow, TypeOK
<1>5. ASSUME NEW next \in HorsePc \ {"idle"}, worker[w].pc # "idle", Commit(w, next)
      PROVE  /\ worker' \in [Workers -> Horse]
             /\ \A v \in Workers : worker'[v].pc = "idle" <=> worker'[v].job = NoJob
             /\ faults' \in 0..MaxFaults
  BY <1>5, PcNames, GotoTypes, FaultType DEF Commit, TypeOK
<1>6. CASE SaveRunning(w)
  BY <1>4, <1>5, <1>6, BusyHorse, RowTypes, PcNames DEF SaveRunning, TypeOK
<1>7. CASE Execute(w)
  BY <1>7, GotoTypes, PcNames DEF Execute, TypeOK
<1>8. CASE SaveCompleted(w)
  BY <1>4, <1>5, <1>8, BusyHorse, RowTypes, PcNames DEF SaveCompleted, TypeOK
<1>9. ASSUME worker' = [worker EXCEPT ![w] = IdleHorse]
      PROVE  /\ worker' \in [Workers -> Horse]
             /\ \A v \in Workers : worker'[v].pc = "idle" <=> worker'[v].job = NoJob
  BY <1>9, IdleType, HorseTypes
<1>10. CASE Return(w)
  BY <1>9, <1>10 DEF Return, TypeOK
<1>11. CASE LoadFailed(w)
  <2> DEFINE row == jobs[worker[w].job]
             h   == [worker[w] EXCEPT !.pc = "save_failed", !.loaded = row]
  <2>1. h \in Horse /\ h.pc # "idle" /\ h.job # NoJob
    BY <1>11, BusyHorse, PcNames DEF LoadFailed, TypeOK, Horse
  <2>2. /\ worker' \in [Workers -> Horse]
        /\ \A v \in Workers : worker'[v].pc = "idle" <=> worker'[v].job = NoJob
    <3>1. worker' = [worker EXCEPT ![w] = IdleHorse] \/ worker' = [worker EXCEPT ![w] = h]
      BY <1>11 DEF LoadFailed
    <3> HIDE DEF h
    <3> QED BY <2>1, <3>1, <1>9, HorseTypes
  <2> QED BY <1>11, <2>2 DEF LoadFailed, TypeOK
<1>12. CASE SaveFailed(w)
  BY <1>4, <1>9, <1>12, BusyHorse, RowTypes, FaultType DEF SaveFailed, TypeOK
<1>13. CASE WriteAborts(w)
  BY <1>13, GotoTypes, FaultType, PcNames DEF WriteAborts, TypeOK
<1>14. ASSUME worker[w].pc # "idle", Abandon(w)
       PROVE  /\ worker' \in [Workers -> Horse]
              /\ \A v \in Workers : worker'[v].pc = "idle" <=> worker'[v].job = NoJob
              /\ lost' \subseteq Requests
  BY <1>9, <1>14, BusyHorse DEF Abandon, TypeOK
<1>15. CASE MarkFailedAborts(w) \/ Kill(w)
  BY <1>14, <1>15, FaultType DEF MarkFailedAborts, Kill, TypeOK
<1>16. CASE Timeout(w)
  <2> DEFINE h == [worker[w] EXCEPT !.pc = "load_failed", !.armed = FALSE]
  <2>1. CASE worker[w].pc \in TryBlock /\ worker' = [worker EXCEPT ![w] = h] /\ UNCHANGED lost
    <3>1. h \in Horse /\ h.pc # "idle" /\ h.job # NoJob
      BY <2>1, BusyHorse, PcNames DEF TypeOK, Horse, TryBlock
    <3>2. /\ worker' \in [Workers -> Horse]
          /\ \A v \in Workers : worker'[v].pc = "idle" <=> worker'[v].job = NoJob
      <4> HIDE DEF h
      <4> QED BY <2>1, <3>1, HorseTypes
    <3> QED BY <1>16, <2>1, <3>2, FaultType DEF Timeout, TypeOK
  <2>2. CASE worker[w].pc \in {"load_failed", "save_failed"} /\ Abandon(w)
    BY <1>14, <1>16, <2>2, FaultType DEF Timeout, TypeOK
  <2> QED BY <1>16, <2>1, <2>2 DEF Timeout
<1> QED BY <1>1, <1>3, <1>6, <1>7, <1>8, <1>10, <1>11, <1>12, <1>13, <1>15, <1>16
        DEF HorseStep, HorseFault

\* The initial state is well typed: nothing is requested, queued or run.
LEMMA InitTypeOK == Init => TypeOK
<1> SUFFICES ASSUME Init PROVE TypeOK
  OBVIOUS
<1>1. [pc |-> "idle", existing |-> FALSE, loaded |-> NoRow] \in Handler
  BY RowTypes, PcNames DEF Handler
<1> QED BY <1>1, Assumption, RowTypes, IdleType DEF Init, TypeOK, Statuses

\* Every variable stays in its type in every behaviour of JobLifecycle, whatever
\* the processes do and whichever faults hit them.
THEOREM TypeCorrect == Spec => []TypeOK
<1>1. Init => TypeOK
  BY InitTypeOK
<1>2. TypeOK /\ [Next]_vars => TypeOK'
  <2> SUFFICES ASSUME TypeOK, [Next]_vars PROVE TypeOK'
    OBVIOUS
  <2>1. ASSUME NEW r \in Requests,
               Reject(r) \/ Accept(r) \/ HandlerStep(r) \/ HandlerFault(r)
        PROVE  TypeOK'
    BY <2>1, HandlerTypeStep
  <2>2. ASSUME NEW r \in Requests, PageStep(r) PROVE TypeOK'
    BY <2>2 DEF PageStep, Poll, FetchResult, TypeOK, Row
  <2>3. ASSUME NEW w \in Workers, HorseStep(w) \/ HorseFault(w) PROVE TypeOK'
    BY <2>3, HorseTypeStep
  <2>4. CASE ApiCrash
    <3>1. \A r \in Requests : [api[r] EXCEPT !.pc = "crashed"] \in Handler
      BY PcNames DEF TypeOK, Handler
    <3>2. api' \in [Requests -> Handler]
      BY <2>4, <3>1 DEF ApiCrash, TypeOK
    <3> QED BY <2>4, <3>2, FaultType DEF ApiCrash, TypeOK
  <2>5. CASE Quiescent \/ UNCHANGED vars
    BY <2>5 DEF Quiescent, vars, TypeOK
  <2> QED BY <2>1, <2>2, <2>3, <2>4, <2>5 DEF Next
<1> QED BY <1>1, <1>2, PTL DEF Spec

---------------------------------------------------------------------------
(* The inductive invariant.                                                *)

\* The status a flush leaves.
LEMMA FlushedStatus ==
  ASSUME NEW now \in Row, NEW old \in Row, NEW new \in Row
  PROVE  Flush(now, old, new).status =
           IF new.status # old.status THEN new.status ELSE now.status
BY DEF Flush

\* While queue, handlers' pcs and the horses' jobs stay, each id stays where it is.
LEMMA SamePlaces ==
  ASSUME JobInv, TypeOK', queue' = queue,
         \A r \in Requests : api'[r].pc = api[r].pc,
         \A v \in Workers : worker'[v].job = worker[v].job
  PROVE  /\ SingleCopy'
         /\ \A r \in Requests : (Queued(r)' <=> Queued(r)) /\ (Held(r)' <=> Held(r))
BY DEF JobInv, SingleCopy, Queued, Held

\* When one horse goes idle, its job is nowhere and the others stay.
LEMMA HorseReleased ==
  ASSUME JobInv, TypeOK', queue' = queue, api' = api,
         NEW w \in Workers, worker[w].pc # "idle",
         worker' = [worker EXCEPT ![w] = IdleHorse]
  PROVE  /\ SingleCopy'
         /\ \A r \in Requests : Queued(r)' <=> Queued(r)
         /\ \A r \in Requests : Held(r)' <=> Held(r) /\ r # worker[w].job
         /\ ~Queued(worker[w].job)
         /\ \A v \in Workers : worker'[v].pc # "idle" =>
                                 v # w /\ worker'[v] = worker[v] /\ worker[v].job # worker[w].job
<1>1. /\ worker[w].job \in Requests
      /\ \A v \in Workers \ {w} : worker'[v] = worker[v]
      /\ worker'[w] = IdleHorse
  BY BusyHorse DEF JobInv, TypeOK
<1>2. \A v \in Workers \ {w} : worker[v].job # worker[w].job
  BY <1>1, Assumption DEF JobInv, SingleCopy
<1>3. \A r \in Requests : Held(r)' <=> Held(r) /\ r # worker[w].job
  BY <1>1, <1>2, IdleType, Assumption DEF Held
<1>4. \A r \in Requests : Queued(r)' <=> Queued(r)
  BY DEF Queued
<1>5. ~Queued(worker[w].job)
  BY <1>1 DEF JobInv, SingleCopy, Held
<1>6. SingleCopy'
  BY <1>1, <1>3, <1>4, IdleType DEF JobInv, SingleCopy
<1> QED BY <1>1, <1>2, <1>3, <1>4, <1>5, <1>6, IdleType

\* The job of a busy horse has a row, and a horse only works on a pushed job.
LEMMA BusyRow ==
  ASSUME JobInv, NEW w \in Workers, worker[w].pc # "idle"
  PROVE  HorseView(w) /\ jobs[worker[w].job].status # "none"
<1>1. worker[w].pc \in HorsePc \ {"idle"}
  BY DEF JobInv, TypeOK, Horse
<1>2. HorseView(w)
  BY <1>1 DEF JobInv
<1> QED BY <1>1, <1>2, PcNames DEF HorseView

\* A horse goes on with its job: it may have changed nothing, marked the row running,
\* or marked it completed with its result.
LEMMA HorseMovesOn ==
  ASSUME JobInv, TypeOK', NEW w \in Workers, NEW j \in Requests, worker[w].job = j,
         worker'[w].job = j, worker'[w].pc # "idle", HorseView(w)',
         \A v \in Workers \ {w} : worker'[v] = worker[v],
         UNCHANGED <<queue, api, lost, page, shown>>,
         results \subseteq results',
         \A r \in Requests \ {j} : jobs'[r] = jobs[r],
         jobs'[j].status \in {jobs[j].status, "running", "completed"},
         jobs'[j].status = "completed" => j \in results'
  PROVE  JobInv'
<1>1. /\ SingleCopy'
      /\ \A r \in Requests : (Queued(r)' <=> Queued(r)) /\ (Held(r)' <=> Held(r))
  BY SamePlaces
<1>2. Held(j) /\ ~Queued(j) /\ api[j].pc \notin NotYetPushed
  BY DEF Held, JobInv, SingleCopy
<1>3. jobs[j].status # "none"
  BY BusyRow, Assumption DEF JobInv, TypeOK
<1>4. ASSUME NEW r \in Requests PROVE HandlerView(r)'
  <2>1. CASE r # j
    BY <1>1, <2>1 DEF JobInv, HandlerView
  <2>2. CASE r = j
    BY <1>1, <1>2, <1>3, <2>2 DEF JobInv, HandlerView, NotYetPushed
  <2> QED BY <2>1, <2>2
<1>5. ASSUME NEW v \in Workers, worker'[v].pc # "idle" PROVE HorseView(v)'
  <2>1. CASE v # w
    <3>1. worker'[v] = worker[v] /\ worker[v].job \in Requests \ {j}
      BY <2>1, <1>5, BusyHorse, Assumption DEF JobInv, SingleCopy
    <3> QED BY <1>5, <3>1 DEF JobInv, HorseView
  <2> QED BY <2>1
<1>6. CompletedHasResult' /\ ResultServed'
  BY DEF JobInv, CompletedHasResult, ResultServed
<1>7. NoSilentLoss'
  BY <1>1, <1>2 DEF JobInv, NoSilentLoss, InFlight
<1> QED BY <1>1, <1>4, <1>5, <1>6, <1>7 DEF JobInv

\* A horse ends: the row is completed or failed, or the job is lost.
LEMMA HorseEnds ==
  ASSUME JobInv, TypeOK', NEW w \in Workers, NEW j \in Requests, worker[w].job = j,
         worker' = [worker EXCEPT ![w] = IdleHorse],
         UNCHANGED <<queue, api, page, shown, results>>,
         lost \subseteq lost',
         \A r \in Requests \ {j} : jobs'[r] = jobs[r],
         jobs'[j].status \in {jobs[j].status, "failed"},
         jobs'[j].status \in {"completed", "failed"} \/ j \in lost'
  PROVE  JobInv'
<1>0. worker[w].pc # "idle"
  BY Assumption DEF JobInv, TypeOK
<1>1. /\ SingleCopy'
      /\ \A r \in Requests : Queued(r)' <=> Queued(r)
      /\ \A r \in Requests : Held(r)' <=> Held(r) /\ r # j
      /\ ~Queued(j)
      /\ \A v \in Workers : worker'[v].pc # "idle" =>
                              v # w /\ worker'[v] = worker[v] /\ worker[v].job # j
  BY <1>0, HorseReleased
<1>2. api[j].pc \notin NotYetPushed
  BY DEF Held, JobInv, SingleCopy
<1>4. ASSUME NEW r \in Requests PROVE HandlerView(r)'
  <2>1. CASE r # j
    BY <1>1, <2>1 DEF JobInv, HandlerView
  <2>2. CASE r = j
    BY <1>1, <1>2, <2>2 DEF JobInv, HandlerView, NotYetPushed
  <2> QED BY <2>1, <2>2
<1>5. ASSUME NEW v \in Workers, worker'[v].pc # "idle" PROVE HorseView(v)'
  <2>1. worker'[v] = worker[v] /\ worker[v].job \in Requests \ {j} /\ worker[v].pc # "idle"
    BY <1>1, <1>5, BusyHorse DEF JobInv
  <2> QED BY <2>1 DEF JobInv, HorseView
<1>6. CompletedHasResult' /\ ResultServed'
  BY DEF JobInv, CompletedHasResult, ResultServed
<1>7. NoSilentLoss'
  BY <1>1 DEF JobInv, NoSilentLoss, InFlight
<1> QED BY <1>1, <1>4, <1>5, <1>6, <1>7 DEF JobInv

\* A horse step that is none of the endings: what it does to the worker variable.
LEMMA Moved ==
  ASSUME JobInv, NEW w \in Workers, NEW h, worker' = [worker EXCEPT ![w] = h]
  PROVE  worker'[w] = h /\ \A v \in Workers \ {w} : worker'[v] = worker[v]
BY DEF JobInv, TypeOK

\* The row a busy horse writes.
LEMMA Written ==
  ASSUME JobInv, NEW w \in Workers, worker[w].pc # "idle", NEW new \in Row, WriteRow(w, new)
  PROVE  /\ jobs'[worker[w].job].status = IF new.status # worker[w].loaded.status
                                          THEN new.status ELSE jobs[worker[w].job].status
         /\ \A r \in Requests \ {worker[w].job} : jobs'[r] = jobs[r]
<1>1. worker[w].job \in Requests /\ worker[w].loaded \in Row /\ jobs[worker[w].job] \in Row
  BY BusyHorse DEF JobInv
<1>2. jobs'[worker[w].job] = Flush(jobs[worker[w].job], worker[w].loaded, new)
  BY <1>1 DEF WriteRow, JobInv, TypeOK
<1> QED BY <1>1, <1>2, FlushedStatus DEF WriteRow, JobInv, TypeOK

\* What the three commits of a horse leave in the row of its job.
LEMMA Saved ==
  ASSUME JobInv, NEW w \in Workers
  PROVE  LET j == worker[w].job IN
         /\ SaveRunning(w)   => jobs'[j].status = "running"
         /\ SaveCompleted(w) => jobs'[j].status = "completed"
         /\ SaveFailed(w)    => jobs'[j].status = "failed"
         /\ SaveRunning(w) \/ SaveCompleted(w) \/ SaveFailed(w) =>
              \A r \in Requests \ {j} : jobs'[r] = jobs[r]
<1> DEFINE j == worker[w].job
<1>1. ASSUME worker[w].pc # "idle"
      PROVE  /\ j \in Requests /\ worker[w].loaded \in Row /\ jobs[j] \in Row
             /\ HorseView(w)
  BY <1>1, BusyHorse, BusyRow DEF JobInv
<1>2. ASSUME SaveRunning(w)
      PROVE  jobs'[j].status = "running" /\ \A r \in Requests \ {j} : jobs'[r] = jobs[r]
  <2> DEFINE new == AsRunning(worker[w].loaded)
  <2>1. worker[w].pc # "idle"
    BY <1>2 DEF SaveRunning
  <2>2. new \in Row /\ new.status = "running" /\ WriteRow(w, new)
    BY <1>1, <1>2, <2>1, RowTypes, NewStatus DEF SaveRunning
  <2>3. worker[w].loaded.status # "running"
    BY <1>1, <1>2, <2>1 DEF SaveRunning, HorseView
  <2> HIDE DEF new
  <2> QED BY <2>1, <2>2, <2>3, Written
<1>3. ASSUME SaveCompleted(w)
      PROVE  jobs'[j].status = "completed" /\ \A r \in Requests \ {j} : jobs'[r] = jobs[r]
  <2> DEFINE new == AsCompleted(worker[w].loaded)
  <2>1. worker[w].pc # "idle"
    BY <1>3 DEF SaveCompleted
  <2>2. new \in Row /\ new.status = "completed" /\ WriteRow(w, new)
    BY <1>1, <1>3, <2>1, RowTypes, NewStatus DEF SaveCompleted
  <2>3. worker[w].loaded.status # "completed"
    BY <1>1, <1>3, <2>1 DEF SaveCompleted, HorseView
  <2> HIDE DEF new
  <2> QED BY <2>1, <2>2, <2>3, Written
<1>4. ASSUME SaveFailed(w)
      PROVE  jobs'[j].status = "failed" /\ \A r \in Requests \ {j} : jobs'[r] = jobs[r]
  <2> DEFINE new == AsFailed(worker[w].loaded)
  <2>1. worker[w].pc # "idle"
    BY <1>4 DEF SaveFailed
  <2>2. new \in Row /\ new.status = "failed" /\ WriteRow(w, new)
    BY <1>1, <1>4, <2>1, RowTypes, NewStatus DEF SaveFailed
  <2>3. worker[w].loaded.status # "none" /\ jobs[j].status \in {worker[w].loaded.status, "failed"}
    BY <1>1, <1>4, <2>1 DEF SaveFailed, HorseView
  <2> HIDE DEF new
  <2> QED BY <2>1, <2>2, <2>3, Written
<1> QED BY <1>2, <1>3, <1>4

\* The horse's own steps keep the invariant.
LEMMA HorseInvStep ==
  ASSUME JobInv, TypeOK', NEW w \in Workers, HorseStep(w), ~Dequeue(w)
  PROVE  JobInv'
<1> DEFINE j == worker[w].job
<1>0. worker[w].pc # "idle"
  BY DEF HorseStep, LoadRunning, SaveRunning, Execute, LoadCompleted, SaveCompleted, Return,
         LoadFailed, SaveFailed, LoadRow
<1>1. /\ j \in Requests /\ worker[w].loaded \in Row /\ jobs[j] \in Row
      /\ HorseView(w) /\ jobs[j].status # "none"
  BY <1>0, BusyHorse, BusyRow DEF JobInv
<1>w. worker[w] \in Horse
  BY DEF JobInv, TypeOK
<1>2. CASE LoadRunning(w) \/ LoadCompleted(w)
  <2>1. PICK from, to : /\ LoadRow(w, from, to)
                        /\ <<from, to>> \in {<<"load_running", "save_running">>,
                                             <<"load_completed", "save_completed">>}
    BY <1>2 DEF LoadRunning, LoadCompleted
  <2> DEFINE h == [worker[w] EXCEPT !.pc = to, !.loaded = jobs[j]]
  <2>2. worker' = [worker EXCEPT ![w] = h]
    BY <1>1, <2>1 DEF LoadRow
  <2>3. h.pc = to /\ h.job = j /\ h.loaded = jobs[j]
    BY <1>w DEF Horse
  <2>4. worker'[w] = h /\ \A v \in Workers \ {w} : worker'[v] = worker[v]
    <3> HIDE DEF h
    <3> QED BY <2>2, Moved
  <2> HIDE DEF h
  <2>5. HorseView(w)'
    BY <1>1, <2>1, <2>3, <2>4 DEF HorseView, LoadRow
  <2> QED BY <1>1, <2>1, <2>3, <2>4, <2>5, HorseMovesOn DEF LoadRow, JobInv, CompletedHasResult
<1>3. ASSUME NEW pc, WorkerGoto(w, pc), pc # "idle"
      PROVE  /\ worker'[w].pc = pc /\ worker'[w].job = j /\ worker'[w].loaded = worker[w].loaded
             /\ \A v \in Workers \ {w} : worker'[v] = worker[v]
  BY <1>3, <1>w DEF WorkerGoto, Horse, JobInv, TypeOK
<1>4. CASE SaveRunning(w)
  <2>1. PICK pc \in {"execute", "load_failed"} : WorkerGoto(w, pc)
    BY <1>4 DEF SaveRunning, Commit
  <2>2. jobs'[j].status = "running" /\ \A r \in Requests \ {j} : jobs'[r] = jobs[r]
    BY <1>4, Saved
  <2>3. HorseView(w)'
    BY <1>3, <2>1, <2>2 DEF HorseView
  <2> QED BY <1>1, <1>3, <1>4, <2>1, <2>2, <2>3, HorseMovesOn DEF SaveRunning
<1>5. CASE Execute(w)
  <2>1. PICK pc \in {"load_completed", "load_failed"} : WorkerGoto(w, pc)
    BY <1>5 DEF Execute
  <2>2. HorseView(w)'
    BY <1>1, <1>3, <1>5, <2>1 DEF HorseView, Execute
  <2> QED BY <1>1, <1>3, <1>5, <2>1, <2>2, HorseMovesOn DEF Execute, JobInv, CompletedHasResult
<1>6. CASE SaveCompleted(w)
  <2>1. PICK pc \in {"return", "load_failed"} : WorkerGoto(w, pc)
    BY <1>6 DEF SaveCompleted, Commit
  <2>2. jobs'[j].status = "completed" /\ \A r \in Requests \ {j} : jobs'[r] = jobs[r]
    BY <1>6, Saved
  <2>3. HorseView(w)'
    BY <1>3, <2>1, <2>2 DEF HorseView
  <2> QED BY <1>1, <1>3, <1>6, <2>1, <2>2, <2>3, HorseMovesOn DEF SaveCompleted
<1>7. CASE Return(w)
  BY <1>1, <1>7, HorseEnds DEF Return, HorseView
<1>8. CASE LoadFailed(w)
  <2> DEFINE h == [worker[w] EXCEPT !.pc = "save_failed", !.loaded = jobs[j]]
  <2>1. worker' = [worker EXCEPT ![w] = h]
    BY <1>1, <1>8, Zenon DEF LoadFailed
  <2>2. h.pc = "save_failed" /\ h.job = j /\ h.loaded = jobs[j]
    BY <1>w DEF Horse
  <2>3. worker'[w] = h /\ \A v \in Workers \ {w} : worker'[v] = worker[v]
    <3> HIDE DEF h
    <3> QED BY <2>1, Moved
  <2> HIDE DEF h
  <2>4. HorseView(w)'
    BY <1>1, <1>8, <2>2, <2>3 DEF HorseView, LoadFailed
  <2> QED BY <1>1, <1>8, <2>2, <2>3, <2>4, HorseMovesOn DEF LoadFailed, JobInv, CompletedHasResult
<1>9. CASE SaveFailed(w)
  <2>1. jobs'[j].status = "failed" /\ \A r \in Requests \ {j} : jobs'[r] = jobs[r]
    BY <1>9, Saved
  <2> QED BY <1>1, <1>9, <2>1, HorseEnds DEF SaveFailed
<1> QED BY <1>2, <1>4, <1>5, <1>6, <1>7, <1>8, <1>9 DEF HorseStep

\* The faults that hit a horse keep the invariant.
LEMMA HorseFaultInvStep ==
  ASSUME JobInv, TypeOK', NEW w \in Workers, HorseFault(w)
  PROVE  JobInv'
<1> DEFINE j == worker[w].job
<1>0. worker[w].pc # "idle"
  BY DEF HorseFault, WriteAborts, MarkFailedAborts, Timeout, Kill, TryBlock
<1>1. /\ j \in Requests /\ worker[w].loaded \in Row /\ jobs[j] \in Row
      /\ HorseView(w) /\ jobs[j].status # "none"
  BY <1>0, BusyHorse, BusyRow DEF JobInv
<1>w. worker[w] \in Horse
  BY DEF JobInv, TypeOK
<1>2. ASSUME NEW h, h.pc = "load_failed", h.job = j, worker' = [worker EXCEPT ![w] = h],
             UNCHANGED <<jobs, results, queue, api, lost, page, shown>>
      PROVE  JobInv'
  <2>1. worker'[w] = h /\ \A v \in Workers \ {w} : worker'[v] = worker[v]
    BY <1>2, Moved
  <2>2. HorseView(w)'
    BY <1>1, <1>2, <2>1 DEF HorseView
  <2> QED BY <1>1, <1>2, <2>1, <2>2, HorseMovesOn DEF JobInv, CompletedHasResult
<1>3. CASE WriteAborts(w)
  <2> DEFINE h == [worker[w] EXCEPT !.pc = "load_failed"]
  <2>1. h.pc = "load_failed" /\ h.job = j
    BY <1>w DEF Horse
  <2>2. worker' = [worker EXCEPT ![w] = h]
    BY <1>3, Zenon DEF WriteAborts, WorkerGoto
  <2> HIDE DEF h
  <2> QED BY <1>2, <1>3, <2>1, <2>2 DEF WriteAborts
<1>4. ASSUME Abandon(w), UNCHANGED <<jobs, results, queue, api, page, shown>>
      PROVE  JobInv'
  BY <1>1, <1>4, HorseEnds DEF Abandon
<1>5. CASE MarkFailedAborts(w) \/ Kill(w)
  BY <1>4, <1>5 DEF MarkFailedAborts, Kill
<1>6. CASE Timeout(w)
  <2>1. CASE Abandon(w)
    BY <1>4, <1>6, <2>1 DEF Timeout
  <2>2. CASE ~Abandon(w)
    <3> DEFINE h == [worker[w] EXCEPT !.pc = "load_failed", !.armed = FALSE]
    <3>1. h.pc = "load_failed" /\ h.job = j
      BY <1>w DEF Horse
    <3>2. worker' = [worker EXCEPT ![w] = h] /\ UNCHANGED lost
      BY <1>6, <2>2, Zenon DEF Timeout
    <3> HIDE DEF h
    <3> QED BY <1>2, <1>6, <3>1, <3>2 DEF Timeout
  <2> QED BY <2>1, <2>2
<1> QED BY <1>3, <1>5, <1>6 DEF HorseFault

\* Popping the first id moves it from the queue to the horse.
LEMMA DequeueInvStep ==
  ASSUME JobInv, TypeOK', NEW w \in Workers, Dequeue(w)
  PROVE  JobInv'
<1> DEFINE j == Head(queue)
<1>1. /\ queue \in Seq(Requests) /\ queue # <<>> /\ Len(queue) \in Nat \ {0}
      /\ j \in Requests /\ j = queue[1] /\ Queued(j)
      /\ Len(queue') = Len(queue) - 1
      /\ \A i \in 1..Len(queue') : queue'[i] = queue[i + 1]
  BY DEF Dequeue, JobInv, TypeOK, Queued
<1>2. \A r \in Requests : Queued(r)' <=> Queued(r) /\ r # j
  <2> SUFFICES ASSUME NEW r \in Requests PROVE Queued(r)' <=> Queued(r) /\ r # j
    OBVIOUS
  <2>1. ASSUME Queued(r)' PROVE Queued(r) /\ r # j
    <3>1. PICK i \in 1..Len(queue') : queue'[i] = r
      BY <2>1 DEF Queued
    <3>2. i + 1 \in 1..Len(queue) /\ i + 1 # 1 /\ queue[i + 1] = r
      BY <1>1, <3>1
    <3> QED BY <1>1, <3>2 DEF Queued, JobInv, SingleCopy
  <2>2. ASSUME Queued(r), r # j PROVE Queued(r)'
    <3>1. PICK i \in 1..Len(queue) : queue[i] = r
      BY <2>2 DEF Queued
    <3>2. i - 1 \in 1..Len(queue') /\ queue'[i - 1] = r
      BY <1>1, <2>2, <3>1
    <3> QED BY <3>2 DEF Queued
  <2> QED BY <2>1, <2>2
<1>3. /\ worker'[w].pc = "load_running" /\ worker'[w].job = j
      /\ \A v \in Workers \ {w} : worker'[v] = worker[v]
      /\ worker[w].job = NoJob
  BY DEF Dequeue, JobInv, TypeOK
<1>4. \A r \in Requests : Held(r)' <=> Held(r) \/ r = j
  BY <1>3, Assumption DEF Held
<1>5. ~Held(j) /\ api[j].pc \notin NotYetPushed
  BY <1>1 DEF JobInv, SingleCopy
<1>6. SingleCopy'
  <2>1. \A r \in Requests : api[r].pc \in NotYetPushed => ~Queued(r)' /\ ~Held(r)'
    BY <1>2, <1>4, <1>5 DEF JobInv, SingleCopy
  <2>2. \A r \in Requests : ~(Queued(r)' /\ Held(r)')
    BY <1>2, <1>4 DEF JobInv, SingleCopy
  <2>3. \A i, k \in 1..Len(queue') : queue'[i] = queue'[k] => i = k
    <3> SUFFICES ASSUME NEW i \in 1..Len(queue'), NEW k \in 1..Len(queue'),
                        queue'[i] = queue'[k]
                 PROVE  i = k
      OBVIOUS
    <3>1. i + 1 \in 1..Len(queue) /\ k + 1 \in 1..Len(queue) /\ queue[i + 1] = queue[k + 1]
      BY <1>1
    <3>2. i + 1 = k + 1
      BY <3>1 DEF JobInv, SingleCopy
    <3> QED BY <3>2
  <2>4. \A u, v \in Workers : worker'[u].job = worker'[v].job /\ worker'[u].job # NoJob => u = v
    BY <1>3, <1>5 DEF JobInv, SingleCopy, Held
  <2> QED BY <2>1, <2>2, <2>3, <2>4 DEF SingleCopy, Dequeue
<1>7. UNCHANGED <<jobs, results, api, lost, page, shown>>
  BY DEF Dequeue
<1>8. jobs[j].status \in {"queued", "failed"} /\
      (jobs[j].status = "failed" => api[j].pc \in {"http_500", "http_503"})
  BY <1>1 DEF JobInv, HandlerView
<1>9. ASSUME NEW r \in Requests PROVE HandlerView(r)'
  <2>1. CASE r # j
    BY <1>2, <1>4, <1>7, <2>1 DEF JobInv, HandlerView
  <2>2. CASE r = j
    BY <1>1, <1>2, <1>4, <1>5, <1>7, <1>8, <2>2 DEF JobInv, HandlerView, NotYetPushed
  <2> QED BY <2>1, <2>2
<1>10. ASSUME NEW v \in Workers, worker'[v].pc # "idle" PROVE HorseView(v)'
  <2>1. CASE v = w
    BY <1>3, <1>7, <1>8, <2>1 DEF HorseView
  <2>2. CASE v # w
    BY <1>3, <1>7, <1>10, <2>2 DEF JobInv, HorseView
  <2> QED BY <2>1, <2>2
<1>11. CompletedHasResult' /\ ResultServed'
  BY <1>7 DEF JobInv, CompletedHasResult, ResultServed
<1>12. NoSilentLoss'
  BY <1>2, <1>4, <1>7 DEF JobInv, NoSilentLoss, InFlight
<1> QED BY <1>6, <1>9, <1>10, <1>11, <1>12 DEF JobInv

\* A handler goes on and may insert its row or mark it failed; it pushes nothing.
LEMMA HandlerMovesOn ==
  ASSUME JobInv, TypeOK', NEW r \in Requests, api[r].pc \notin Ended,
         \A q \in Requests \ {r} : api'[q] = api[q] /\ jobs'[q] = jobs[q],
         UNCHANGED <<queue, worker, results, lost, page, shown>>,
         api'[r].pc \in NotYetPushed => api[r].pc \in NotYetPushed,
         HandlerView(r)',
         \/ jobs'[r].status = jobs[r].status
         \/ jobs'[r].status = "queued" /\ api[r].pc \in NotYetPushed
         \/ jobs'[r].status = "failed" /\ api'[r].pc \in {"http_500", "http_503"},
         jobs'[r].status = "queued" => InFlight(r)' \/ api'[r].pc \in {"crashed", "http_500"}
  PROVE  JobInv'
<1>1. \A q \in Requests : (Queued(q)' <=> Queued(q)) /\ (Held(q)' <=> Held(q))
  BY DEF Queued, Held
<1>2. SingleCopy'
  BY <1>1 DEF JobInv, SingleCopy
<1>3. ASSUME NEW q \in Requests PROVE HandlerView(q)'
  <2>1. CASE q # r
    BY <1>1, <2>1 DEF JobInv, HandlerView
  <2> QED BY <2>1
<1>4. ASSUME NEW w \in Workers, worker'[w].pc # "idle" PROVE HorseView(w)'
  <2>1. HorseView(w) /\ worker[w].job \in Requests /\ worker' = worker
    BY <1>4, BusyHorse DEF JobInv
  <2>2. CASE worker[w].job # r
    BY <2>1, <2>2 DEF HorseView
  <2>3. CASE worker[w].job = r
    <3>1. jobs'[r].status = jobs[r].status \/
          (jobs'[r].status = "failed" /\ api'[r].pc \in {"http_500", "http_503"})
      BY <2>3 DEF JobInv, SingleCopy, Held
    <3>2. api[r].pc \notin {"http_500", "http_503"}
      BY DEF Ended
    <3> QED BY <2>1, <2>3, <3>1, <3>2 DEF HorseView
  <2> QED BY <2>2, <2>3
<1>5. CompletedHasResult' /\ ResultServed'
  BY DEF JobInv, CompletedHasResult, ResultServed
<1>6. NoSilentLoss'
  <2> SUFFICES ASSUME NEW q \in Requests
               PROVE  /\ jobs'[q].status = "queued" =>
                           \/ InFlight(q)' \/ Queued(q)' \/ Held(q)'
                           \/ api'[q].pc \in {"crashed", "http_500"} \/ q \in lost'
                      /\ jobs'[q].status = "running" => Held(q)' \/ q \in lost'
    BY DEF NoSilentLoss
  <2>1. CASE q # r
    BY <1>1, <2>1 DEF JobInv, NoSilentLoss, InFlight
  <2>2. CASE q = r
    BY <1>1, <2>2 DEF JobInv, NoSilentLoss
  <2> QED BY <2>1, <2>2
<1> QED BY <1>2, <1>3, <1>4, <1>5, <1>6 DEF JobInv

\* A push puts the id of the handler's own job, which was nowhere, at the end.
LEMMA PushInvStep ==
  ASSUME JobInv, TypeOK', NEW r \in Requests, api[r].pc = "enqueue",
         queue' = Append(queue, r), NEW pc \in {"http_202", "load_failed"}, ApiGoto(r, pc),
         UNCHANGED <<jobs, results, worker, lost, page, shown>>
  PROVE  JobInv'
<1>1. /\ queue \in Seq(Requests) /\ Len(queue') = Len(queue) + 1 /\ Len(queue) \in Nat
      /\ \A i \in 1..Len(queue) : queue'[i] = queue[i]
      /\ queue'[Len(queue) + 1] = r
  BY AppendProperties DEF JobInv, TypeOK
<1>2. \A q \in Requests : Queued(q)' <=> Queued(q) \/ q = r
  <2> SUFFICES ASSUME NEW q \in Requests PROVE Queued(q)' <=> Queued(q) \/ q = r
    OBVIOUS
  <2>1. ASSUME Queued(q)' PROVE Queued(q) \/ q = r
    <3>1. PICK i \in 1..Len(queue') : queue'[i] = q
      BY <2>1 DEF Queued
    <3>2. i \in 1..Len(queue) \/ i = Len(queue) + 1
      BY <1>1, <3>1
    <3> QED BY <1>1, <3>1, <3>2 DEF Queued
  <2>2. ASSUME Queued(q) \/ q = r PROVE Queued(q)'
    <3>1. CASE q = r
      BY <1>1, <3>1 DEF Queued
    <3>2. CASE Queued(q)
      <4>1. PICK i \in 1..Len(queue) : queue[i] = q
        BY <3>2 DEF Queued
      <4>2. i \in 1..Len(queue')
        BY <1>1, <4>1
      <4> QED BY <1>1, <4>1, <4>2 DEF Queued
    <3> QED BY <2>2, <3>1, <3>2
  <2> QED BY <2>1, <2>2
<1>3. \A q \in Requests : Held(q)' <=> Held(q)
  BY DEF Held
<1>4. ~Queued(r) /\ ~Held(r) /\ jobs[r].status = "queued"
  BY DEF JobInv, SingleCopy, NotYetPushed, HandlerView
<1>5. api'[r].pc = pc /\ \A q \in Requests \ {r} : api'[q] = api[q]
  BY DEF ApiGoto, JobInv, TypeOK, Handler
<1>6. SingleCopy'
  <2>1. \A q \in Requests : api'[q].pc \in NotYetPushed => ~Queued(q)' /\ ~Held(q)'
    BY <1>2, <1>3, <1>5 DEF JobInv, SingleCopy, NotYetPushed, InTransaction
  <2>2. \A q \in Requests : ~(Queued(q)' /\ Held(q)')
    BY <1>2, <1>3, <1>4 DEF JobInv, SingleCopy
  <2>3. \A i, k \in 1..Len(queue') : queue'[i] = queue'[k] => i = k
    <3> SUFFICES ASSUME NEW i \in 1..Len(queue'), NEW k \in 1..Len(queue'),
                        queue'[i] = queue'[k]
                 PROVE  i = k
      OBVIOUS
    <3>1. \A n \in 1..Len(queue) : queue[n] # r
      BY <1>4 DEF Queued
    <3>2. \A n \in 1..Len(queue') : n \in 1..Len(queue) \/ n = Len(queue')
      BY <1>1
    <3>3. CASE i \in 1..Len(queue) /\ k \in 1..Len(queue)
      BY <1>1, <3>3 DEF JobInv, SingleCopy
    <3>4. CASE i = Len(queue') \/ k = Len(queue')
      BY <1>1, <3>1, <3>2, <3>4
    <3> QED BY <3>2, <3>3, <3>4
  <2>4. \A u, v \in Workers : worker'[u].job = worker'[v].job /\ worker'[u].job # NoJob => u = v
    BY DEF JobInv, SingleCopy
  <2> QED BY <2>1, <2>2, <2>3, <2>4 DEF SingleCopy
<1>7. ASSUME NEW q \in Requests PROVE HandlerView(q)'
  <2>1. CASE q # r
    BY <1>2, <1>3, <1>5, <2>1 DEF JobInv, HandlerView
  <2>2. CASE q = r
    BY <1>2, <1>3, <1>4, <1>5, <2>2 DEF HandlerView, InTransaction
  <2> QED BY <2>1, <2>2
<1>8. ASSUME NEW w \in Workers, worker'[w].pc # "idle" PROVE HorseView(w)'
  <2>1. HorseView(w) /\ worker[w].job \in Requests /\ worker[w].job # r
    BY <1>4, <1>8, BusyHorse DEF JobInv, Held
  <2> QED BY <1>5, <2>1 DEF HorseView
<1>9. CompletedHasResult' /\ ResultServed'
  BY DEF JobInv, CompletedHasResult, ResultServed
<1>10. NoSilentLoss'
  BY <1>2, <1>3, <1>4, <1>5 DEF JobInv, NoSilentLoss, InFlight
<1> QED BY <1>6, <1>7, <1>8, <1>9, <1>10 DEF JobInv

\* What the commit of _mark_enqueue_failed leaves in the row of its job.
LEMMA EnqueueErrorSaved ==
  ASSUME JobInv, NEW r \in Requests, SaveEnqueueFailed(r)
  PROVE  jobs'[r].status = "failed" /\ \A q \in Requests \ {r} : jobs'[q] = jobs[q]
<1> DEFINE new == AsFailed(api[r].loaded)
<1>v. HandlerView(r) /\ api[r] \in Handler
  BY DEF JobInv, TypeOK
<1>1. api[r].loaded \in Row /\ jobs[r] \in Row /\ new \in Row /\ new.status = "failed"
  BY <1>v, RowTypes, NewStatus DEF Handler, JobInv, TypeOK
<1>2. jobs' = [jobs EXCEPT ![r] = Flush(jobs[r], api[r].loaded, new)]
  BY DEF SaveEnqueueFailed
<1>3. api[r].loaded.status = "failed" => jobs[r].status = "failed"
  BY <1>v DEF SaveEnqueueFailed, HandlerView
<1> HIDE DEF new
<1>4. jobs'[r] = Flush(jobs[r], api[r].loaded, new) /\ \A q \in Requests \ {r} : jobs'[q] = jobs[q]
  BY <1>2 DEF JobInv, TypeOK
<1> QED BY <1>1, <1>3, <1>4, FlushedStatus

\* The steps and the faults of a handler keep the invariant.
LEMMA HandlerInvStep ==
  ASSUME JobInv, TypeOK', NEW r \in Requests,
         Reject(r) \/ Accept(r) \/ HandlerStep(r) \/ HandlerFault(r)
  PROVE  JobInv'
<1> USE DEF NotYetPushed, InTransaction, Ended, InFlight
<1>v. HandlerView(r) /\ api[r] \in Handler
  BY DEF JobInv, TypeOK
<1>1. ASSUME NEW pc, ApiGoto(r, pc)
      PROVE  /\ api'[r].pc = pc /\ api'[r].loaded = api[r].loaded
             /\ \A q \in Requests \ {r} : api'[q] = api[q]
  BY <1>1, <1>v DEF ApiGoto, Handler, JobInv, TypeOK
<1>2. UNCHANGED <<queue, worker>> => (Queued(r)' <=> Queued(r)) /\ (Held(r)' <=> Held(r))
  BY DEF Queued, Held
<1>3. CASE Reject(r)
  <2>1. HandlerView(r)'
    BY <1>v, <1>1, <1>2, <1>3 DEF Reject, HandlerView, JobInv, SingleCopy
  <2> QED BY <1>v, <1>1, <1>3, <2>1, HandlerMovesOn DEF Reject, HandlerView
<1>4. CASE Accept(r)
  <2>1. HandlerView(r)'
    BY <1>v, <1>1, <1>2, <1>4 DEF Accept, HandlerView, JobInv, SingleCopy
  <2> QED BY <1>v, <1>1, <1>4, <2>1, HandlerMovesOn DEF Accept
<1>5. CASE LoadStrategy(r)
  <2>1. /\ api'[r].pc = "upsert" /\ api'[r].loaded = api[r].loaded
        /\ \A q \in Requests \ {r} : api'[q] = api[q]
    BY <1>v, <1>5 DEF LoadStrategy, Handler, JobInv, TypeOK
  <2>2. HandlerView(r)'
    BY <1>v, <1>2, <1>5, <2>1 DEF LoadStrategy, HandlerView, JobInv, SingleCopy
  <2> QED BY <1>v, <1>5, <2>1, <2>2, HandlerMovesOn DEF LoadStrategy
<1>6. CASE UpsertStrategy(r)
  <2>1. PICK pc \in {"insert", "http_500"} : ApiGoto(r, pc)
    BY <1>6 DEF UpsertStrategy
  <2>2. HandlerView(r)'
    BY <1>v, <1>1, <1>2, <1>6, <2>1 DEF UpsertStrategy, HandlerView, JobInv, SingleCopy
  <2>3. jobs'[r].status = "none"
    BY <1>v, <1>6 DEF UpsertStrategy, HandlerView
  <2> QED BY <1>v, <1>1, <1>6, <2>1, <2>2, <2>3, HandlerMovesOn DEF UpsertStrategy
<1>7. CASE InsertJob(r)
  <2>1. PICK pc \in {"enqueue", "http_500"} : ApiGoto(r, pc)
    BY <1>7 DEF InsertJob
  <2>2. jobs'[r].status = "queued" /\ \A q \in Requests \ {r} : jobs'[q] = jobs[q]
    BY <1>7 DEF InsertJob, InsertRows, QueuedRow, JobInv, TypeOK
  <2>3. HandlerView(r)'
    BY <1>v, <1>1, <1>2, <1>7, <2>1, <2>2 DEF InsertJob, HandlerView, JobInv, SingleCopy
  <2> QED BY <1>v, <1>1, <1>7, <2>1, <2>2, <2>3, HandlerMovesOn DEF InsertJob
<1>8. CASE Enqueue(r)
  <2>1. CASE queue' = Append(queue, r)
    <3>1. PICK pc \in {"http_202", "load_failed"} : ApiGoto(r, pc)
      BY <1>8 DEF Enqueue
    <3> QED BY <1>8, <2>1, <3>1, PushInvStep DEF Enqueue
  <2>2. CASE ApiGoto(r, "load_failed") /\ UNCHANGED queue
    <3>1. HandlerView(r)'
      BY <1>v, <1>1, <1>2, <1>8, <2>2 DEF Enqueue, HandlerView, JobInv, SingleCopy
    <3> QED BY <1>v, <1>1, <1>8, <2>2, <3>1, HandlerMovesOn DEF Enqueue
  <2> QED BY <1>8, <2>1, <2>2 DEF Enqueue
<1>9. CASE LoadEnqueueFailed(r)
  <2>1. /\ api'[r].pc = "save_failed" /\ api'[r].loaded = jobs[r]
        /\ \A q \in Requests \ {r} : api'[q] = api[q]
    BY <1>v, <1>9 DEF LoadEnqueueFailed, Handler, JobInv, TypeOK
  <2>2. HandlerView(r)'
    BY <1>v, <1>2, <1>9, <2>1 DEF LoadEnqueueFailed, HandlerView
  <2> QED BY <1>v, <1>9, <2>1, <2>2, HandlerMovesOn DEF LoadEnqueueFailed
<1>10. CASE SaveEnqueueFailed(r)
  <2>1. PICK pc \in {"http_503", "http_500"} : ApiGoto(r, pc)
    BY <1>10 DEF SaveEnqueueFailed
  <2>2. jobs'[r].status = "failed" /\ \A q \in Requests \ {r} : jobs'[q] = jobs[q]
    BY <1>10, EnqueueErrorSaved
  <2>3. HandlerView(r)'
    BY <1>v, <1>1, <1>2, <1>10, <2>1, <2>2 DEF SaveEnqueueFailed, HandlerView
  <2> QED BY <1>v, <1>1, <1>10, <2>1, <2>2, <2>3, HandlerMovesOn DEF SaveEnqueueFailed
<1>11. CASE CreateAborts(r) \/ MarkEnqueueFailedAborts(r)
  <2>1. ApiGoto(r, "http_500") /\ UNCHANGED <<jobs, results, queue, worker, lost, page, shown>>
    BY <1>11 DEF CreateAborts, MarkEnqueueFailedAborts
  <2>2. HandlerView(r)' /\ api[r].pc \notin Ended
    BY <1>v, <1>1, <1>2, <1>11, <2>1
       DEF CreateAborts, MarkEnqueueFailedAborts, HandlerView, JobInv, SingleCopy
  <2> QED BY <1>v, <1>1, <2>1, <2>2, HandlerMovesOn
<1> QED BY <1>3, <1>4, <1>5, <1>6, <1>7, <1>8, <1>9, <1>10, <1>11 DEF HandlerStep, HandlerFault

\* The death of the API process keeps it: the handlers in flight are crashed.
LEMMA CrashInvStep ==
  ASSUME JobInv, TypeOK', ApiCrash
  PROVE  JobInv'
<1>1. UNCHANGED <<jobs, results, queue, worker, lost, page, shown>>
  BY DEF ApiCrash
<1>2. ASSUME NEW r \in Requests
      PROVE  \/ api'[r] = api[r] /\ ~InFlight(r)
             \/ api'[r].pc = "crashed" /\ InFlight(r)
  BY DEF ApiCrash, JobInv, TypeOK, Handler
<1>3. \A r \in Requests : (Queued(r)' <=> Queued(r)) /\ (Held(r)' <=> Held(r))
  BY <1>1 DEF Queued, Held
<1>4. SingleCopy'
  BY <1>1, <1>2, <1>3 DEF JobInv, SingleCopy, NotYetPushed, InTransaction
<1>5. ASSUME NEW r \in Requests PROVE HandlerView(r)'
  <2>1. CASE api'[r] = api[r]
    BY <1>1, <1>3, <2>1 DEF JobInv, HandlerView
  <2>2. CASE api'[r].pc = "crashed" /\ InFlight(r)
    BY <1>1, <1>3, <2>2 DEF JobInv, HandlerView, InFlight, Ended, InTransaction
  <2> QED BY <1>2, <2>1, <2>2
<1>6. ASSUME NEW w \in Workers, worker'[w].pc # "idle" PROVE HorseView(w)'
  <2>1. HorseView(w) /\ worker[w].job \in Requests
    BY <1>1, <1>6, BusyHorse DEF JobInv
  <2>2. api[worker[w].job].pc \in {"http_500", "http_503"} => api'[worker[w].job] = api[worker[w].job]
    BY <1>2, <2>1 DEF InFlight, Ended
  <2> QED BY <1>1, <2>1, <2>2 DEF HorseView
<1>7. CompletedHasResult' /\ ResultServed'
  BY <1>1 DEF JobInv, CompletedHasResult, ResultServed
<1>8. NoSilentLoss'
  BY <1>1, <1>2, <1>3 DEF JobInv, NoSilentLoss, InFlight
<1> QED BY <1>4, <1>5, <1>6, <1>7, <1>8 DEF JobInv

\* A page only reads: it is told what the rows say.
LEMMA PageInvStep ==
  ASSUME JobInv, TypeOK', NEW r \in Requests, PageStep(r)
  PROVE  JobInv'
<1>1. UNCHANGED <<jobs, results, queue, api, worker, lost>>
  BY DEF PageStep, Poll, FetchResult
<1>2. SingleCopy' /\ NoSilentLoss' /\ \A q \in Requests : HandlerView(q)'
  BY <1>1 DEF JobInv, SingleCopy, NoSilentLoss, HandlerView, Queued, Held, InFlight
<1>3. \A w \in Workers : worker'[w].pc # "idle" => HorseView(w)'
  BY <1>1 DEF JobInv, HorseView
<1>4. CompletedHasResult' /\ ResultServed'
  <2>1. CASE Poll(r)
    BY <1>1, <2>1 DEF Poll, JobInv, TypeOK, CompletedHasResult, ResultServed
  <2>2. CASE FetchResult(r)
    BY <1>1, <2>2 DEF FetchResult, JobInv, TypeOK, CompletedHasResult, ResultServed
  <2> QED BY <2>1, <2>2 DEF PageStep
<1> QED BY <1>2, <1>3, <1>4 DEF JobInv

---------------------------------------------------------------------------
(* The theorems.                                                           *)

\* JobInv is inductive: every step of JobLifecycle keeps it.
LEMMA JobInvStep == JobInv /\ TypeOK' /\ [Next]_vars => JobInv'
<1> SUFFICES ASSUME JobInv, TypeOK', [Next]_vars PROVE JobInv'
  OBVIOUS
<1>1. ASSUME NEW r \in Requests, Reject(r) \/ Accept(r) \/ HandlerStep(r) \/ HandlerFault(r)
      PROVE  JobInv'
  BY <1>1, HandlerInvStep
<1>2. ASSUME NEW r \in Requests, PageStep(r) PROVE JobInv'
  BY <1>2, PageInvStep
<1>3. ASSUME NEW w \in Workers, HorseStep(w) PROVE JobInv'
  BY <1>3, HorseInvStep, DequeueInvStep
<1>4. ASSUME NEW w \in Workers, HorseFault(w) PROVE JobInv'
  BY <1>4, HorseFaultInvStep
<1>5. CASE ApiCrash
  BY <1>5, CrashInvStep
<1>6. CASE Quiescent \/ UNCHANGED vars
  <2>1. UNCHANGED vars
    BY <1>6 DEF Quiescent
  <2> QED BY <2>1 DEF vars, JobInv, SingleCopy, NoSilentLoss, HandlerView, HorseView, Queued, Held,
                      InFlight, CompletedHasResult, ResultServed
<1> QED BY <1>1, <1>2, <1>3, <1>4, <1>5, <1>6 DEF Next

\* In every behaviour, with any number of requests, workers and faults, rows,
\* messages, handlers and horses agree as JobInv says.
THEOREM InvariantHolds == Spec => []JobInv
<1>1. Init /\ TypeOK => JobInv
  <2> SUFFICES ASSUME Init, TypeOK PROVE JobInv
    OBVIOUS
  <2>1. \A r \in Requests : ~Queued(r) /\ ~Held(r)
    BY Assumption, IdleType DEF Init, Queued, Held
  <2>2. SingleCopy
    BY <2>1, IdleType, Assumption DEF Init, SingleCopy
  <2>3. \A r \in Requests : HandlerView(r)
    BY <2>1 DEF Init, HandlerView, NoRow
  <2> QED BY <2>1, <2>2, <2>3, IdleType
          DEF Init, JobInv, CompletedHasResult, NoSilentLoss, ResultServed, NoRow
<1>2. TypeOK /\ TypeOK' /\ JobInv /\ [Next]_vars => JobInv'
  BY JobInvStep
<1>3. Init => TypeOK /\ JobInv
  BY <1>1, InitTypeOK
<1> QED BY <1>1, <1>2, TypeCorrect, PTL DEF Spec

\* A job id in Redis or in a horse's hands names a committed row.
THEOREM DeliveredRowExists == Spec => []DeliveredHasRow
<1>1. JobInv => DeliveredHasRow
  <2> SUFFICES ASSUME JobInv, NEW r \in Requests, Queued(r) \/ Held(r)
               PROVE  jobs[r].status # "none"
    BY DEF DeliveredHasRow
  <2>1. CASE Queued(r)
    BY <2>1 DEF JobInv, HandlerView
  <2>2. CASE Held(r)
    <3>1. PICK w \in Workers : worker[w].job = r
      BY <2>2 DEF Held
    <3>2. worker[w].pc # "idle"
      BY <3>1, Assumption DEF JobInv, TypeOK
    <3> QED BY <3>1, <3>2, BusyRow
  <2> QED BY <2>1, <2>2
<1> QED BY <1>1, InvariantHolds, PTL

\* No job is forgotten silently, whatever fails.
THEOREM NothingLostSilently == Spec => []NoSilentLoss
<1>1. JobInv => NoSilentLoss
  BY DEF JobInv
<1> QED BY <1>1, InvariantHolds, PTL

\* A page told 'completed' is always served the result.
THEOREM CompletedIsServed == Spec => []ResultServed
<1>1. JobInv => ResultServed
  BY DEF JobInv
<1> QED BY <1>1, InvariantHolds, PTL

\* Every fault is one that its victim notices, or one that ends it.
FaultsAreWhole == Faults \intersect HalfKnown = {}

---------------------------------------------------------------------------
(* Who writes a row.                                                       *)

\* Five commits write a row; the result comes with one of them.
LEMMA Writers ==
  ASSUME [Next]_vars
  PROVE  \/ UNCHANGED <<jobs, results>>
         \/ \E r \in Requests : InsertJob(r) \/ SaveEnqueueFailed(r)
         \/ \E w \in Workers : SaveRunning(w) \/ SaveCompleted(w) \/ SaveFailed(w)
<1>1. ASSUME NEW r \in Requests,
             Reject(r) \/ Accept(r) \/ HandlerStep(r) \/ HandlerFault(r) \/ PageStep(r),
             ~InsertJob(r), ~SaveEnqueueFailed(r)
      PROVE  UNCHANGED <<jobs, results>>
  BY <1>1 DEF Reject, Accept, HandlerStep, LoadStrategy, UpsertStrategy, Enqueue,
              LoadEnqueueFailed, HandlerFault, CreateAborts, MarkEnqueueFailedAborts,
              PageStep, Poll, FetchResult
<1>2. ASSUME NEW w \in Workers, HorseStep(w) \/ HorseFault(w),
             ~SaveRunning(w), ~SaveCompleted(w), ~SaveFailed(w)
      PROVE  UNCHANGED <<jobs, results>>
  BY <1>2 DEF HorseStep, Dequeue, LoadRunning, LoadCompleted, LoadRow, Execute, Return,
              LoadFailed, HorseFault, WriteAborts, MarkFailedAborts, Timeout, Kill
<1>3. CASE ApiCrash \/ Quiescent \/ UNCHANGED vars
  BY <1>3 DEF ApiCrash, Quiescent, vars
<1> QED BY <1>1, <1>2, <1>3 DEF Next

\* The first commit of a job makes its row.
LEMMA Inserted ==
  ASSUME JobInv, NEW r \in Requests, InsertJob(r)
  PROVE  /\ jobs[r].status = "none" /\ jobs'[r].status = "queued"
         /\ \A q \in Requests \ {r} : jobs'[q] = jobs[q]
         /\ results' = results
BY DEF InsertJob, InsertRows, QueuedRow, JobInv, TypeOK, HandlerView, InTransaction

\* The job of a saving horse is a request.
LEMMA SavingHorse ==
  ASSUME JobInv, NEW w \in Workers, SaveRunning(w) \/ SaveCompleted(w) \/ SaveFailed(w)
  PROVE  worker[w].job \in Requests /\ worker[w].pc # "idle" /\ HorseView(w)
<1>1. worker[w].pc # "idle"
  BY DEF SaveRunning, SaveCompleted, SaveFailed
<1> QED BY <1>1, BusyHorse, BusyRow DEF JobInv

\* Only _mark_running sets 'running'.
LEMMA WhoRuns ==
  ASSUME JobInv, [Next]_vars, NEW r \in Requests,
         jobs[r].status # "running", jobs'[r].status = "running"
  PROVE  \E w \in Workers : SaveRunning(w) /\ worker[w].job = r
<1>1. jobs' # jobs
  OBVIOUS
<1>2. ASSUME NEW q \in Requests, InsertJob(q) \/ SaveEnqueueFailed(q) PROVE FALSE
  BY <1>2, Inserted, EnqueueErrorSaved
<1>3. PICK w \in Workers : SaveRunning(w) \/ SaveCompleted(w) \/ SaveFailed(w)
  BY <1>1, <1>2, Writers
<1>4. worker[w].job = r
  BY <1>3, Saved
<1>5. ~SaveCompleted(w) /\ ~SaveFailed(w)
  BY <1>4, Saved
<1> QED BY <1>3, <1>4, <1>5

\* A job that has ended is started again only when it failed because its own enqueue
\* raised, whatever fails: RQ delivers no id twice and no completed job runs.
THEOREM NothingRunsTwice == Spec => NoRerun
<1> DEFINE Rerun(r) == jobs[r].status \in Terminal /\ jobs[r].status' = "running"
<1>1. ASSUME JobInv, [Next]_vars, NEW r \in Requests, Rerun(r)
      PROVE  jobs[r].status = "failed" /\ api[r].pc \in {"http_500", "http_503"}
  <2>1. PICK w \in Workers : SaveRunning(w) /\ worker[w].job = r
    BY <1>1, WhoRuns DEF Terminal
  <2> QED BY <1>1, <2>1, SavingHorse DEF Terminal, SaveRunning, HorseView
<1>2. JobInv /\ [Next]_vars =>
        [\A r \in Requests : Rerun(r) => jobs[r].status = "failed" /\
                                         api[r].pc \in {"http_500", "http_503"}]_jobs
  BY <1>1
<1> QED BY <1>2, InvariantHolds, PTL DEF Spec, NoRerun

---------------------------------------------------------------------------
(* One writer at a time, when no fault leaves a step half known.           *)

\* A half-known fault does not happen.
LEMMA NoHalfKnown ==
  ASSUME FaultsAreWhole
  PROVE  ~Fault("reply_lost") /\ ~Fault("commit_unknown") /\ ~Fault("timeout")
BY DEF FaultsAreWhole, HalfKnown, Fault

\* A step of a horse or a page puts no id into Redis, and takes one out to hold it.
LEMMA HorsePlaces ==
  ASSUME JobInv, NEW w \in Workers, HorseStep(w) \/ HorseFault(w), NEW r \in Requests,
         ~Queued(r), ~Held(r)
  PROVE  ~Queued(r)' /\ ~Held(r)'
<1>1. CASE Dequeue(w)
  <2>1. /\ queue \in Seq(Requests) /\ queue # <<>> /\ Len(queue) \in Nat \ {0}
        /\ Len(queue') = Len(queue) - 1
        /\ \A i \in 1..Len(queue') : queue'[i] = queue[i + 1] /\ i + 1 \in 1..Len(queue)
        /\ Head(queue) = queue[1] /\ 1 \in 1..Len(queue)
    BY <1>1 DEF Dequeue, JobInv, TypeOK
  <2>2. Head(queue) # r
    BY <2>1 DEF Queued
  <2>3. ~Queued(r)'
    BY <2>1 DEF Queued
  <2>4. worker'[w].job = Head(queue) /\ \A v \in Workers \ {w} : worker'[v] = worker[v]
    BY <1>1 DEF Dequeue, JobInv, TypeOK
  <2> QED BY <2>2, <2>3, <2>4 DEF Held
<1>2. CASE ~Dequeue(w)
  <2>1. queue' = queue
    BY <1>2 DEF HorseStep, LoadRunning, SaveRunning, Execute, LoadCompleted, SaveCompleted, Return,
                LoadFailed, SaveFailed, LoadRow, HorseFault, WriteAborts, MarkFailedAborts,
                Timeout, Kill
  <2>2. worker[w] \in Horse /\ worker \in [Workers -> Horse]
    BY DEF JobInv, TypeOK
  <2>3. \A v \in Workers : worker'[v].job \in {worker[v].job, NoJob}
    <3>1. ASSUME NEW pc, WorkerGoto(w, pc) PROVE \A v \in Workers : worker'[v].job \in {worker[v].job, NoJob}
      BY <2>2, <3>1 DEF WorkerGoto, Horse
    <3>2. ASSUME worker' = [worker EXCEPT ![w] = IdleHorse] PROVE \A v \in Workers : worker'[v].job \in {worker[v].job, NoJob}
      BY <2>2, <3>2, IdleType
    <3>3. CASE LoadRunning(w) \/ LoadCompleted(w)
      BY <2>2, <3>3 DEF LoadRunning, LoadCompleted, LoadRow, Horse
    <3>4. CASE LoadFailed(w)
      BY <2>2, <3>2, <3>4 DEF LoadFailed, Horse
    <3>5. CASE SaveRunning(w) \/ Execute(w) \/ SaveCompleted(w) \/ WriteAborts(w)
      BY <3>1, <3>5 DEF SaveRunning, Execute, SaveCompleted, WriteAborts, Commit
    <3>6. CASE Return(w) \/ SaveFailed(w) \/ MarkFailedAborts(w) \/ Kill(w)
      BY <3>2, <3>6 DEF Return, SaveFailed, MarkFailedAborts, Kill, Abandon
    <3>7. CASE Timeout(w)
      BY <2>2, <3>2, <3>7 DEF Timeout, Abandon, Horse
    <3> QED BY <1>2, <3>3, <3>4, <3>5, <3>6, <3>7 DEF HorseStep, HorseFault
  <2> QED BY <2>1, <2>3, Assumption DEF Queued, Held
<1> QED BY <1>1, <1>2

\* What a handler does beside its own program counter: it pushes and writes its own job
\* only, and never a job that a horse holds.
LEMMA HandlerWrites ==
  ASSUME JobInv, OneWriter, NEW q \in Requests,
         Reject(q) \/ Accept(q) \/ HandlerStep(q) \/ HandlerFault(q)
  PROVE  /\ worker' = worker
         /\ \A r \in Requests \ {q} : api'[r] = api[r] /\ jobs'[r] = jobs[r]
         /\ \A r \in Requests : Held(r) => jobs'[r] = jobs[r]
         /\ \A r \in Requests : Queued(r)' => Queued(r) \/ (r = q /\ Enqueue(q))
         /\ \A r \in Requests : Held(r)' <=> Held(r)
<1> USE DEF Reject, Accept, HandlerStep, LoadStrategy, UpsertStrategy, InsertJob, Enqueue,
            LoadEnqueueFailed, SaveEnqueueFailed, HandlerFault, CreateAborts,
            MarkEnqueueFailedAborts
<1>1. worker' = worker /\ \A r \in Requests : Held(r)' <=> Held(r)
  BY DEF Held
<1>2. \A r \in Requests \ {q} : api'[r] = api[r]
  BY DEF ApiGoto, JobInv, TypeOK
<1>3. \A r \in Requests \ {q} : jobs'[r] = jobs[r]
  BY DEF InsertRows, JobInv, TypeOK
<1>4. Held(q) => jobs'[q] = jobs[q]
  <2>1. jobs' = jobs \/ InsertJob(q) \/ SaveEnqueueFailed(q)
    OBVIOUS
  <2>2. InsertJob(q) => ~Held(q)
    BY DEF JobInv, SingleCopy, NotYetPushed, InTransaction
  <2>3. SaveEnqueueFailed(q) => ~Held(q)
    BY DEF OneWriter, EnqueueErrorIsFinal
  <2> QED BY <2>1, <2>2, <2>3
<1>5. ASSUME NEW r \in Requests, Queued(r)' PROVE Queued(r) \/ (r = q /\ Enqueue(q))
  <2>1. CASE queue' = queue
    BY <1>5, <2>1 DEF Queued
  <2>2. CASE Enqueue(q) /\ queue' = Append(queue, q)
    <3>1. PICK i \in 1..Len(queue') : queue'[i] = r
      BY <1>5 DEF Queued
    <3>2. /\ Len(queue) \in Nat /\ Len(queue') = Len(queue) + 1
          /\ \A k \in 1..Len(queue) : queue'[k] = queue[k]
          /\ queue'[Len(queue) + 1] = q
      BY <2>2, AppendProperties DEF JobInv, TypeOK
    <3>3. i \in 1..Len(queue) \/ i = Len(queue) + 1
      BY <3>1, <3>2
    <3> QED BY <2>2, <3>1, <3>2, <3>3 DEF Queued
  <2> QED BY <2>1, <2>2
<1> QED BY <1>1, <1>2, <1>3, <1>4, <1>5

\* A handler keeps OneWriter.
LEMMA HandlerOneWriter ==
  ASSUME JobInv, OneWriter, FaultsAreWhole, NEW q \in Requests,
         Reject(q) \/ Accept(q) \/ HandlerStep(q) \/ HandlerFault(q)
  PROVE  OneWriter'
<1>1. /\ worker' = worker
      /\ \A r \in Requests \ {q} : api'[r] = api[r] /\ jobs'[r] = jobs[r]
      /\ \A r \in Requests : Held(r) => jobs'[r] = jobs[r]
      /\ \A r \in Requests : Queued(r)' => Queued(r) \/ (r = q /\ Enqueue(q))
      /\ \A r \in Requests : Held(r)' <=> Held(r)
  BY HandlerWrites
<1>2. ASSUME NEW w \in Workers, worker'[w].pc # "idle" PROVE HorseOwnsRow(w)'
  <2>1. worker[w].job \in Requests /\ HorseOwnsRow(w)
    BY <1>1, <1>2, BusyHorse DEF JobInv, OneWriter
  <2>2. jobs'[worker[w].job] = jobs[worker[w].job]
    BY <1>1, <2>1 DEF Held
  <2> QED BY <1>1, <2>1, <2>2 DEF HorseOwnsRow
<1>3. ASSUME NEW r \in Requests,
             api'[r].pc \in {"load_failed", "save_failed", "http_500", "http_503"}
      PROVE  /\ ~Queued(r)' /\ ~Held(r)'
             /\ api'[r].pc \in {"load_failed", "save_failed"} => jobs'[r].status = "queued"
             /\ api'[r].pc = "save_failed" => api'[r].loaded.status = "queued"
  <2>1. CASE r # q
    BY <1>1, <1>3, <2>1 DEF OneWriter, EnqueueErrorIsFinal
  <2>2. CASE r = q
    <3> USE <2>2
    <3>1. ASSUME NEW pc, ApiGoto(q, pc)
          PROVE  api'[q].pc = pc /\ api'[q].loaded = api[q].loaded
      BY <3>1 DEF ApiGoto, JobInv, TypeOK, Handler
    <3>2. api[q].pc \in NotYetPushed => ~Queued(q) /\ ~Held(q)
      BY DEF JobInv, SingleCopy
    <3>3. CASE Reject(q) \/ Accept(q) \/ LoadStrategy(q)
      BY <1>3, <3>1, <3>3 DEF Reject, Accept, LoadStrategy, JobInv, TypeOK, Handler
    <3>4. CASE UpsertStrategy(q) \/ CreateAborts(q)
      BY <1>1, <1>3, <3>1, <3>2, <3>4
         DEF UpsertStrategy, CreateAborts, NotYetPushed, InTransaction, Enqueue
    <3>5. CASE InsertJob(q)
      BY <1>3, <3>1, <3>5, NoHalfKnown DEF InsertJob
    <3>6. CASE Enqueue(q)
      <4>1. ApiGoto(q, "load_failed") /\ UNCHANGED <<queue, jobs>>
        BY <1>3, <3>1, <3>6, NoHalfKnown DEF Enqueue
      <4>2. HandlerView(q)
        BY DEF JobInv
      <4> QED BY <1>1, <3>1, <3>2, <3>6, <4>1, <4>2
              DEF Enqueue, NotYetPushed, HandlerView, Queued
    <3>7. CASE LoadEnqueueFailed(q) \/ SaveEnqueueFailed(q) \/ MarkEnqueueFailedAborts(q)
      <4>1. ~Queued(q)' /\ ~Held(q)' /\ jobs[q].status = "queued"
        BY <1>1, <3>7 DEF LoadEnqueueFailed, SaveEnqueueFailed, MarkEnqueueFailedAborts,
                          OneWriter, EnqueueErrorIsFinal, Enqueue
      <4>2. CASE LoadEnqueueFailed(q)
        <5>1. api'[q].loaded = jobs[q] /\ jobs' = jobs
          BY <4>2 DEF LoadEnqueueFailed, JobInv, TypeOK, Handler
        <5> QED BY <4>1, <5>1
      <4>3. CASE SaveEnqueueFailed(q) \/ MarkEnqueueFailedAborts(q)
        <5>1. api'[q].pc \in {"http_500", "http_503"}
          BY <3>1, <4>3 DEF SaveEnqueueFailed, MarkEnqueueFailedAborts
        <5> QED BY <4>1, <5>1
      <4> QED BY <3>7, <4>2, <4>3
    <3> QED BY <3>3, <3>4, <3>5, <3>6, <3>7 DEF HandlerStep, HandlerFault
  <2> QED BY <2>1, <2>2
<1> QED BY <1>2, <1>3 DEF OneWriter, EnqueueErrorIsFinal

\* A horse writes the row of its own job only.
LEMMA HorseWrites ==
  ASSUME JobInv, NEW w \in Workers, HorseStep(w) \/ HorseFault(w)
  PROVE  /\ api' = api
         /\ \A v \in Workers \ {w} : worker'[v] = worker[v]
         /\ \A r \in Requests : r # worker[w].job => jobs'[r] = jobs[r]
         /\ worker[w].pc = "idle" => jobs' = jobs
<1> USE DEF HorseStep, Dequeue, LoadRunning, LoadCompleted, LoadRow, Execute, Return, LoadFailed,
            HorseFault, WriteAborts, MarkFailedAborts, Timeout, Kill, Commit, WorkerGoto, Abandon,
            TryBlock
<1>1. api' = api
  BY DEF SaveRunning, SaveCompleted, SaveFailed
<1>2. \A v \in Workers \ {w} : worker'[v] = worker[v]
  BY DEF JobInv, TypeOK, SaveRunning, SaveCompleted, SaveFailed
<1>3. jobs' = jobs \/ SaveRunning(w) \/ SaveCompleted(w) \/ SaveFailed(w)
  OBVIOUS
<1>4. \A r \in Requests : r # worker[w].job => jobs'[r] = jobs[r]
  BY <1>3, Saved
<1> QED BY <1>1, <1>2, <1>3, <1>4 DEF SaveRunning, SaveCompleted, SaveFailed

\* A horse keeps OneWriter.
LEMMA HorseOneWriter ==
  ASSUME JobInv, OneWriter, FaultsAreWhole, NEW w \in Workers, HorseStep(w) \/ HorseFault(w)
  PROVE  OneWriter'
<1> DEFINE j == worker[w].job
<1>1. /\ api' = api
      /\ \A v \in Workers \ {w} : worker'[v] = worker[v]
      /\ \A r \in Requests : r # j => jobs'[r] = jobs[r]
      /\ worker[w].pc = "idle" => jobs' = jobs
  BY HorseWrites
<1>2. EnqueueErrorIsFinal'
  <2> SUFFICES ASSUME NEW r \in Requests,
                      api[r].pc \in {"load_failed", "save_failed", "http_500", "http_503"}
               PROVE  ~Queued(r)' /\ ~Held(r)' /\ jobs'[r] = jobs[r]
    BY <1>1 DEF OneWriter, EnqueueErrorIsFinal
  <2>1. ~Queued(r) /\ ~Held(r)
    BY DEF OneWriter, EnqueueErrorIsFinal
  <2> QED BY <1>1, <2>1, HorsePlaces DEF Held
<1>3. ASSUME NEW v \in Workers \ {w}, worker'[v].pc # "idle" PROVE HorseOwnsRow(v)'
  <2>1. worker'[v] = worker[v] /\ HorseOwnsRow(v)
    BY <1>1, <1>3 DEF OneWriter
  <2>2. worker[v].job \in Requests /\ worker[v].job # j
    BY <1>3, <2>1, BusyHorse, Assumption DEF JobInv, SingleCopy
  <2> QED BY <1>1, <2>1, <2>2 DEF HorseOwnsRow
<1>4. ASSUME worker'[w].pc # "idle" PROVE HorseOwnsRow(w)'
  <2>1. worker[w] \in Horse /\ worker \in [Workers -> Horse]
    BY DEF JobInv, TypeOK
  <2>2. ASSUME NEW pc, WorkerGoto(w, pc)
        PROVE  worker'[w].pc = pc /\ worker'[w].job = j /\ worker'[w].loaded = worker[w].loaded
    BY <2>1, <2>2 DEF WorkerGoto, Horse
  <2>3. worker[w].pc # "idle" => HorseOwnsRow(w)
    BY DEF OneWriter
  <2>4. worker' = [worker EXCEPT ![w] = IdleHorse] => worker'[w].pc = "idle"
    BY <2>1, IdleType
  <2>5. CASE Dequeue(w)
    <3>1. /\ Head(queue) \in Requests /\ Queued(Head(queue))
          /\ worker'[w].job = Head(queue) /\ worker'[w].pc = "load_running"
          /\ jobs' = jobs
      BY <2>1, <2>5 DEF Dequeue, Queued, JobInv, TypeOK
    <3>2. jobs[Head(queue)].status = "queued"
      BY <3>1 DEF JobInv, HandlerView, OneWriter, EnqueueErrorIsFinal
    <3> QED BY <3>1, <3>2 DEF HorseOwnsRow
  <2>6. CASE LoadRunning(w) \/ LoadCompleted(w)
    <3>1. PICK from, to : /\ LoadRow(w, from, to)
                          /\ <<from, to>> \in {<<"load_running", "save_running">>,
                                               <<"load_completed", "save_completed">>}
      BY <2>6 DEF LoadRunning, LoadCompleted
    <3>2. jobs[j].status # "none" /\ HorseOwnsRow(w) /\ jobs' = jobs
      BY <2>3, <3>1, BusyRow DEF LoadRow
    <3>3. worker'[w].pc = to /\ worker'[w].job = j /\ worker'[w].loaded = jobs[j]
      BY <2>1, <3>1, <3>2 DEF LoadRow, Horse
    <3> QED BY <3>1, <3>2, <3>3 DEF LoadRow, HorseOwnsRow
  <2>7. CASE SaveRunning(w)
    <3>1. WorkerGoto(w, "execute")
      BY <2>7, NoHalfKnown DEF SaveRunning, Commit
    <3> QED BY <2>2, <2>7, <3>1, Saved DEF HorseOwnsRow
  <2>8. CASE Execute(w)
    <3>1. PICK pc \in {"load_completed", "load_failed"} : WorkerGoto(w, pc)
      BY <2>8 DEF Execute
    <3> QED BY <2>2, <2>3, <2>8, <3>1 DEF Execute, HorseOwnsRow
  <2>9. CASE SaveCompleted(w)
    <3>1. WorkerGoto(w, "return")
      BY <2>9, NoHalfKnown DEF SaveCompleted, Commit
    <3> QED BY <2>2, <2>9, <3>1, Saved DEF HorseOwnsRow
  <2>10. CASE LoadFailed(w)
    <3>1. jobs[j].status # "none" /\ HorseOwnsRow(w) /\ jobs' = jobs
      BY <2>3, <2>10, BusyRow DEF LoadFailed
    <3>2. worker'[w].pc = "save_failed" /\ worker'[w].job = j /\ worker'[w].loaded = jobs[j]
      BY <2>1, <2>10, <3>1 DEF LoadFailed, Horse
    <3> QED BY <2>10, <3>1, <3>2 DEF LoadFailed, HorseOwnsRow
  <2>11. CASE WriteAborts(w)
    BY <2>2, <2>3, <2>11 DEF WriteAborts, HorseOwnsRow
  <2>12. CASE Return(w) \/ SaveFailed(w) \/ MarkFailedAborts(w) \/ Kill(w)
    BY <1>4, <2>4, <2>12 DEF Return, SaveFailed, MarkFailedAborts, Kill, Abandon
  <2>13. ~Timeout(w)
    BY NoHalfKnown DEF Timeout
  <2> QED BY <2>5, <2>6, <2>7, <2>8, <2>9, <2>10, <2>11, <2>12, <2>13 DEF HorseStep, HorseFault
<1> QED BY <1>2, <1>3, <1>4 DEF OneWriter

\* OneWriter is inductive beside JobInv.
LEMMA OneWriterStep ==
  ASSUME JobInv, OneWriter, FaultsAreWhole, [Next]_vars
  PROVE  OneWriter'
<1>1. ASSUME NEW r \in Requests, Reject(r) \/ Accept(r) \/ HandlerStep(r) \/ HandlerFault(r)
      PROVE  OneWriter'
  BY <1>1, HandlerOneWriter
<1>2. ASSUME NEW w \in Workers, HorseStep(w) \/ HorseFault(w) PROVE OneWriter'
  BY <1>2, HorseOneWriter
<1>3. ASSUME UNCHANGED <<jobs, queue, api, worker>> PROVE OneWriter'
  BY <1>3 DEF OneWriter, EnqueueErrorIsFinal, HorseOwnsRow, Queued, Held
<1>4. ASSUME NEW r \in Requests, PageStep(r) PROVE OneWriter'
  BY <1>3, <1>4 DEF PageStep, Poll, FetchResult
<1>5. CASE Quiescent \/ UNCHANGED vars
  BY <1>3, <1>5 DEF Quiescent, vars
<1>6. CASE ApiCrash
  <2>1. UNCHANGED <<jobs, queue, worker>>
    BY <1>6 DEF ApiCrash
  <2>2. \A r \in Requests : api'[r] = api[r] \/ api'[r].pc = "crashed"
    BY <1>6 DEF ApiCrash, JobInv, TypeOK, Handler
  <2> QED BY <2>1, <2>2 DEF OneWriter, EnqueueErrorIsFinal, HorseOwnsRow, Queued, Held
<1> QED BY <1>1, <1>2, <1>4, <1>5, <1>6 DEF Next

\* When no fault leaves a step half known, each row has one writer at a time: the enqueue
\* error of the handler, or the horse.
THEOREM RowsHaveOneWriter == FaultsAreWhole => (Spec => []OneWriter)
<1> SUFFICES ASSUME FaultsAreWhole PROVE Spec => []OneWriter
  OBVIOUS
<1>1. Init => OneWriter
  BY IdleType DEF Init, OneWriter, EnqueueErrorIsFinal
<1>2. JobInv /\ OneWriter /\ [Next]_vars => OneWriter'
  BY OneWriterStep
<1> QED BY <1>1, <1>2, InvariantHolds, PTL DEF Spec

---------------------------------------------------------------------------
(* The refinement.                                                         *)

\* One status moves as the promise allows, the others and the results stay.
LEMMA Moves ==
  ASSUME JobInv, NEW r \in Requests, NEW from, NEW to,
         jobs[r].status \in from, jobs' \in [Requests -> Row], jobs'[r].status = to,
         \A q \in Requests \ {r} : jobs'[q] = jobs[q]
  PROVE  Promise!Become(r, from, to)
BY DEF Promise!Become

\* Every step of JobLifecycle is a step of JobPromise, or changes nothing of it.
LEMMA StepKeepsPromise ==
  ASSUME JobInv, TypeOK', OneWriter, FaultsAreWhole, [Next]_vars
  PROVE  [Promise!Next]_(Promise!vars)
<1>0. jobs' \in [Requests -> Row]
  BY DEF TypeOK
<1>1. CASE UNCHANGED <<jobs, results>>
  BY <1>1 DEF Promise!vars
<1>2. ASSUME NEW r \in Requests, InsertJob(r) PROVE Promise!Next
  <2>1. Promise!Become(r, {"none"}, "queued") /\ results' = results
    BY <1>0, <1>2, Inserted, Moves
  <2> QED BY <2>1 DEF Promise!Next, Promise!Create
<1>3. ASSUME NEW r \in Requests, SaveEnqueueFailed(r) PROVE Promise!Next
  <2>1. jobs[r].status \in {"queued", "running"} /\ results' = results
    BY <1>3 DEF SaveEnqueueFailed, OneWriter, EnqueueErrorIsFinal
  <2>2. Promise!Become(r, {"queued", "running"}, "failed")
    BY <1>0, <1>3, <2>1, EnqueueErrorSaved, Moves
  <2> QED BY <2>1, <2>2 DEF Promise!Next, Promise!Fail
<1>4. ASSUME NEW w \in Workers, SaveRunning(w) \/ SaveCompleted(w) \/ SaveFailed(w)
      PROVE  Promise!Next
  <2> DEFINE j == worker[w].job
  <2>1. j \in Requests /\ HorseOwnsRow(w) /\ \A r \in Requests \ {j} : jobs'[r] = jobs[r]
    BY <1>4, SavingHorse, Saved DEF OneWriter
  <2>2. CASE SaveRunning(w)
    <3>1. jobs[j].status \in {"queued"} /\ jobs'[j].status = "running" /\ results' = results
      BY <2>1, <2>2, Saved DEF SaveRunning, HorseOwnsRow
    <3>2. Promise!Become(j, {"queued"}, "running")
      BY <1>0, <2>1, <3>1, Moves
    <3> QED BY <2>1, <3>1, <3>2 DEF Promise!Next, Promise!Start
  <2>3. CASE SaveCompleted(w)
    <3>1. /\ jobs[j].status \in {"running"} /\ jobs'[j].status = "completed"
          /\ results' = results \union {j}
      BY <2>1, <2>3, Saved DEF SaveCompleted, HorseOwnsRow
    <3>2. Promise!Become(j, {"running"}, "completed")
      BY <1>0, <2>1, <3>1, Moves
    <3> QED BY <2>1, <3>1, <3>2 DEF Promise!Next, Promise!Complete
  <2>4. CASE SaveFailed(w)
    <3>1. /\ jobs[j].status \in {"queued", "running"} /\ jobs'[j].status = "failed"
          /\ results' = results
      BY <2>1, <2>4, Saved DEF SaveFailed, HorseOwnsRow
    <3>2. Promise!Become(j, {"queued", "running"}, "failed")
      BY <1>0, <2>1, <3>1, Moves
    <3> QED BY <2>1, <3>1, <3>2 DEF Promise!Next, Promise!Fail
  <2> QED BY <1>4, <2>2, <2>3, <2>4
<1> QED BY <1>1, <1>2, <1>3, <1>4, Writers

\* When no fault leaves a step half known, the API keeps its promise: each job is queued,
\* started and ended once, and has its result exactly when it is completed.
THEOREM JobsKeepThePromise == FaultsAreWhole => (Spec => PromiseKept)
<1> SUFFICES ASSUME FaultsAreWhole PROVE Spec => PromiseKept
  OBVIOUS
<1>1. Init => Promise!Init
  BY DEF Init, Promise!Init, NoRow
<1>2. JobInv /\ TypeOK' /\ OneWriter /\ [Next]_vars => [Promise!Next]_(Promise!vars)
  BY StepKeepsPromise
<1> QED BY <1>1, <1>2, InvariantHolds, TypeCorrect, RowsHaveOneWriter, PTL
        DEF Spec, PromiseKept, Promise!Spec

\* A page that stopped polling is told nothing new, and results are of completed jobs.
Settled == /\ PageIsRight
           /\ \A r \in results : jobs[r].status = "completed"

\* Only a poll changes what a page was told.
LEMMA Pollers ==
  ASSUME [Next]_vars
  PROVE  page' = page \/ \E r \in Requests : Poll(r)
<1>1. ASSUME NEW r \in Requests,
             Reject(r) \/ Accept(r) \/ HandlerStep(r) \/ HandlerFault(r) \/ FetchResult(r)
      PROVE  page' = page
  BY <1>1 DEF Reject, Accept, HandlerStep, LoadStrategy, UpsertStrategy, InsertJob, Enqueue,
              LoadEnqueueFailed, SaveEnqueueFailed, HandlerFault, CreateAborts,
              MarkEnqueueFailedAborts, FetchResult
<1>2. ASSUME NEW w \in Workers, HorseStep(w) \/ HorseFault(w) PROVE page' = page
  BY <1>2 DEF HorseStep, Dequeue, LoadRunning, SaveRunning, LoadCompleted, SaveCompleted, LoadRow,
              Execute, Return, LoadFailed, SaveFailed, HorseFault, WriteAborts, MarkFailedAborts,
              Timeout, Kill
<1>3. CASE ApiCrash \/ Quiescent \/ UNCHANGED vars
  BY <1>3 DEF ApiCrash, Quiescent, vars
<1> QED BY <1>1, <1>2, <1>3 DEF Next, PageStep

\* A status that ended stays, and a result comes with its status.
LEMMA SettledStep ==
  ASSUME JobInv, TypeOK', OneWriter, FaultsAreWhole, Settled, [Next]_vars
  PROVE  Settled'
<1>1. ASSUME NEW r \in Requests, jobs[r].status \in Terminal
      PROVE  jobs'[r].status = jobs[r].status
  <2>1. CASE UNCHANGED Promise!vars
    <3>1. [q \in Requests |-> jobs[q].status]' = [q \in Requests |-> jobs[q].status]
      BY <2>1 DEF Promise!vars
    <3> QED BY <3>1
  <2>2. CASE Promise!Next
    BY <1>1, <2>2 DEF Promise!Next, Promise!Create, Promise!Start, Promise!Complete,
                      Promise!Fail, Promise!Become, Terminal
  <2> QED BY <2>1, <2>2, StepKeepsPromise
<1>2. ASSUME NEW r \in Requests, page'[r] \in Terminal PROVE jobs'[r].status = page'[r]
  <2>1. CASE page' = page
    BY <1>1, <1>2, <2>1 DEF Settled, PageIsRight
  <2>2. CASE \E q \in Requests : Poll(q)
    <3>1. jobs' = jobs /\ (page'[r] = page[r] \/ page'[r] = jobs[r].status)
      BY <2>2 DEF Poll, JobInv, TypeOK
    <3> QED BY <1>2, <3>1 DEF Settled, PageIsRight
  <2> QED BY <2>1, <2>2, Pollers
<1>3. ASSUME NEW r \in results' PROVE jobs'[r].status = "completed"
  <2>1. CASE r \in results
    BY <1>1, <2>1 DEF Settled, Terminal, JobInv, TypeOK
  <2>2. CASE r \notin results
    <3>1. PICK w \in Workers : SaveCompleted(w) /\ r = worker[w].job
      BY <1>3, <2>2, Writers, Inserted DEF SaveEnqueueFailed, SaveRunning, SaveCompleted, SaveFailed
    <3> QED BY <3>1, Saved
  <2> QED BY <2>1, <2>2
<1> QED BY <1>2, <1>3 DEF Settled, PageIsRight

\* Settled is invariant beside OneWriter.
LEMMA SettledHolds == FaultsAreWhole => (Spec => []Settled)
<1> SUFFICES ASSUME FaultsAreWhole PROVE Spec => []Settled
  OBVIOUS
<1>1. Init => Settled
  BY DEF Init, Settled, PageIsRight, Terminal
<1>2. JobInv /\ TypeOK' /\ OneWriter /\ Settled /\ [Next]_vars => Settled'
  BY SettledStep
<1> QED BY <1>1, <1>2, InvariantHolds, TypeCorrect, RowsHaveOneWriter, PTL DEF Spec

\* When no fault leaves a step half known, a page that has stopped polling shows the status
\* the job has, for ever.
THEOREM PageStaysRight == FaultsAreWhole => (Spec => []PageIsRight)
<1>1. Settled => PageIsRight
  BY DEF Settled
<1> QED BY <1>1, SettledHolds, PTL

\* Nor does a failed job have a result then.
THEOREM NoResultOfAFailure == FaultsAreWhole => (Spec => []FailedHasNoResult)
<1>1. Settled => FailedHasNoResult
  BY DEF Settled, FailedHasNoResult
<1> QED BY <1>1, SettledHolds, PTL
=============================================================================
