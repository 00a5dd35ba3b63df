----------------------------- MODULE JobPromise -----------------------------
(***************************************************************************)
(* What the backtest API promises about a job, without its database, queue *)
(* or worker: a job is queued, may start running, and ends once, either    *)
(* completed with its result or failed without one.  The frontend relies   *)
(* on exactly this when it stops polling at 'completed' or 'failed' and    *)
(* fetches the result only of a completed job (frontend/src/api).          *)
(***************************************************************************)
CONSTANT Requests         \* the jobs, one for each POST /backtests

VARIABLES status,         \* [Requests -> Statuses]: what GET /backtests/{id} says
          hasResult       \* the jobs whose GET .../result answers 200

vars == <<status, hasResult>>

Statuses == {"none", "queued", "running", "completed", "failed"}
Terminal == {"completed", "failed"}

Init == /\ status = [r \in Requests |-> "none"]
        /\ hasResult = {}

Become(r, from, to) == /\ status[r] \in from
                       /\ status' = [status EXCEPT ![r] = to]

Create(r) == Become(r, {"none"}, "queued") /\ UNCHANGED hasResult

Start(r) == Become(r, {"queued"}, "running") /\ UNCHANGED hasResult

Complete(r) == /\ Become(r, {"running"}, "completed")
               /\ hasResult' = hasResult \union {r}

\* A job fails while it runs, or before it ran when it cannot be started.
Fail(r) == Become(r, {"queued", "running"}, "failed") /\ UNCHANGED hasResult

Next == \E r \in Requests : Create(r) \/ Start(r) \/ Complete(r) \/ Fail(r)

Spec == Init /\ [][Next]_vars
=============================================================================
