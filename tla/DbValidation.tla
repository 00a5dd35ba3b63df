----------------------------- MODULE DbValidation -----------------------------
(***************************************************************************)
(* validate_db_state (pipelines/validate_db_state.py) beside the price      *)
(* flows: it reads the tables in a transaction per check while batches       *)
(* write them, and concludes from all its readings.  The check of            *)
(* reported dates is about the tables of PitStore (NoFutureRow) and is left  *)
(* out here.                                                                *)
(***************************************************************************)
EXTENDS PriceIngestion

CONSTANTS Members,       \* tickers of universe_membership without an end date
          StaleDays      \* _STALE_INGEST_DAYS

ASSUME ValidationAssumption == Members \subseteq Known /\ StaleDays \in Nat

VARIABLE check           \* the flow: next check, findings so far, verdict

allVars == <<vars, check>>

\* _CHECKS_RETURNING_ONE, in their order.
Checks == <<"future_price_dates", "universe_coverage", "recent_ingest", "orphan_tickers">>
Severe == {"future_price_dates", "orphan_tickers"}

Check == [next   : 0..(Len(Checks) + 1),       \* 0: not started
          began  : 0..LastDay,
          errors : SUBSET ToSet(Checks), warnings : SUBSET ToSet(Checks),
          raised : SUBSET ToSet(Checks),       \* history: checks that could not be made
          status : {"running", "success", "partial", "failed"}]

ValTypeOK == TypeOK /\ check \in Check

ValInit == /\ Init
           /\ check = [next |-> 0, began |-> 0, errors |-> {}, warnings |-> {},
                       raised |-> {}, status |-> "running"]

\* Mutant: members are joined with their prices, so that none is missing.
Breached_InnerJoin(name) ==
  CASE name = "future_price_dates" -> \E r \in prices : r.day > Today
    [] name = "universe_coverage"  -> FALSE
    [] name = "recent_ingest"      -> \A r \in prices : Today - r.day > StaleDays
    [] name = "orphan_tickers"     -> \E r \in prices : r.ticker \notin Known

\* The queries of the checks.
Breached(name) ==
  CASE name = "future_price_dates" -> \E r \in prices : r.day > Today
    [] name = "universe_coverage"  -> \E m \in Members : \A r \in prices : r.ticker # m
    [] name = "recent_ingest"      -> \A r \in prices : Today - r.day > StaleDays
    [] name = "orphan_tickers"     -> \E r \in prices : r.ticker \notin Known

Validation == /\ check.next = 0
              /\ check' = [check EXCEPT !.next = 1, !.began = Today]
              /\ UNCHANGED vars

\* One check in its transaction; a check that raises counts as an error.
RunCheck ==
  LET name == Checks[check.next]
  IN  /\ check.next \in DOMAIN Checks
      /\ \/ /\ check' = IF ~Breached(name) THEN [check EXCEPT !.next = @ + 1]
                        ELSE IF name \in Severe
                        THEN [check EXCEPT !.next = @ + 1, !.errors = @ \union {name}]
                        ELSE [check EXCEPT !.next = @ + 1, !.warnings = @ \union {name}]
            /\ UNCHANGED vars
         \/ /\ "db_error" \in Faults /\ faults < MaxFaults
            /\ faults' = faults + 1
            /\ check' = [check EXCEPT !.next = @ + 1, !.errors = @ \union {name},
                                      !.raised = @ \union {name}]
            /\ UNCHANGED <<clock, source, prices, lineage, batch, tasks, written, hit>>

\* The verdict; its lineage row is for the record only.
Conclude == /\ check.next = Len(Checks) + 1 /\ check.status = "running"
            /\ check' = [check EXCEPT !.status = IF check.errors # {} THEN "failed"
                                                 ELSE IF check.warnings # {} THEN "partial"
                                                 ELSE "success"]
            /\ UNCHANGED vars

Over == /\ IngestionOver
        /\ check.status # "running"
        /\ UNCHANGED allVars

ValNext == \/ IngestionNext /\ UNCHANGED check
           \/ Validation \/ RunCheck \/ Conclude
           \/ Over

ValSpec == ValInit /\ [][ValNext]_allVars

---------------------------------------------------------------------------
(* Properties.                                                             *)

\* The price flows give the validation no ground for an error, whatever the providers send
\* and whichever tickers are asked for: the flow fails only when a check could not be made.
NoAlarm == check.errors \subseteq check.raised

\* A clean bill stays true although the checks were made one by one while batches ran:
\* every member has a bar, and the newest bar is no older than allowed when the flow began.
CleanBillHolds ==
  check.status = "success" =>
    /\ \A m \in Members : \E r \in prices : r.ticker = m
    /\ \E r \in prices : check.began - r.day <= StaleDays
=============================================================================
