---------------------------- MODULE ReferenceData ----------------------------
(***************************************************************************)
(* The reference tables tickers and universe_membership: the two scripts   *)
(* that load them from a file (scripts/seed_tickers.py, seed_universe.py), *)
(* the flow that refreshes the names (pipelines/ingest_tickers_free.py),   *)
(* one ticker and one transaction after the other, and the queries of the  *)
(* data source.                                                            *)
(*                                                                         *)
(* Of a ticker only the name matters; is_active is never written, so that  *)
(* every ticker of the table is active.  There is one index.  An end_date  *)
(* of NULL is Open, which is after every date.                             *)
(***************************************************************************)
EXTENDS Integers, SequencesExt

CONSTANTS NumTickers,    \* tickers are numbered in the order of their symbols
          Names,
          NoName,        \* no name, or no row
          Runs,          \* refreshes, which may overlap
          Lists,         \* what may be given as --tickers
          TickerFiles,   \* contents of tickers.csv: [tickers -> Names]
          MemberFiles,   \* contents of hsi_members.csv: sets of Member
          LastDate,      \* bound: the dates that are asked about are 1..LastDate
          Faults,        \* failures that may happen
          MaxFaults,     \* bound: failures in one behaviour
          MaxSeeds       \* bound: universe files that are loaded

Tickers == 1..NumTickers
Dates   == 1..LastDate
Open    == LastDate + 1
Member  == [ticker : Tickers, start : Dates, end : Dates \union {Open}]
Key(m)  == <<m.ticker, m.start>>

FaultKinds == {"lookup_error", "db_error", "commit_unknown", "capture_error", "kill"}

ASSUME ReferenceAssumption ==
  /\ NumTickers \in Nat /\ LastDate \in Nat \ {0} /\ NoName \notin Names
  /\ Lists \subseteq Seq(Tickers)
  /\ TickerFiles \subseteq UNION {[S -> Names] : S \in SUBSET Tickers}
  /\ MemberFiles \subseteq SUBSET Member
  /\ \A file \in MemberFiles : \A m, n \in file : m.start <= m.end /\ (Key(m) = Key(n) => m = n)
  /\ Faults \subseteq FaultKinds /\ MaxFaults \in Nat /\ MaxSeeds \in Nat

VARIABLES tickers,       \* committed rows: [known tickers -> Names]
          members,       \* committed rows of universe_membership
          names,         \* [Tickers -> name]: what yfinance would answer
          run,           \* [Runs -> a call of ingest_tickers_free]
          lineage,       \* committed rows of ingestion_runs of this flow
          seeded,        \* history: universe files that were loaded, in order
          faults, hit    \* history: failures so far, and their kinds by run

vars == <<tickers, members, names, run, lineage, seeded, faults, hit>>

Known == DOMAIN tickers

Run == [state : {"new", "lookup", "load", "save", "returned", "raised", "killed"},
        targets : Seq(Tickers), next : Nat \ {0},   \* target_tickers and the loop's place in it
        found : Names \union {NoName}, loaded : Names \union {NoName},
        updated : Nat, failed : Nat,             \* rows_updated, rows_failed
        commits : Nat,                           \* history: updates that were committed
        renamed : SUBSET Tickers,      \* history: the provider's name changed since the look-up
        overwritten : SUBSET Tickers]  \* history: others wrote another name since the read
Lineage == [run : Runs, status : {"success", "partial"}, updated : Nat, failed : Nat]

NewRun == [state |-> "new", targets |-> <<>>, next |-> 1, found |-> NoName, loaded |-> NoName,
           updated |-> 0, failed |-> 0, commits |-> 0, renamed |-> {}, overwritten |-> {}]

TypeOK == /\ Known \subseteq Tickers /\ tickers \in [Known -> Names]
          /\ members \subseteq Member
          /\ \A m, n \in members : Key(m) = Key(n) => m = n
          /\ \A m \in members : m.ticker \in Known
          /\ names \in [Tickers -> Names \union {NoName}]
          /\ run \in [Runs -> Run]
          /\ lineage \subseteq Lineage
          /\ seeded \in Seq(MemberFiles)
          /\ faults \in 0..MaxFaults
          /\ hit \in [Runs -> SUBSET Faults]

Init == /\ tickers = <<>>
        /\ members = {}
        /\ names \in [Tickers -> Names \union {NoName}]
        /\ run = [r \in Runs |-> NewRun]
        /\ lineage = {}
        /\ seeded = <<>>
        /\ faults = 0
        /\ hit = [r \in Runs |-> {}]

NoFault     == UNCHANGED <<faults, hit>>
Fault(r, f) == /\ f \in Faults
               /\ faults < MaxFaults
               /\ faults' = faults + 1
               /\ hit' = [hit EXCEPT ![r] = @ \union {f}]

\* History: the names that are written to the table, if they are not those of the provider.
Overwritten(rows) ==
  LET wrong == {t \in DOMAIN rows : rows[t] # names[t]}
  IN  [q \in Runs |-> [run[q] EXCEPT !.overwritten = @ \union wrong]]

---------------------------------------------------------------------------
(* The files and the provider.                                             *)

\* yfinance gives another name, or none.
Rename(t) ==
  /\ \E n \in (Names \union {NoName}) \ {names[t]} : names' = [names EXCEPT ![t] = n]
  /\ run' = [r \in Runs |-> [run[r] EXCEPT !.renamed = @ \union {t}]]
  /\ UNCHANGED <<tickers, members, lineage, seeded, faults, hit>>

\* seed_tickers: one statement, ON CONFLICT (ticker) DO UPDATE, also of the name.  (A
\* failure leaves everything as it was.)
SeedTickers(file) ==
  /\ tickers' = [t \in Known \union DOMAIN file |->
                   IF t \in DOMAIN file THEN file[t] ELSE tickers[t]]
  /\ run' = Overwritten(file)
  /\ UNCHANGED <<members, names, lineage, seeded, faults, hit>>

\* Mutant: ON CONFLICT DO NOTHING.
Upserted_FirstWins(rows) ==
  members \union {m \in rows : \A n \in members : Key(n) # Key(m)}

\* ON CONFLICT (index_id, ticker, start_date) DO UPDATE of the end date.
Upserted(rows) == {m \in members : \A n \in rows : Key(n) # Key(m)} \union rows

\* seed_universe: tickers refers to tickers, so that one unknown ticker fails them all.
SeedUniverse(file) ==
  /\ Len(seeded) < MaxSeeds
  /\ \A m \in file : m.ticker \in Known
  /\ members' = Upserted(file)
  /\ seeded' = Append(seeded, file)
  /\ UNCHANGED <<tickers, names, run, lineage, faults, hit>>

---------------------------------------------------------------------------
(* The refresh.                                                            *)

InProgress(r) == run[r].state \in {"lookup", "load", "save"}
HasNext(r)    == run[r].next <= Len(run[r].targets)
Ticker(r)     == run[r].targets[run[r].next]

\* All active tickers, in order: the next is the one with so many before it.
InOrder == [i \in 1..Cardinality(Known) |->
              CHOOSE t \in Known : Cardinality({u \in Known : u < t}) = i - 1]

\* The list that was given, or all.
Targets(list) == IF list = <<>> THEN InOrder ELSE list

Start(r, list) ==
  /\ run[r].state = "new"
  /\ \/ /\ run' = [run EXCEPT ![r] = [NewRun EXCEPT !.state = "lookup",
                                                    !.targets = Targets(list)]]
        /\ NoFault
     \/ /\ list = <<>> /\ Fault(r, "db_error")
        /\ run' = [run EXCEPT ![r].state = "raised"]
  /\ UNCHANGED <<tickers, members, names, lineage, seeded>>

\* _resolve_name: a ticker without a name, or whose look-up raises, is counted and passed
\* over.
LookUp(r) ==
  /\ run[r].state = "lookup" /\ HasNext(r)
  /\ \/ /\ names[Ticker(r)] # NoName /\ NoFault
        /\ run' = [run EXCEPT ![r].state = "load", ![r].found = names[Ticker(r)],
                              ![r].renamed = @ \ {Ticker(r)}]
     \/ /\ IF names[Ticker(r)] = NoName THEN NoFault ELSE Fault(r, "lookup_error")
        /\ run' = [run EXCEPT ![r].failed = @ + 1, ![r].next = @ + 1]
  /\ UNCHANGED <<tickers, members, names, lineage, seeded>>

\* SELECT of the row, whose name others may change before the UPDATE.
Load(r) ==
  /\ run[r].state = "load"
  /\ run' = [run EXCEPT ![r].state = "save",
                        ![r].loaded = IF Ticker(r) \in Known THEN tickers[Ticker(r)] ELSE NoName,
                        ![r].overwritten = @ \ {Ticker(r)}]
  /\ UNCHANGED <<tickers, members, names, lineage, seeded, faults, hit>>

\* Mutant: a name is only filled in where there is none.
Changes_FillsIn(r) == run[r].loaded = NoName /\ Ticker(r) \in Known

Changes(r) == run[r].loaded \notin {NoName, run[r].found}

\* Mutant: every row that was looked at is counted.
Counted_All(r) == run[r].updated + 1

Counted(r) == run[r].updated + (IF Changes(r) THEN 1 ELSE 0)

\* The transaction is committed, and the loop goes on or the client raises all the same.
Commit(r, state) ==
  LET new == [t \in {Ticker(r)} |-> run[r].found]
      one == IF Changes(r) THEN 1 ELSE 0
  IN  /\ tickers' = IF Changes(r) THEN [tickers EXCEPT ![Ticker(r)] = run[r].found] ELSE tickers
      /\ run' = [(IF Changes(r) THEN Overwritten(new) ELSE run) EXCEPT ![r] =
                   [run[r] EXCEPT !.state = state, !.next = @ + 1, !.updated = Counted(r),
                                  !.commits = @ + one,
                                  !.overwritten = IF Changes(r) THEN @ \ {Ticker(r)} ELSE @]]

\* A database error is not caught: the flow ends.
Save(r) ==
  /\ run[r].state = "save"
  /\ \/ Commit(r, "lookup") /\ NoFault
     \/ Commit(r, "raised") /\ Fault(r, "commit_unknown")
     \/ /\ Fault(r, "db_error")
        /\ run' = [run EXCEPT ![r].state = "raised"]
        /\ UNCHANGED tickers
  /\ UNCHANGED <<members, names, lineage, seeded>>

Status(r) == IF run[r].failed = 0 THEN "success" ELSE "partial"

\* After the loop: the lineage row, whose failure is only logged; capture_reproducibility
\* raises before it.
Record(r) ==
  /\ run[r].state = "lookup" /\ ~HasNext(r)
  /\ \/ /\ lineage' = lineage \union {[run |-> r, status |-> Status(r),
                                       updated |-> run[r].updated, failed |-> run[r].failed]}
        /\ run' = [run EXCEPT ![r].state = "returned"]
        /\ NoFault \/ Fault(r, "commit_unknown")
     \/ /\ Fault(r, "db_error")
        /\ run' = [run EXCEPT ![r].state = "returned"]
        /\ UNCHANGED lineage
     \/ /\ Fault(r, "capture_error")
        /\ run' = [run EXCEPT ![r].state = "raised"]
        /\ UNCHANGED lineage
  /\ UNCHANGED <<tickers, members, names, seeded>>

Kill(r) == /\ InProgress(r)
           /\ Fault(r, "kill")
           /\ run' = [run EXCEPT ![r].state = "killed"]
           /\ UNCHANGED <<tickers, members, names, lineage, seeded>>

RefreshStep(r) == LookUp(r) \/ Load(r) \/ Save(r) \/ Record(r)

Next == \/ \E t \in Tickers : Rename(t)
        \/ \E file \in TickerFiles : SeedTickers(file)
        \/ \E file \in MemberFiles : SeedUniverse(file)
        \/ \E r \in Runs : RefreshStep(r) \/ Kill(r) \/ \E list \in Lists : Start(r, list)

Spec == Init /\ [][Next]_vars

---------------------------------------------------------------------------
(* The queries.  Rows stand for the entries of the lists they return.      *)

GetUniverse(d) == {m \in members : m.start <= d /\ d <= m.end}

GetUniverseHistory(first, last) == {m \in members : m.start <= last /\ first <= m.end}

ListAvailableTickers == {m.ticker : m \in members}

TickersOf(rows) == {m.ticker : m \in rows}

---------------------------------------------------------------------------
(* Properties.                                                             *)

\* What a refresh reports is what it did: its summary and its lineage row count the names it
\* changed, and a change that no lineage row tells of was made by a refresh that is still
\* running, that ended with an error or was killed, or whose row could not be written.
RefreshIsTold ==
  \A r \in Runs :
    LET told == {entry \in lineage : entry.run = r}
    IN  /\ run[r].state = "returned" => run[r].updated = run[r].commits
        /\ \A entry \in told : entry.updated = run[r].commits
        /\ run[r].commits > 0 /\ told = {} =>
             \/ InProgress(r) \/ run[r].state \in {"raised", "killed"}
             \/ "db_error" \in hit[r]

\* A refresh that says success has brought every name up to date, whoever else writes names
\* while it runs (the file, another refresh): no target was skipped, and no name that was
\* there when the row was read is left.  Only a name that changed at the provider after its
\* look-up, or was overwritten after its row was read, may be out of date.
RefreshCatchesUp ==
  \A r \in Runs : run[r].state = "returned" /\ Status(r) = "success" =>
    \A t \in (ToSet(run[r].targets) \intersect Known) \ (run[r].renamed \union run[r].overwritten) :
      tickers[t] = names[t]

\* No file drops or moves the start of a membership that was loaded before.  (A corrected
\* start date would leave the old row beside the new one.)
Regular == \A i, j \in DOMAIN seeded : i < j =>
             {Key(m) : m \in seeded[i]} \subseteq {Key(m) : m \in seeded[j]}

\* Loading a file again, or a later edition of it, leaves exactly its memberships: members
\* whose end was added are gone from the universe of later dates.  And the members of a
\* range of dates are those of its dates.
UniverseIsAsSeeded ==
  /\ seeded # <<>> /\ Regular => \A d \in Dates :
       GetUniverse(d) = {m \in Last(seeded) : m.start <= d /\ d <= m.end}
  /\ \A first, last \in Dates : first <= last =>
       TickersOf(GetUniverseHistory(first, last)) =
         UNION {TickersOf(GetUniverse(d)) : d \in first..last}
  /\ ListAvailableTickers = TickersOf(GetUniverseHistory(1, LastDate))
=============================================================================
