-------------------------- MODULE ReferenceDataProofs --------------------------
(***************************************************************************)
(* The properties of ReferenceData, for any number of tickers, refreshes,   *)
(* editions of the files and failures.                                     *)
(*                                                                         *)
(* Each property speaks of refreshes that have ended; what holds of one     *)
(* that is on its way is IsCounted, IsTold and IsUpToDate.                  *)
(***************************************************************************)
EXTENDS ReferenceData, SumTheorems, SequenceTheorems

\* Where a refresh is in its loop, and what it has counted so far.
IsCounted(r) ==
  /\ run[r].state \in {"load", "save"} => HasNext(r) /\ run[r].found \in Names
  /\ run[r].updated = run[r].commits
  /\ run[r].state = "new" => run[r].commits = 0
  /\ run[r].state = "returned" => ~HasNext(r)

\* Only the lineage row of a refresh that has returned is there, unless it could not be
\* written.
IsTold(r) ==
  /\ \A entry \in lineage :
       entry.run = r => run[r].state = "returned" /\ entry.updated = run[r].commits
  /\ run[r].state = "returned" =>
       (\E entry \in lineage : entry.run = r) \/ "db_error" \in hit[r]

IsCurrent(t) == t \in Known => tickers[t] = names[t]

\* Whom nobody else has renamed or overwritten.
IsLeft(r, t) == t \notin run[r].renamed /\ t \notin run[r].overwritten
\* The ticker that is being brought up to date.
IsBusy(r, t) == run[r].state \in {"load", "save"} /\ t = Ticker(r)

\* What a refresh has brought up to date, and what it knows of the next ticker.
IsUpToDate(r) ==
  run[r].state \in {"lookup", "load", "save", "returned"} =>
    /\ run[r].failed = 0 =>
         \A i \in 1..(run[r].next - 1) :
           LET t == run[r].targets[i]
           IN  IsLeft(r, t) /\ ~IsBusy(r, t) => IsCurrent(t)
    /\ run[r].state \in {"load", "save"} /\ Ticker(r) \notin run[r].renamed =>
         run[r].found = names[Ticker(r)]
    /\ run[r].state = "save" /\ IsLeft(r, Ticker(r)) /\ Ticker(r) \in Known =>
         tickers[Ticker(r)] \in {run[r].loaded, run[r].found}

MembersInv ==
  /\ seeded = <<>> => members = {}
  /\ seeded # <<>> /\ Regular => members = Last(seeded)
  /\ \A m \in members : m.start <= m.end

IsSound(r) == IsCounted(r) /\ IsTold(r) /\ IsUpToDate(r)
RunsInv == \A r \in Runs : IsSound(r)

RefInv == TypeOK /\ RunsInv /\ MembersInv

---------------------------------------------------------------------------
(* Types.                                                                  *)

\* All tickers in order are a list of tickers: for each place there is one.
LEMMA InOrderIs ==
  ASSUME TypeOK, ReferenceAssumption
  PROVE  InOrder \in Seq(Tickers)
<1>1. Known \subseteq Int /\ IsFiniteSet(Known) /\ Known \subseteq Tickers
  <2>1. IsFiniteSet(Tickers) /\ Tickers \subseteq Int
    BY FS_Interval, 1 \in Int, NumTickers \in Int DEF Tickers, ReferenceAssumption
  <2>2. Known \subseteq Tickers
    BY DEF TypeOK
  <2>3. QED
    BY <2>1, <2>2, FS_Subset
<1> DEFINE n == Cardinality(Known)
<1>2. n \in Nat /\ \A k \in 0..(n - 1) : \E t \in Known : Below(t, Known) = k
  <2> HIDE DEF Known
  <2> QED BY <1>1, PlacesOfNumbers
<1> DEFINE at(i) == CHOOSE t \in Known : Cardinality({u \in Known : u < t}) = i - 1
<1>3. ASSUME NEW i \in 1..n
      PROVE  at(i) \in Tickers
  <2>1. i - 1 \in 0..(n - 1)
    BY <1>2
  <2>2. \E t \in Known : Cardinality({u \in Known : u < t}) = i - 1
    BY <1>2, <2>1 DEF Below
  <2>3. at(i) \in Known
    BY <2>2, Zenon
  <2>4. QED
    BY <1>1, <2>3
<1>4. InOrder = [i \in 1..n |-> at(i)]
  BY Zenon DEF InOrder
<1>5. QED
  <2> HIDE DEF n, at
  <2> QED BY <1>2, <1>3, <1>4

\* The parts of the type.
LEMMA RunIs ==
  ASSUME TypeOK
  PROVE  run \in [Runs -> Run] /\ \A r \in Runs : run[r] \in Run
BY DEF TypeOK

\* What the steps make of a refresh is a refresh again.
LEMMA RunUpdates ==
  ASSUME NEW R \in Run,
         NEW s \in {"new", "lookup", "load", "save", "returned", "raised", "killed"},
         NEW n \in Names \union {NoName}, NEW j \in Nat, NEW k \in Nat,
         NEW S \in SUBSET Tickers
  PROVE  /\ [R EXCEPT !.state = s] \in Run
         /\ [R EXCEPT !.state = s, !.found = n, !.renamed = S] \in Run
         /\ [R EXCEPT !.state = s, !.loaded = n, !.overwritten = S] \in Run
         /\ [R EXCEPT !.failed = @ + 1, !.next = @ + 1] \in Run
         /\ [R EXCEPT !.renamed = S] \in Run /\ [R EXCEPT !.overwritten = S] \in Run
         /\ [R EXCEPT !.state = s, !.next = @ + 1, !.updated = j, !.commits = k,
                      !.overwritten = S] \in Run
<1>1. R.next + 1 \in Nat \ {0} /\ R.failed + 1 \in Nat
  BY DEF Run
<1>2. [R EXCEPT !.state = s] \in Run
  BY DEF Run
<1>3. [R EXCEPT !.state = s, !.found = n, !.renamed = S] \in Run
  BY DEF Run
<1>4. [R EXCEPT !.state = s, !.loaded = n, !.overwritten = S] \in Run
  BY DEF Run
<1>5. [R EXCEPT !.failed = @ + 1, !.next = @ + 1] \in Run
  BY <1>1 DEF Run
<1>6. [R EXCEPT !.renamed = S] \in Run /\ [R EXCEPT !.overwritten = S] \in Run
  BY DEF Run
<1>7. [R EXCEPT !.state = s, !.next = @ + 1, !.updated = j, !.commits = k, !.overwritten = S]
        \in Run
  BY <1>1 DEF Run
<1>8. QED
  BY <1>2, <1>3, <1>4, <1>5, <1>6, <1>7

\* The targets of a refresh are a list of tickers.
LEMMA TargetsAre ==
  ASSUME TypeOK, ReferenceAssumption, NEW list \in Lists
  PROVE  Targets(list) \in Seq(Tickers)
BY InOrderIs DEF Targets, ReferenceAssumption

\* The next ticker of a refresh that is in its loop.
LEMMA TickerIs ==
  ASSUME TypeOK, NEW r \in Runs, HasNext(r)
  PROVE  Ticker(r) \in Tickers /\ Ticker(r) = run[r].targets[run[r].next]
BY DEF TypeOK, Run, HasNext, Ticker

\* A ticker file gives tickers names.
LEMMA FileIs ==
  ASSUME ReferenceAssumption, NEW file \in TickerFiles
  PROVE  DOMAIN file \subseteq Tickers /\ file \in [DOMAIN file -> Names]
BY DEF ReferenceAssumption

\* Before the first run every variable has its type.
LEMMA InitTypes ==
  ASSUME ReferenceAssumption, Init
  PROVE  TypeOK
<1>1. Known = {} /\ tickers \in [Known -> Names]
  BY DEF Init, Known
<1>2. \A r \in Runs : run[r] \in Run
  BY EmptySeq DEF Init, NewRun, Run
<1>3. run \in [Runs -> Run]
  BY <1>2 DEF Init
<1>4. seeded \in Seq(MemberFiles) /\ hit \in [Runs -> SUBSET Faults] /\ faults \in 0..MaxFaults
  BY DEF Init, ReferenceAssumption
<1>5. QED
  BY <1>1, <1>3, <1>4 DEF Init, TypeOK

\* The history of failures keeps its type.
LEMMA FaultTypes ==
  ASSUME ReferenceAssumption, TypeOK, NEW r \in Runs,
         NoFault \/ \E f \in FaultKinds : Fault(r, f)
  PROVE  faults' \in 0..MaxFaults /\ hit' \in [Runs -> SUBSET Faults]
<1>1. faults \in 0..MaxFaults /\ MaxFaults \in Nat /\ hit \in [Runs -> SUBSET Faults]
  BY DEF ReferenceAssumption, TypeOK
<1>2. CASE NoFault
  BY <1>1, <1>2 DEF NoFault
<1>3. ASSUME NEW f, Fault(r, f) PROVE faults' \in 0..MaxFaults /\ hit' \in [Runs -> SUBSET Faults]
  <2>1. faults' = faults + 1 /\ faults < MaxFaults /\ f \in Faults
    BY <1>3 DEF Fault
  <2>2. hit[r] \union {f} \in SUBSET Faults /\ hit' = [hit EXCEPT ![r] = @ \union {f}]
    BY <1>1, <1>3 DEF Fault
  <2>3. QED
    BY <1>1, <2>1, <2>2
<1>4. QED
  BY <1>2, <1>3

\* The steps that only move a refresh on.
LEMMA RunTypes ==
  ASSUME ReferenceAssumption, TypeOK, NEW r \in Runs,
         run' \in [Runs -> Run], faults' \in 0..MaxFaults, hit' \in [Runs -> SUBSET Faults],
         UNCHANGED <<tickers, members, names, lineage, seeded>>
  PROVE  TypeOK'
BY DEF TypeOK, Known

\* A refresh that starts has a list of tickers to go through.
LEMMA StartTypes ==
  ASSUME ReferenceAssumption, TypeOK, NEW r \in Runs, NEW list \in Lists, Start(r, list)
  PROVE  TypeOK'
<1>1. Targets(list) \in Seq(Tickers)
  BY TargetsAre
<1>2. [NewRun EXCEPT !.state = "lookup", !.targets = Targets(list)] \in Run
  <2>1. NewRun \in Run
    BY EmptySeq DEF NewRun, Run
  <2>2. ASSUME NEW R \in Run, NEW s \in Seq(Tickers)
        PROVE  [R EXCEPT !.state = "lookup", !.targets = s] \in Run
    BY DEF Run
  <2>3. QED
    BY <1>1, <2>1, <2>2
<1>3. [run[r] EXCEPT !.state = "raised"] \in Run
  BY RunIs, RunUpdates
<1>4. run' \in [Runs -> Run]
  BY <1>2, <1>3, RunIs DEF Start
<1>5. faults' \in 0..MaxFaults /\ hit' \in [Runs -> SUBSET Faults]
  BY FaultTypes DEF Start, FaultKinds
<1>6. QED
  BY <1>4, <1>5, RunTypes DEF Start

\* A look-up keeps a name, or counts the ticker as one without.
LEMMA LookUpTypes ==
  ASSUME ReferenceAssumption, TypeOK, NEW r \in Runs, LookUp(r)
  PROVE  TypeOK'
<1>1. Ticker(r) \in Tickers
  BY TickerIs DEF LookUp
<1>2. names[Ticker(r)] \in Names \union {NoName}
  BY <1>1 DEF TypeOK
<1> DEFINE found == [run[r] EXCEPT !.state = "load", !.found = names[Ticker(r)],
                                   !.renamed = @ \ {Ticker(r)}]
           none  == [run[r] EXCEPT !.failed = @ + 1, !.next = @ + 1]
<1>3. found \in Run /\ none \in Run
  <2>1. run[r].renamed \ {Ticker(r)} \in SUBSET Tickers /\ run[r] \in Run
    BY RunIs DEF Run
  <2>2. ASSUME NEW S \in SUBSET Tickers, NEW n \in Names \union {NoName}
        PROVE  [run[r] EXCEPT !.state = "load", !.found = n, !.renamed = S] \in Run
    BY <2>1, RunUpdates
  <2>3. found \in Run
    BY <1>2, <2>1, <2>2, Zenon
  <2>4. none \in Run
    <3>1. run[r].next + 1 \in Nat \ {0} /\ run[r].failed + 1 \in Nat
      BY <2>1 DEF Run
    <3>2. QED
      BY <2>1, <3>1 DEF Run
  <2>5. QED
    BY <2>3, <2>4
<1>4. run' \in [Runs -> Run]
  <2>1. run' = [run EXCEPT ![r] = found] \/ run' = [run EXCEPT ![r] = none]
    BY RunIs, Zenon DEF LookUp
  <2>2. QED
    <3> HIDE DEF found, none
    <3> QED BY <1>3, <2>1, RunIs
<1>5. faults' \in 0..MaxFaults /\ hit' \in [Runs -> SUBSET Faults]
  BY FaultTypes DEF LookUp, FaultKinds
<1>6. QED
  BY <1>4, <1>5, RunTypes DEF LookUp

\* What is read of the table is a name or nothing.
LEMMA LoadTypes ==
  ASSUME ReferenceAssumption, TypeOK, NEW r \in Runs, Load(r)
  PROVE  TypeOK'
<1>1. (IF Ticker(r) \in Known THEN tickers[Ticker(r)] ELSE NoName) \in Names \union {NoName}
  BY DEF TypeOK
<1>2. \A x \in Names \union {NoName} :
        [run[r] EXCEPT !.state = "save", !.loaded = x, !.overwritten = @ \ {Ticker(r)}] \in Run
  <2>1. run[r].overwritten \ {Ticker(r)} \in SUBSET Tickers /\ run[r] \in Run
    BY RunIs DEF Run
  <2>2. QED
    BY <2>1, RunUpdates
<1>3. run' \in [Runs -> Run]
  BY <1>1, <1>2, RunIs DEF Load
<1>4. QED
  BY <1>3, RunTypes DEF Load, TypeOK

\* The other refreshes note the names that are not the provider's.
LEMMA OverwrittenIs ==
  ASSUME TypeOK, NEW rows, DOMAIN rows \subseteq Tickers
  PROVE  Overwritten(rows) \in [Runs -> Run]
<1> DEFINE wrong == {t \in DOMAIN rows : rows[t] # names[t]}
<1>1. ASSUME NEW q \in Runs
      PROVE  [run[q] EXCEPT !.overwritten = @ \union wrong] \in Run
  <2>1. run[q].overwritten \union wrong \in SUBSET Tickers /\ run[q] \in Run
    BY RunIs DEF Run
  <2>2. QED
    <3> HIDE DEF wrong
    <3> QED BY <2>1, RunUpdates
<1>2. Overwritten(rows) = [q \in Runs |-> [run[q] EXCEPT !.overwritten = @ \union wrong]]
  BY DEF Overwritten
<1>3. QED
  <2> HIDE DEF wrong
  <2> QED BY <1>1, <1>2

\* The commit: only a name that was read as another, of a ticker of the table, changes.
LEMMA CommitTypes ==
  ASSUME ReferenceAssumption, TypeOK, NEW r \in Runs, IsCounted(r),
         run[r].state = "save", NEW s \in {"lookup", "raised"}, Commit(r, s)
  PROVE  /\ run' \in [Runs -> Run]
         /\ DOMAIN tickers' = DOMAIN tickers /\ tickers' \in [DOMAIN tickers -> Names]
<1>1. run[r].found \in Names
  BY DEF IsCounted
<1>2. DOMAIN tickers' = DOMAIN tickers /\ tickers' \in [DOMAIN tickers -> Names]
  BY <1>1 DEF Commit, TypeOK, Known
<1>3. Counted(r) \in Nat /\ \A i \in {0, 1} : run[r].commits + i \in Nat
  BY RunIs DEF Counted, Run
<1> DEFINE new == [t \in {Ticker(r)} |-> run[r].found]
<1>4. Overwritten(new) \in [Runs -> Run]
  <2>1. DOMAIN new \subseteq Tickers
    BY TickerIs DEF IsCounted
  <2>2. QED
    <3> HIDE DEF new
    <3> QED BY <2>1, OverwrittenIs
<1>5. ASSUME NEW k \in Nat, NEW S \in SUBSET Tickers
      PROVE  [run[r] EXCEPT !.state = s, !.next = @ + 1, !.updated = Counted(r), !.commits = k,
                            !.overwritten = S] \in Run
  BY <1>3, RunIs, RunUpdates
<1>6. PICK k, S :
        /\ k \in Nat /\ S \in SUBSET Tickers
        /\ run' = [(IF Changes(r) THEN Overwritten(new) ELSE run) EXCEPT ![r] =
                     [run[r] EXCEPT !.state = s, !.next = @ + 1, !.updated = Counted(r),
                                    !.commits = k, !.overwritten = S]]
  <2>1. run[r].commits + (IF Changes(r) THEN 1 ELSE 0) \in Nat
    BY RunIs DEF Run
  <2>2. (IF Changes(r) THEN run[r].overwritten \ {Ticker(r)} ELSE run[r].overwritten)
          \in SUBSET Tickers
    BY RunIs DEF Run
  <2>3. QED
    BY <2>1, <2>2, Zenon DEF Commit
<1>7. run' \in [Runs -> Run]
  <2>1. (IF Changes(r) THEN Overwritten(new) ELSE run) \in [Runs -> Run]
    <3> HIDE DEF new
    <3> QED BY <1>4, RunIs
  <2>2. QED
    <3> HIDE DEF new
    <3> QED BY <1>5, <1>6, <2>1
<1>8. QED
  BY <1>2, <1>7

\* What is committed is a name of a known ticker, whichever rows a merge disturbs.
LEMMA SaveTypes ==
  ASSUME ReferenceAssumption, TypeOK, NEW r \in Runs, IsCounted(r), Save(r)
  PROVE  TypeOK'
<1>1. faults' \in 0..MaxFaults /\ hit' \in [Runs -> SUBSET Faults]
  BY FaultTypes DEF Save, FaultKinds
<1>2. UNCHANGED <<members, names, lineage, seeded>> /\ run[r].state = "save"
  BY DEF Save
<1>3. CASE Commit(r, "lookup") \/ Commit(r, "raised")
  <2>1. /\ run' \in [Runs -> Run]
        /\ DOMAIN tickers' = DOMAIN tickers /\ tickers' \in [DOMAIN tickers -> Names]
    BY <1>2, <1>3, CommitTypes
  <2>2. QED
    BY <1>1, <1>2, <2>1 DEF TypeOK, Known
<1>4. CASE UNCHANGED tickers /\ run' = [run EXCEPT ![r].state = "raised"]
  <2>1. run' \in [Runs -> Run]
    BY <1>4, RunIs, RunUpdates
  <2>2. QED
    BY <1>1, <1>2, <1>4, <2>1, RunTypes
<1>5. QED
  BY <1>3, <1>4 DEF Save

\* The row about a run has its type.
LEMMA RecordTypes ==
  ASSUME ReferenceAssumption, TypeOK, NEW r \in Runs, Record(r)
  PROVE  TypeOK'
<1>1. [run[r] EXCEPT !.state = "returned"] \in Run /\ [run[r] EXCEPT !.state = "raised"] \in Run
  BY RunIs, RunUpdates
<1>2. run' \in [Runs -> Run]
  BY <1>1, RunIs DEF Record
<1>3. faults' \in 0..MaxFaults /\ hit' \in [Runs -> SUBSET Faults]
  BY FaultTypes DEF Record, FaultKinds
<1>4. lineage' \subseteq Lineage
  <2>1. [run |-> r, status |-> Status(r), updated |-> run[r].updated, failed |-> run[r].failed]
          \in Lineage
    <3>1. run[r].updated \in Nat /\ run[r].failed \in Nat
      BY RunIs DEF Run
    <3>2. QED
      BY <3>1 DEF Status, Lineage
  <2>2. lineage \subseteq Lineage
    BY DEF TypeOK
  <2>3. QED
    BY <2>1, <2>2 DEF Record
<1>5. UNCHANGED <<tickers, members, names, seeded>>
  BY DEF Record
<1>6. QED
  BY <1>2, <1>3, <1>4, <1>5 DEF TypeOK, Known

\* So has a run that is killed.
LEMMA KillTypes ==
  ASSUME ReferenceAssumption, TypeOK, NEW r \in Runs, Kill(r)
  PROVE  TypeOK'
<1>1. run' \in [Runs -> Run]
  BY RunIs, RunUpdates DEF Kill
<1>2. faults' \in 0..MaxFaults /\ hit' \in [Runs -> SUBSET Faults]
  BY FaultTypes DEF Kill, FaultKinds
<1>3. QED
  BY <1>1, <1>2, RunTypes DEF Kill

\* The source may call a ticker anything.
LEMMA RenameTypes ==
  ASSUME ReferenceAssumption, TypeOK, NEW t \in Tickers, Rename(t)
  PROVE  TypeOK'
<1>1. run' \in [Runs -> Run]
  <2>1. ASSUME NEW q \in Runs PROVE [run[q] EXCEPT !.renamed = @ \union {t}] \in Run
    <3>1. run[q].renamed \union {t} \in SUBSET Tickers /\ run[q] \in Run
      BY RunIs DEF Run
    <3>2. QED
      BY <3>1, RunUpdates
  <2>2. QED
    BY <2>1 DEF Rename
<1>2. names' \in [Tickers -> Names \union {NoName}]
  BY DEF Rename, TypeOK
<1>3. UNCHANGED <<tickers, members, lineage, seeded, faults, hit>>
  BY DEF Rename
<1>4. QED
  BY <1>1, <1>2, <1>3 DEF TypeOK, Known

\* Seeding adds tickers with the names of the file.
LEMMA SeedTickersTypes ==
  ASSUME ReferenceAssumption, TypeOK, NEW file \in TickerFiles, SeedTickers(file)
  PROVE  TypeOK'
<1>1. run' \in [Runs -> Run]
  BY FileIs, OverwrittenIs DEF SeedTickers
<1>2. /\ DOMAIN tickers' = Known \union DOMAIN file
      /\ tickers' \in [Known \union DOMAIN file -> Names]
  BY FileIs DEF SeedTickers, TypeOK
<1>3. UNCHANGED <<members, names, lineage, seeded, faults, hit>>
  BY DEF SeedTickers
<1>4. Known \union DOMAIN file \subseteq Tickers /\ \A m \in members : m.ticker \in Known
  BY FileIs DEF TypeOK
<1>5. QED
  BY <1>1, <1>2, <1>3, <1>4 DEF TypeOK, Known

\* Seeding adds memberships with the dates of the file.
LEMMA SeedUniverseTypes ==
  ASSUME ReferenceAssumption, TypeOK, NEW file \in MemberFiles, SeedUniverse(file)
  PROVE  TypeOK'
<1>1. file \subseteq Member /\ \A m, n \in file : Key(m) = Key(n) => m = n
  BY DEF ReferenceAssumption
<1>2. members' \subseteq Member /\ \A m \in members' : m.ticker \in Known
  BY <1>1 DEF SeedUniverse, Upserted, TypeOK
<1>3. \A m, n \in members' : Key(m) = Key(n) => m = n
  <2>1. \A m, n \in members : Key(m) = Key(n) => m = n
    BY DEF TypeOK
  <2>2. QED
    BY <1>1, <2>1 DEF SeedUniverse, Upserted
<1>4. seeded' \in Seq(MemberFiles)
  BY DEF SeedUniverse, TypeOK
<1>5. UNCHANGED <<tickers, names, run, lineage, faults, hit>>
  BY DEF SeedUniverse
<1>6. QED
  BY <1>2, <1>3, <1>4, <1>5 DEF TypeOK, Known, Key

\* Every step keeps the types; the commit does so because a name was found.
LEMMA NextTypes ==
  ASSUME ReferenceAssumption, TypeOK, \A r \in Runs : IsCounted(r), [Next]_vars
  PROVE  TypeOK'
<1>1. CASE UNCHANGED vars
  BY <1>1 DEF vars, TypeOK, Known
<1>2. ASSUME NEW t \in Tickers, Rename(t) PROVE TypeOK'
  BY <1>2, RenameTypes
<1>3. ASSUME NEW file \in TickerFiles, SeedTickers(file) PROVE TypeOK'
  BY <1>3, SeedTickersTypes
<1>4. ASSUME NEW file \in MemberFiles, SeedUniverse(file) PROVE TypeOK'
  BY <1>4, SeedUniverseTypes
<1>5. ASSUME NEW r \in Runs, RefreshStep(r) PROVE TypeOK'
  BY <1>5, LookUpTypes, LoadTypes, SaveTypes, RecordTypes DEF RefreshStep
<1>6. ASSUME NEW r \in Runs, Kill(r) PROVE TypeOK'
  BY <1>6, KillTypes
<1>7. ASSUME NEW r \in Runs, NEW list \in Lists, Start(r, list) PROVE TypeOK'
  BY <1>7, StartTypes
<1>8. QED
  BY <1>1, <1>2, <1>3, <1>4, <1>5, <1>6, <1>7 DEF Next

---------------------------------------------------------------------------
(* The memberships.                                                        *)

\* A file whose keys cover the table's leaves exactly its own rows.
LEMMA CoveringFile ==
  ASSUME NEW file, {Key(m) : m \in members} \subseteq {Key(m) : m \in file}
  PROVE  Upserted(file) = file
BY DEF Upserted

\* Loading another edition keeps the table equal to the last one, as long as editions only
\* add memberships or end them.
LEMMA SeedMembers ==
  ASSUME ReferenceAssumption, TypeOK, MembersInv,
         NEW file \in MemberFiles, SeedUniverse(file)
  PROVE  MembersInv'
<1> DEFINE n == Len(seeded)
<1>1. /\ seeded \in Seq(MemberFiles) /\ n \in Nat /\ DOMAIN seeded = 1..n
      /\ seeded' = Append(seeded, file) /\ members' = Upserted(file)
  BY DEF SeedUniverse, TypeOK
<1>2. /\ seeded' \in Seq(MemberFiles) /\ Len(seeded') = n + 1 /\ seeded'[n + 1] = file
      /\ \A i \in 1..n : seeded'[i] = seeded[i]
      /\ DOMAIN seeded' = 1..(n + 1)
  BY <1>1
<1>3. \A m \in members' : m.start <= m.end
  BY <1>1 DEF Upserted, MembersInv, ReferenceAssumption
<1>4. seeded' # <<>>
  BY <1>2
<1>5. ASSUME Regular' PROVE members' = file
  <2>1. CASE n = 0
    <3>1. members = {}
      BY <1>1, <2>1, EmptySeq DEF MembersInv
    <3>2. QED
      BY <1>1, <3>1, CoveringFile
  <2>2. CASE n # 0
    <3>1. Regular
      <4>1. ASSUME NEW i \in 1..n, NEW j \in 1..n, i < j
            PROVE  {Key(m) : m \in seeded[i]} \subseteq {Key(m) : m \in seeded[j]}
        <5>1. i \in 1..(n + 1) /\ j \in 1..(n + 1)
          BY <1>1
        <5>2. {Key(m) : m \in seeded'[i]} \subseteq {Key(m) : m \in seeded'[j]}
          BY <1>2, <1>5, <4>1, <5>1 DEF Regular, Key
        <5>3. QED
          BY <1>2, <5>2
      <4>2. QED
        BY <1>1, <4>1 DEF Regular
    <3>2. members = seeded[n]
      BY <1>1, <2>2, <3>1 DEF MembersInv, Last
    <3>3. {Key(m) : m \in seeded'[n]} \subseteq {Key(m) : m \in seeded'[n + 1]}
      <4>1. n \in 1..(n + 1) /\ n + 1 \in 1..(n + 1) /\ n < n + 1
        BY <1>1, <2>2
      <4>2. \A i, j \in 1..(n + 1) : i < j =>
              {Key(m) : m \in seeded'[i]} \subseteq {Key(m) : m \in seeded'[j]}
        BY <1>2, <1>5 DEF Regular
      <4>3. QED
        <5> HIDE DEF n
        <5> QED BY <4>1, <4>2
    <3>4. seeded'[n] = seeded[n]
      <4>1. n \in 1..n
        BY <1>1, <2>2
      <4>2. QED
        BY <1>2, <4>1, Zenon
    <3>5. {Key(m) : m \in members} \subseteq {Key(m) : m \in file}
      BY <1>2, <3>2, <3>3, <3>4
    <3>6. QED
      BY <1>1, <3>5, CoveringFile
  <2>3. QED
    BY <2>1, <2>2
<1>6. Last(seeded') = file
  BY <1>2 DEF Last
<1>7. QED
  BY <1>3, <1>4, <1>5, <1>6 DEF MembersInv

\* Every step keeps the memberships as the seeding files have them.
LEMMA NextMembers ==
  ASSUME ReferenceAssumption, TypeOK, MembersInv, [Next]_vars
  PROVE  MembersInv'
<1>1. CASE UNCHANGED <<members, seeded>>
  BY <1>1 DEF MembersInv, Regular, Key
<1>2. ASSUME NEW file \in MemberFiles, SeedUniverse(file) PROVE MembersInv'
  BY <1>2, SeedMembers
<1>3. QED
  BY <1>1, <1>2 DEF Next, vars, Rename, SeedTickers, RefreshStep, LookUp, Load, Save, Record,
                    Kill, Start

\* The queries: of a range of dates, those who are members on one of them.
LEMMA QueriesAre ==
  ASSUME ReferenceAssumption, TypeOK, MembersInv
  PROVE  UniverseIsAsSeeded
<1>1. ASSUME NEW m \in members
      PROVE  m.start \in 1..LastDate /\ m.end \in 1..(LastDate + 1) /\ m.start <= m.end
  BY DEF TypeOK, MembersInv, Member, Dates, Open, ReferenceAssumption
<1>2. seeded # <<>> /\ Regular => \A d \in Dates :
        GetUniverse(d) = {m \in Last(seeded) : m.start <= d /\ d <= m.end}
  BY DEF MembersInv, GetUniverse
<1>3. LastDate \in Nat \ {0} /\ Dates = 1..LastDate
  BY DEF ReferenceAssumption, Dates
<1>4. ASSUME NEW first \in Dates, NEW last \in Dates, first <= last
      PROVE  TickersOf(GetUniverseHistory(first, last)) =
               UNION {TickersOf(GetUniverse(d)) : d \in first..last}
  <2>1. ASSUME NEW m \in members, m.start <= last, first <= m.end
        PROVE  \E d \in first..last : m.start <= d /\ d <= m.end
    <3>1. CASE m.start <= first
      BY <1>1, <1>3, <1>4, <2>1, <3>1
    <3>2. CASE ~(m.start <= first)
      BY <1>1, <1>3, <1>4, <2>1, <3>2
    <3>3. QED
      BY <3>1, <3>2
  <2>2. ASSUME NEW m \in members, NEW d \in first..last, m.start <= d, d <= m.end
        PROVE  m.start <= last /\ first <= m.end
    BY <1>1, <1>3, <2>2
  <2>3. ASSUME NEW t
        PROVE  t \in TickersOf(GetUniverseHistory(first, last)) <=>
                 \E d \in first..last : t \in TickersOf(GetUniverse(d))
    BY <2>1, <2>2 DEF TickersOf, GetUniverseHistory, GetUniverse
  <2>4. QED
    BY <2>3
<1>5. ListAvailableTickers = TickersOf(GetUniverseHistory(1, LastDate))
  <2>1. \A m \in members : m.start <= LastDate /\ 1 <= m.end
    BY <1>1, <1>3
  <2>2. QED
    BY <2>1 DEF ListAvailableTickers, TickersOf, GetUniverseHistory
<1>6. QED
  BY <1>2, <1>4, <1>5 DEF UniverseIsAsSeeded

---------------------------------------------------------------------------
(* The refreshes.                                                          *)

\* A refresh stays as it is, and notes what was renamed and what was overwritten.
Notes(q, gone, wrong) ==
  /\ run'[q].state = run[q].state /\ run'[q].targets = run[q].targets
  /\ run'[q].next = run[q].next /\ run'[q].found = run[q].found
  /\ run'[q].loaded = run[q].loaded /\ run'[q].updated = run[q].updated
  /\ run'[q].failed = run[q].failed /\ run'[q].commits = run[q].commits
  /\ run'[q].renamed = run[q].renamed \union gone
  /\ run'[q].overwritten = run[q].overwritten \union wrong

\* A step of somebody else: it renames whom the refresh notes as renamed, and gives nobody
\* but those that it notes as overwritten a name that is not the provider's.
LEMMA OthersStep ==
  ASSUME TypeOK, TypeOK', NEW q \in Runs, IsSound(q),
         NEW gone, NEW wrong, Notes(q, gone, wrong),
         \A t \in Tickers : t \notin gone => names'[t] = names[t],
         \A t \in Tickers : t \notin wrong /\ t \in DOMAIN tickers' =>
           \/ tickers'[t] = names[t]
           \/ t \in DOMAIN tickers /\ tickers'[t] = tickers[t],
         hit'[q] = hit[q],
         {entry \in lineage' : entry.run = q} = {entry \in lineage : entry.run = q}
  PROVE  IsSound(q)'
<1>1. /\ run'[q].state = run[q].state /\ run'[q].targets = run[q].targets
      /\ run'[q].next = run[q].next /\ run'[q].found = run[q].found
      /\ run'[q].loaded = run[q].loaded /\ run'[q].updated = run[q].updated
      /\ run'[q].failed = run[q].failed /\ run'[q].commits = run[q].commits
  BY DEF Notes
<1>2. IsCounted(q)'
  BY <1>1 DEF IsSound, IsCounted, HasNext
<1>3. IsTold(q)'
  BY <1>1 DEF IsSound, IsTold
<1>4. PICK T : T = Ticker(q) /\ T = Ticker(q)'
  BY <1>1 DEF Ticker
<1>5. ASSUME NEW t, IsLeft(q, t)'
      PROVE  IsLeft(q, t) /\ t \notin gone /\ t \notin wrong
  BY <1>5 DEF IsLeft, Notes
<1>6. ASSUME NEW t, IsLeft(q, t)', IsCurrent(t)
      PROVE  IsCurrent(t)'
  <2> SUFFICES ASSUME t \in DOMAIN tickers' PROVE tickers'[t] = names'[t]
    BY DEF IsCurrent, Known
  <2>1. t \in Tickers
    BY DEF TypeOK, Known
  <2>2. QED
    BY <1>5, <1>6, <2>1 DEF IsCurrent, Known
<1>7. IsUpToDate(q)'
  <2>0. SUFFICES ASSUME run[q].state \in {"lookup", "load", "save", "returned"}
                 PROVE  /\ run[q].failed = 0 =>
                             \A i \in 1..(run[q].next - 1) : \A t :
                               /\ t = run[q].targets[i] /\ IsLeft(q, t)'
                               /\ ~(run[q].state \in {"load", "save"} /\ t = T)
                               => IsCurrent(t)'
                        /\ run[q].state \in {"load", "save"} /\ T \notin run'[q].renamed =>
                             run[q].found = names'[T]
                        /\ run[q].state = "save" /\ IsLeft(q, T)' /\ T \in DOMAIN tickers' =>
                             tickers'[T] \in {run[q].loaded, run[q].found}
    BY <1>1, <1>4 DEF IsUpToDate, IsBusy, IsLeft, IsCurrent, Known
  <2>1. ASSUME run[q].failed = 0, NEW i \in 1..(run[q].next - 1), NEW t, t = run[q].targets[i],
               IsLeft(q, t)', ~(run[q].state \in {"load", "save"} /\ t = T)
        PROVE  IsCurrent(t)'
    <3>1. IsLeft(q, t)
      BY <1>5, <2>1
    <3>2. IsCurrent(t)
      BY <1>4, <2>0, <2>1, <3>1 DEF IsSound, IsUpToDate, IsBusy
    <3>3. QED
      BY <1>6, <2>1, <3>2
  <2>2. run[q].state \in {"load", "save"} => T \in Tickers
    BY <1>4, TickerIs DEF IsSound, IsCounted
  <2>3. ASSUME run[q].state \in {"load", "save"}, T \notin run'[q].renamed
        PROVE  run[q].found = names[T] /\ names'[T] = names[T]
    BY <1>4, <2>0, <2>2, <2>3 DEF IsSound, IsUpToDate, Notes
  <2>4. ASSUME run[q].state = "save", IsLeft(q, T)', T \in DOMAIN tickers'
        PROVE  tickers'[T] \in {run[q].loaded, run[q].found}
    <3>1. IsLeft(q, T) /\ T \notin wrong /\ T \in Tickers
      BY <1>5, <2>2, <2>4
    <3>2. run[q].found = names[T]
      <4>1. T \notin run[q].renamed
        BY <3>1 DEF IsLeft
      <4>2. QED
        BY <1>4, <2>0, <2>4, <4>1 DEF IsSound, IsUpToDate
    <3>3. T \in DOMAIN tickers => tickers[T] \in {run[q].loaded, run[q].found}
      BY <1>4, <2>0, <2>4, <3>1 DEF IsSound, IsUpToDate, Known
    <3>4. QED
      BY <2>4, <3>1, <3>2, <3>3
  <2>5. QED
    BY <2>1, <2>3, <2>4
<1>8. QED
  BY <1>2, <1>3, <1>7 DEF IsSound

\* A refresh that has not returned has no lineage row.
LEMMA NotYetTold ==
  ASSUME NEW r \in Runs, IsTold(r), run[r].state # "returned", lineage' = lineage,
         run'[r].state # "returned"
  PROVE  IsTold(r)'
BY DEF IsTold

\* A run that starts has counted nothing and told nothing.
LEMMA StartIsSound ==
  ASSUME TypeOK, NEW r \in Runs, NEW list, IsSound(r), Start(r, list)
  PROVE  IsSound(r)'
<1>1. run[r].state = "new" /\ lineage' = lineage
  BY DEF Start
<1>2. \/ run'[r] = [NewRun EXCEPT !.state = "lookup", !.targets = Targets(list)]
      \/ run'[r] = [run[r] EXCEPT !.state = "raised"]
  BY RunIs DEF Start
<1>3. run'[r].state # "returned" /\ IsTold(r)'
  <2>1. run'[r].state \in {"lookup", "raised"}
    BY <1>2, RunIs DEF NewRun, Run
  <2>2. QED
    BY <1>1, <2>1, NotYetTold DEF IsSound
<1>4. CASE run'[r] = [NewRun EXCEPT !.state = "lookup", !.targets = Targets(list)]
  <2>1. /\ run'[r].state = "lookup" /\ run'[r].next = 1 /\ run'[r].updated = 0
        /\ run'[r].commits = 0
    BY <1>4 DEF NewRun
  <2>2. IsCounted(r)' /\ IsUpToDate(r)'
    BY <2>1 DEF IsCounted, IsUpToDate
  <2>3. QED
    BY <1>3, <2>2 DEF IsSound
<1>5. CASE run'[r] = [run[r] EXCEPT !.state = "raised"]
  <2>1. /\ run'[r].state = "raised" /\ run'[r].updated = run[r].updated
        /\ run'[r].commits = run[r].commits
    BY <1>5, RunIs DEF Run
  <2>2. IsCounted(r)' /\ IsUpToDate(r)'
    BY <2>1 DEF IsSound, IsCounted, IsUpToDate
  <2>3. QED
    BY <1>3, <2>2 DEF IsSound
<1>6. QED
  BY <1>2, <1>4, <1>5

\* A look-up is counted, and the name it finds is the source's of that moment.
LEMMA LookUpIsSound ==
  ASSUME TypeOK, NEW r \in Runs, IsSound(r), LookUp(r)
  PROVE  IsSound(r)'
<1>1. /\ run[r].state = "lookup" /\ HasNext(r) /\ UNCHANGED <<tickers, names, lineage>>
      /\ Ticker(r) \in Tickers
  BY TickerIs DEF LookUp
<1>2. \/ /\ names[Ticker(r)] # NoName
         /\ run'[r] = [run[r] EXCEPT !.state = "load", !.found = names[Ticker(r)],
                                     !.renamed = @ \ {Ticker(r)}]
      \/ run'[r] = [run[r] EXCEPT !.failed = @ + 1, !.next = @ + 1]
  BY RunIs DEF LookUp
<1>3. CASE /\ names[Ticker(r)] # NoName
           /\ run'[r] = [run[r] EXCEPT !.state = "load", !.found = names[Ticker(r)],
                                       !.renamed = @ \ {Ticker(r)}]
  <2>0. PICK T : T = Ticker(r)
    OBVIOUS
  <2>1. /\ run'[r].state = "load" /\ run'[r].found = names[T]
        /\ run'[r].targets = run[r].targets /\ run'[r].next = run[r].next
        /\ run'[r].updated = run[r].updated /\ run'[r].commits = run[r].commits
        /\ run'[r].failed = run[r].failed
        /\ run'[r].renamed = run[r].renamed \ {T} /\ run'[r].overwritten = run[r].overwritten
    BY <1>3, <2>0, RunIs DEF Run
  <2>2. names[Ticker(r)] \in Names
    BY <1>1, <1>3 DEF TypeOK
  <2>3. IsCounted(r)'
    BY <1>1, <2>0, <2>1, <2>2 DEF IsSound, IsCounted, HasNext
  <2>4. IsTold(r)'
    BY <1>1, <2>1, NotYetTold DEF IsSound
  <2>5. IsUpToDate(r)'
    <3>1. T = Ticker(r)'
      BY <2>0, <2>1 DEF Ticker
    <3>2. ASSUME NEW t, IsLeft(r, t)', t # T
          PROVE  IsLeft(r, t) /\ ~IsBusy(r, t)
      BY <1>1, <2>1, <3>2 DEF IsLeft, IsBusy
    <3>3. ASSUME run[r].failed = 0, NEW i \in 1..(run[r].next - 1), NEW t,
                 t = run[r].targets[i], IsLeft(r, t)', t # T
          PROVE  IsCurrent(t)'
      <4>1. IsCurrent(t)
        BY <1>1, <3>2, <3>3 DEF IsSound, IsUpToDate
      <4>2. QED
        BY <1>1, <4>1 DEF IsCurrent, Known
    <3>4. QED
      BY <1>1, <2>1, <3>1, <3>3 DEF IsUpToDate, IsBusy, IsLeft, IsCurrent, Known
  <2>6. QED
    BY <2>3, <2>4, <2>5 DEF IsSound
<1>4. CASE run'[r] = [run[r] EXCEPT !.failed = @ + 1, !.next = @ + 1]
  <2>1. /\ run'[r].state = "lookup" /\ run'[r].failed = run[r].failed + 1
        /\ run'[r].updated = run[r].updated /\ run'[r].commits = run[r].commits
    BY <1>1, <1>4, RunIs DEF Run
  <2>2. run'[r].failed # 0
    BY <2>1, RunIs DEF Run
  <2>3. IsCounted(r)'
    BY <2>1 DEF IsSound, IsCounted
  <2>4. IsTold(r)'
    BY <1>1, <2>1, NotYetTold DEF IsSound
  <2>5. IsUpToDate(r)'
    BY <2>1, <2>2 DEF IsUpToDate
  <2>6. QED
    BY <2>3, <2>4, <2>5 DEF IsSound
<1>5. QED
  BY <1>2, <1>3, <1>4

\* Reading the table changes no count.
LEMMA LoadIsSound ==
  ASSUME TypeOK, NEW r \in Runs, IsSound(r), Load(r)
  PROVE  IsSound(r)'
<1>1. run[r].state = "load" /\ UNCHANGED <<tickers, names, lineage>>
  BY DEF Load
<1>2. PICK T, old : T = Ticker(r) /\ old = (IF T \in Known THEN tickers[T] ELSE NoName)
  OBVIOUS
<1>3. run'[r] = [run[r] EXCEPT !.state = "save", !.loaded = old, !.overwritten = @ \ {T}]
  BY <1>2, RunIs DEF Load
<1>4. /\ run'[r].state = "save" /\ run'[r].found = run[r].found /\ run'[r].loaded = old
      /\ run'[r].targets = run[r].targets /\ run'[r].next = run[r].next
      /\ run'[r].updated = run[r].updated /\ run'[r].commits = run[r].commits
      /\ run'[r].failed = run[r].failed
      /\ run'[r].renamed = run[r].renamed /\ run'[r].overwritten = run[r].overwritten \ {T}
  BY <1>3, RunIs DEF Run
<1>5. IsCounted(r)'
  BY <1>1, <1>4 DEF IsSound, IsCounted, HasNext
<1>6. IsTold(r)'
  BY <1>1, <1>4, NotYetTold DEF IsSound
<1>7. IsUpToDate(r)'
  <2>1. T = Ticker(r)'
    BY <1>2, <1>4 DEF Ticker
  <2>2. ASSUME NEW t, IsLeft(r, t)', t # T
        PROVE  IsLeft(r, t) /\ ~IsBusy(r, t)
    BY <1>2, <1>4, <2>2 DEF IsLeft, IsBusy
  <2>3. ASSUME run[r].failed = 0, NEW i \in 1..(run[r].next - 1), NEW t,
               t = run[r].targets[i], IsLeft(r, t)', t # T
        PROVE  IsCurrent(t)'
    <3>1. IsCurrent(t)
      BY <1>1, <2>2, <2>3 DEF IsSound, IsUpToDate
    <3>2. QED
      BY <1>1, <3>1 DEF IsCurrent, Known
  <2>4. T \notin run'[r].renamed => run'[r].found = names'[T]
    BY <1>1, <1>2, <1>4 DEF IsSound, IsUpToDate
  <2>5. T \in DOMAIN tickers' => tickers'[T] = run'[r].loaded
    BY <1>1, <1>2, <1>4 DEF Known
  <2>6. QED
    BY <1>4, <2>1, <2>3, <2>4, <2>5 DEF IsUpToDate, IsBusy, IsLeft, IsCurrent, Known
<1>8. QED
  BY <1>5, <1>6, <1>7 DEF IsSound

\* The commit brings the ticker up to date, unless somebody has changed a name between the
\* read and the update.
LEMMA SaveIsSound ==
  ASSUME ReferenceAssumption, TypeOK, NEW r \in Runs, IsSound(r), Save(r)
  PROVE  IsSound(r)'
<1>0. PICK T : T = Ticker(r)
  OBVIOUS
<1> DEFINE one == IF Changes(r) THEN 1 ELSE 0
<1>1. /\ run[r].state = "save" /\ UNCHANGED <<names, lineage>> /\ HasNext(r)
      /\ run[r].found \in Names /\ run[r].updated = run[r].commits
  BY DEF Save, IsSound, IsCounted
<1>2. CASE run' = [run EXCEPT ![r].state = "raised"]
  <2>1. /\ run'[r].state = "raised" /\ run'[r].updated = run[r].updated
        /\ run'[r].commits = run[r].commits
    BY <1>2, RunIs DEF Run
  <2>2. IsCounted(r)' /\ IsUpToDate(r)'
    BY <1>1, <2>1 DEF IsCounted, IsUpToDate
  <2>3. IsTold(r)'
    BY <1>1, <2>1, NotYetTold DEF IsSound
  <2>4. QED
    BY <2>2, <2>3 DEF IsSound
<1>3. ASSUME NEW s \in {"lookup", "raised"}, Commit(r, s)
      PROVE  IsSound(r)'
  <2> DEFINE over == IF Changes(r) THEN run[r].overwritten \ {T} ELSE run[r].overwritten
  <2>1. run'[r] = [run[r] EXCEPT !.state = s, !.next = @ + 1, !.updated = Counted(r),
                                 !.commits = @ + one, !.overwritten = over]
    BY <1>0, <1>3, RunIs DEF Commit, Overwritten
  <2>2. /\ run'[r].state = s /\ run'[r].next = run[r].next + 1
        /\ run'[r].updated = run[r].updated + one /\ run'[r].commits = run[r].commits + one
        /\ run'[r].targets = run[r].targets /\ run'[r].failed = run[r].failed
        /\ run'[r].renamed = run[r].renamed /\ run'[r].overwritten = over
    <3>1. Counted(r) = run[r].updated + one
      BY DEF Counted
    <3>2. QED
      <4> HIDE DEF one, over
      <4> QED BY <2>1, <3>1, RunIs DEF Run
  <2>3. IsCounted(r)'
    BY <1>1, <2>2 DEF IsCounted
  <2>4. IsTold(r)'
    BY <1>1, <2>2, NotYetTold DEF IsSound
  <2>5. ASSUME run[r].failed = 0, NEW i \in 1..run[r].next, NEW t, t = run[r].targets[i],
               t \notin run[r].renamed, t \notin over
        PROVE  IsCurrent(t)'
    <3>1. /\ DOMAIN tickers' = DOMAIN tickers /\ UNCHANGED names
          /\ tickers' = IF Changes(r) THEN [tickers EXCEPT ![T] = run[r].found] ELSE tickers
      BY <1>0, <1>1, <1>3 DEF Commit
    <3>2. CASE t = T
      <4>1. run[r].found = names[T]
        BY <1>0, <1>1, <2>5, <3>2 DEF IsSound, IsUpToDate
      <4>2. CASE Changes(r)
        BY <3>1, <3>2, <4>1, <4>2 DEF IsCurrent, Known
      <4>3. CASE ~Changes(r)
        <5>1. IsLeft(r, T)
          BY <2>5, <3>2, <4>3 DEF IsLeft
        <5>2. T \in Known => tickers[T] \in {run[r].loaded, run[r].found}
          BY <1>0, <1>1, <5>1 DEF IsSound, IsUpToDate
        <5>3. T \in Known => tickers[T] # NoName
          BY DEF TypeOK, ReferenceAssumption
        <5>4. T \in Known => tickers[T] = run[r].found
          BY <4>3, <5>2, <5>3 DEF Changes
        <5>5. QED
          BY <3>1, <3>2, <4>1, <4>3, <5>4 DEF IsCurrent, Known
      <4>4. QED
        BY <4>2, <4>3
    <3>3. CASE t # T
      <4>1. i \in 1..(run[r].next - 1)
        <5>1. T = run[r].targets[run[r].next]
          BY <1>0 DEF Ticker
        <5>2. run[r].next \in Nat /\ i # run[r].next
          BY <2>5, <3>3, <5>1, RunIs DEF Run
        <5>3. QED
          BY <5>2
      <4>2. IsLeft(r, t) /\ ~IsBusy(r, t)
        BY <1>0, <2>5, <3>3 DEF IsLeft, IsBusy
      <4>3. IsCurrent(t)
        BY <1>1, <2>5, <4>1, <4>2 DEF IsSound, IsUpToDate
      <4>4. t \in Known => tickers'[t] = tickers[t]
        BY <3>1, <3>3 DEF Known
      <4>5. QED
        BY <3>1, <4>3, <4>4 DEF IsCurrent, Known
    <3>4. QED
      BY <3>2, <3>3
  <2>6. IsUpToDate(r)'
    <3>1. run[r].next \in Nat
      BY RunIs DEF Run
    <3>2. 1..(run'[r].next - 1) = 1..run[r].next
      BY <2>2, <3>1
    <3>3. ASSUME run'[r].failed = 0, NEW i \in 1..(run'[r].next - 1), NEW t,
                 t = run'[r].targets[i], IsLeft(r, t)'
          PROVE  IsCurrent(t)'
      <4> HIDE DEF over
      <4> QED BY <2>2, <2>5, <3>2, <3>3 DEF IsLeft
    <3>4. run'[r].state \notin {"load", "save"}
      BY <2>2
    <3>5. QED
      BY <3>3, <3>4 DEF IsUpToDate, IsLeft, IsCurrent
  <2>7. QED
    BY <2>3, <2>4, <2>6 DEF IsSound
<1>4. QED
  BY <1>2, <1>3 DEF Save

\* The row about a run has the counts of the run, and the run returns them.
LEMMA RecordIsSound ==
  ASSUME TypeOK, NEW r \in Runs, IsSound(r), Record(r)
  PROVE  IsSound(r)'
<1>1. /\ run[r].state = "lookup" /\ ~HasNext(r) /\ UNCHANGED <<tickers, names>>
      /\ run[r].updated = run[r].commits
      /\ \A entry \in lineage : entry.run # r
  BY DEF Record, IsSound, IsCounted, IsTold
<1> DEFINE row == [run |-> r, status |-> Status(r),
                   updated |-> run[r].updated, failed |-> run[r].failed]
<1>2. PICK s \in {"returned", "raised"} :
        /\ run' = [run EXCEPT ![r].state = s]
        /\ \/ s = "returned" /\ lineage' = lineage \union {row}
           \/ s = "returned" /\ lineage' = lineage /\ Fault(r, "db_error")
           \/ s = "raised" /\ lineage' = lineage
  BY DEF Record
<1>3. /\ run'[r].state = s /\ run'[r].found = run[r].found
      /\ run'[r].targets = run[r].targets /\ run'[r].next = run[r].next
      /\ run'[r].updated = run[r].updated /\ run'[r].commits = run[r].commits
      /\ run'[r].failed = run[r].failed
      /\ run'[r].renamed = run[r].renamed /\ run'[r].overwritten = run[r].overwritten
  BY <1>2, RunIs DEF Run
<1>4. IsCounted(r)'
  BY <1>1, <1>3 DEF IsCounted, HasNext
<1>5. IsTold(r)'
  <2>1. CASE s = "returned" /\ lineage' = lineage \union {row}
    <3>1. row.run = r /\ row.updated = run[r].commits /\ row \in lineage'
      BY <1>1, <2>1
    <3>2. \A entry \in lineage' : entry.run = r => entry = row
      BY <1>1, <2>1
    <3>3. QED
      <4> HIDE DEF row
      <4> QED BY <1>3, <2>1, <3>1, <3>2 DEF IsTold
  <2>2. CASE s = "returned" /\ lineage' = lineage /\ Fault(r, "db_error")
    <3>1. "db_error" \in hit'[r]
      BY <2>2 DEF Fault, TypeOK
    <3>2. QED
      BY <1>1, <1>3, <2>2, <3>1 DEF IsTold
  <2>3. CASE s = "raised" /\ lineage' = lineage
    BY <1>1, <1>3, <2>3 DEF IsTold
  <2>4. QED
    BY <1>2, <2>1, <2>2, <2>3
<1>6. IsUpToDate(r)'
  <2>1. ASSUME run[r].failed = 0, NEW i \in 1..(run[r].next - 1), NEW t,
               t = run[r].targets[i], IsLeft(r, t)'
        PROVE  IsCurrent(t)'
    <3>1. IsLeft(r, t) /\ ~IsBusy(r, t)
      BY <1>1, <1>3, <2>1 DEF IsLeft, IsBusy
    <3>2. IsCurrent(t)
      BY <1>1, <2>1, <3>1 DEF IsSound, IsUpToDate
    <3>3. QED
      BY <1>1, <3>2 DEF IsCurrent, Known
  <2>2. QED
    BY <1>3, <2>1 DEF IsUpToDate, IsLeft, IsCurrent
<1>7. QED
  BY <1>4, <1>5, <1>6 DEF IsSound

\* A run that is killed keeps what it committed, and tells nothing.
LEMMA KillIsSound ==
  ASSUME TypeOK, NEW r \in Runs, IsSound(r), Kill(r)
  PROVE  IsSound(r)'
<1>1. lineage' = lineage /\ run[r].state # "returned"
  BY DEF Kill, InProgress
<1>2. /\ run'[r].state = "killed" /\ run'[r].updated = run[r].updated
      /\ run'[r].commits = run[r].commits
  BY RunIs DEF Kill, Run
<1>3. IsCounted(r)' /\ IsUpToDate(r)'
  BY <1>2 DEF IsSound, IsCounted, IsUpToDate
<1>4. IsTold(r)'
  BY <1>1, <1>2, NotYetTold DEF IsSound
<1>5. QED
  BY <1>3, <1>4 DEF IsSound

\* What a step of one refresh is to the others.
LEMMA OneRefresh ==
  ASSUME TypeOK, TypeOK', NEW r \in Runs, NEW q \in Runs, q # r, IsSound(q), IsCounted(r),
         RefreshStep(r) \/ Kill(r) \/ \E list \in Lists : Start(r, list)
  PROVE  IsSound(q)'
<1>1. /\ hit'[q] = hit[q] /\ UNCHANGED names
      /\ {entry \in lineage' : entry.run = q} = {entry \in lineage : entry.run = q}
  <2>1. hit'[q] = hit[q]
    <3>1. hit' = hit \/ \E f : hit' = [hit EXCEPT ![r] = @ \union {f}]
      BY DEF RefreshStep, LookUp, Load, Save, Record, Kill, Start, Fault, NoFault
    <3>2. DOMAIN hit = Runs
      BY DEF TypeOK
    <3>3. QED
      BY <3>1, <3>2
  <2>2. UNCHANGED names
    BY DEF RefreshStep, LookUp, Load, Save, Record, Kill, Start
  <2>3. \/ lineage' = lineage
        \/ lineage' = lineage \union {[run |-> r, status |-> Status(r),
                                      updated |-> run[r].updated, failed |-> run[r].failed]}
    BY Zenon DEF RefreshStep, LookUp, Load, Save, Record, Kill, Start
  <2>4. {entry \in lineage' : entry.run = q} = {entry \in lineage : entry.run = q}
    BY <2>3
  <2>5. QED
    BY <2>1, <2>2, <2>4
<1>2. CASE run'[q] = run[q] /\ UNCHANGED tickers
  <2>1. Notes(q, {}, {})
    BY <1>2 DEF Notes
  <2>2. QED
    BY <1>1, <1>2, <2>1, OthersStep
<1>3. ASSUME NEW s, Commit(r, s), run[r].state = "save"
      PROVE  IsSound(q)'
  <2>1. CASE ~Changes(r)
    BY <1>2, <1>3, <2>1, RunIs DEF Commit
  <2>2. CASE Changes(r)
    <3>0. PICK T, n : T = Ticker(r) /\ n = run[r].found
      OBVIOUS
    <3> DEFINE wrong == {t \in {T} : n # names[t]}
    <3>1. run'[q] = [run[q] EXCEPT !.overwritten = @ \union wrong]
      BY <1>3, <2>2, <3>0, RunIs DEF Commit, Overwritten
    <3>2. Notes(q, {}, wrong)
      <4> HIDE DEF wrong
      <4> QED BY <3>1, RunIs DEF Notes, Run
    <3>3. tickers' = [tickers EXCEPT ![T] = n]
      BY <1>3, <2>2, <3>0 DEF Commit
    <3>4. \A t \in Tickers : t \notin wrong /\ t \in DOMAIN tickers' =>
            \/ tickers'[t] = names[t]
            \/ t \in DOMAIN tickers /\ tickers'[t] = tickers[t]
      BY <3>3
    <3>5. QED
      <4> HIDE DEF wrong
      <4> QED BY <1>1, <3>2, <3>4, OthersStep
  <2>3. QED
    BY <2>1, <2>2
<1>4. QED
  <2>1. CASE LookUp(r) \/ Load(r) \/ Record(r) \/ Kill(r) \/ \E list \in Lists : Start(r, list)
    <3>1. run'[q] = run[q]
      BY <2>1, RunIs DEF LookUp, Load, Record, Kill, Start
    <3>2. UNCHANGED tickers
      BY <2>1 DEF LookUp, Load, Record, Kill, Start
    <3>3. QED
      BY <1>2, <3>1, <3>2
  <2>2. CASE Save(r)
    <3>1. CASE UNCHANGED tickers /\ run' = [run EXCEPT ![r].state = "raised"]
      BY <1>2, <3>1, RunIs
    <3>2. QED
      BY <1>3, <2>2, <3>1 DEF Save
  <2>3. QED
    BY <2>1, <2>2 DEF RefreshStep

\* Every step, of a run, of another run or of the source, keeps every run sound.
LEMMA NextRuns ==
  ASSUME ReferenceAssumption, TypeOK, RunsInv, [Next]_vars
  PROVE  RunsInv'
<1> SUFFICES ASSUME NEW q \in Runs PROVE IsSound(q)'
  BY DEF RunsInv
<1>0. \A r \in Runs : IsSound(r) /\ IsCounted(r)
  BY DEF RunsInv, IsSound
<1>1. IsSound(q) /\ TypeOK'
  BY <1>0, NextTypes
<1>2. CASE \/ UNCHANGED vars \/ \E file \in MemberFiles : SeedUniverse(file)
  <2>1. /\ run'[q] = run[q] /\ hit'[q] = hit[q] /\ UNCHANGED <<tickers, names, lineage>>
    BY <1>2 DEF vars, SeedUniverse
  <2>2. Notes(q, {}, {})
    BY <2>1 DEF Notes
  <2>3. QED
    BY <1>1, <2>1, <2>2, OthersStep
<1>3. ASSUME NEW t \in Tickers, Rename(t)
      PROVE  IsSound(q)'
  <2>1. /\ run'[q] = [run[q] EXCEPT !.renamed = @ \union {t}] /\ UNCHANGED <<tickers, hit, lineage>>
    BY <1>3 DEF Rename
  <2>2. Notes(q, {t}, {})
    BY <2>1, RunIs DEF Notes, Run
  <2>3. \A u \in Tickers : u \notin {t} => names'[u] = names[u]
    BY <1>3 DEF Rename, TypeOK
  <2>4. QED
    BY <1>1, <2>1, <2>2, <2>3, OthersStep
<1>5. ASSUME NEW file \in TickerFiles, SeedTickers(file)
      PROVE  IsSound(q)'
  <2> DEFINE wrong == {t \in DOMAIN file : file[t] # names[t]}
  <2>1. /\ run'[q] = [run[q] EXCEPT !.overwritten = @ \union wrong]
        /\ UNCHANGED <<names, hit, lineage>>
    BY <1>5 DEF SeedTickers, Overwritten
  <2>2. Notes(q, {}, wrong)
    <3> HIDE DEF wrong
    <3> QED BY <2>1, RunIs DEF Notes, Run
  <2>3. \A t \in Tickers : t \notin wrong /\ t \in DOMAIN tickers' =>
          \/ tickers'[t] = names[t]
          \/ t \in DOMAIN tickers /\ tickers'[t] = tickers[t]
    BY <1>5 DEF SeedTickers, Known
  <2>4. QED
    <3> HIDE DEF wrong
    <3> QED BY <1>1, <2>1, <2>2, <2>3, OthersStep
<1>4. ASSUME NEW r \in Runs,
             RefreshStep(r) \/ Kill(r) \/ \E list \in Lists : Start(r, list)
      PROVE  IsSound(q)'
  <2>1. CASE q = r
    BY <1>1, <1>4, <2>1, StartIsSound, LookUpIsSound, LoadIsSound, SaveIsSound, RecordIsSound,
       KillIsSound DEF RefreshStep
  <2>2. CASE q # r
    BY <1>0, <1>1, <1>4, <2>2, OneRefresh
  <2>3. QED
    BY <2>1, <2>2
<1>6. QED
  BY <1>2, <1>3, <1>4, <1>5 DEF Next

---------------------------------------------------------------------------
(* The theorems.                                                           *)

\* Before the first run the invariant holds.
LEMMA InitRefInv ==
  ASSUME ReferenceAssumption, Init
  PROVE  RefInv
<1>1. TypeOK
  BY InitTypes
<1>2. \A r \in Runs : run[r] = NewRun
  BY DEF Init
<1>3. RunsInv
  BY <1>2 DEF RunsInv, IsSound, IsCounted, IsTold, IsUpToDate, NewRun, Init
<1>4. MembersInv
  BY DEF Init, MembersInv
<1>5. QED
  BY <1>1, <1>3, <1>4 DEF RefInv

\* Every step keeps it.
LEMMA NextRefInv ==
  ASSUME ReferenceAssumption, RefInv, [Next]_vars
  PROVE  RefInv'
<1>1. \A r \in Runs : IsCounted(r)
  BY DEF RefInv, RunsInv, IsSound
<1>2. QED
  BY <1>1, NextTypes, NextRuns, NextMembers DEF RefInv

\* The invariant holds of every run, with any number of refreshes at the same time.
THEOREM RefInvHolds == Spec => []RefInv
<1>1. ReferenceAssumption
  BY ReferenceAssumption
<1>2. Init => RefInv
  BY <1>1, InitRefInv
<1>3. RefInv /\ [Next]_vars => RefInv'
  BY <1>1, NextRefInv
<1>4. QED
  BY <1>2, <1>3, PTL DEF Spec

\* Type correctness: in particular, no two memberships have one key and each is of a ticker
\* of the table.
THEOREM RefTypeCorrect == Spec => []TypeOK
<1>1. RefInv => TypeOK
  BY DEF RefInv
<1>2. QED
  BY <1>1, RefInvHolds, PTL

\* A refresh's summary and lineage row count the names it changed.
THEOREM RefreshTold == Spec => []RefreshIsTold
<1>1. ASSUME RefInv PROVE RefreshIsTold
  <2> SUFFICES ASSUME NEW r \in Runs
               PROVE  /\ run[r].state = "returned" => run[r].updated = run[r].commits
                      /\ \A entry \in lineage : entry.run = r => entry.updated = run[r].commits
                      /\ run[r].commits > 0 /\ (\A entry \in lineage : entry.run # r) =>
                           \/ InProgress(r) \/ run[r].state \in {"raised", "killed"}
                           \/ "db_error" \in hit[r]
    BY DEF RefreshIsTold
  <2>1. IsCounted(r) /\ IsTold(r)
    BY <1>1 DEF RefInv, RunsInv, IsSound
  <2>2. run[r].state \in {"new", "lookup", "load", "save", "returned", "raised", "killed"}
    BY <1>1, RunIs DEF RefInv, Run
  <2>3. QED
    BY <2>1, <2>2 DEF IsCounted, IsTold, InProgress
<1>2. QED
  BY <1>1, RefInvHolds, PTL

\* A refresh that says success has brought up to date every name that nobody changed at the
\* provider after its look-up or overwrote after its row was read.
THEOREM RefreshCaughtUp == Spec => []RefreshCatchesUp
<1>1. ASSUME RefInv PROVE RefreshCatchesUp
  <2> SUFFICES ASSUME NEW r \in Runs, run[r].state = "returned", Status(r) = "success",
                      NEW t \in ToSet(run[r].targets) \intersect Known, IsLeft(r, t)
               PROVE  tickers[t] = names[t]
    BY DEF RefreshCatchesUp, IsLeft
  <2>1. run[r].failed = 0
    BY DEF Status
  <2>2. /\ run[r].targets \in Seq(Tickers) /\ run[r].next \in Nat /\ run[r].next > Len(run[r].targets)
    BY <1>1, RunIs DEF RefInv, Run, RunsInv, IsSound, IsCounted, HasNext
  <2>3. PICK i \in 1..Len(run[r].targets) : t = run[r].targets[i]
    BY <2>2 DEF ToSet
  <2>4. i \in 1..(run[r].next - 1)
    BY <2>2
  <2>5. IsCurrent(run[r].targets[i])
    BY <1>1, <2>1, <2>3, <2>4 DEF RefInv, RunsInv, IsSound, IsUpToDate, IsBusy
  <2>6. QED
    BY <2>3, <2>5 DEF IsCurrent
<1>2. QED
  BY <1>1, RefInvHolds, PTL

\* The universe of a date is that of the last edition that was loaded, as long as editions
\* only add memberships or end them; the members of a range are those of its dates.
THEOREM UniverseSeeded == Spec => []UniverseIsAsSeeded
<1>1. ReferenceAssumption
  BY ReferenceAssumption
<1>2. RefInv => UniverseIsAsSeeded
  BY <1>1, QueriesAre DEF RefInv
<1>3. QED
  BY <1>2, RefInvHolds, PTL
=============================================================================
