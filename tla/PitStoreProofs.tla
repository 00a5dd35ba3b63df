--------------------------- MODULE PitStoreProofs ---------------------------
(***************************************************************************)
(* Theorems about PitStore, for any calendar of reports, any publication   *)
(* delay and lag, and any number of overlapping ingestion runs.            *)
(***************************************************************************)
EXTENDS PitStore, SequenceTheorems, FiniteSetTheorems, TLAPS

---------------------------------------------------------------------------
(* Facts about the provider's view.                                        *)

\* A period that is shown has a report, and the report has an edition.
LEMMA ShownIsPublished ==
  ASSUME TypeOK, NEW p \in Shown
  PROVE  /\ p \in Periods /\ p \in Nat
         /\ editions[p] # <<>>
         /\ Len(editions[p]) \in 1..MaxEditions
         /\ Quarters(p) \in {1, TtmPeriods}
<1>1. p \in Published
  BY DEF Shown, Quarterly, Annual
<1>2. p \in Periods /\ editions[p] # <<>> /\ editions[p] \in Seq(0..LastDay)
  BY <1>1 DEF Published, TypeOK
<1>3. Len(editions[p]) \in Nat \ {0}
  BY <1>2, EmptySeq
<1>4. Len(editions[p]) \in 1..MaxEditions
  BY <1>2, <1>3, PitAssumption DEF TypeOK
<1> QED BY <1>2, <1>4, PitAssumption DEF Quarters

\* What a run fetches: typed rows, one for each key, each of a report that came out
\* and none of the future.
LEMMA NormalizedRows ==
  ASSUME TypeOK, PitInv
  PROVE  /\ Normalized \subseteq Row
         /\ KeysDiffer(Normalized)
         /\ \A r \in Normalized : Sound(r)
<1> DEFINE row(p) == [period |-> p, reported |-> ReportedDate(p),
                      figure |-> [edition |-> Len(editions[p]), quarters |-> Quarters(p)]]
<1>1. \A r \in Normalized : \E p \in Shown : r = row(p) /\ ReportedDate(p) <= today
  BY DEF Normalized
<1>2. ASSUME NEW p \in Shown, ReportedDate(p) <= today
      PROVE  row(p) \in Row /\ Sound(row(p))
  <2>1. ReportedDate(p) \in Nat
    BY ShownIsPublished, PitAssumption DEF ReportedDate
  <2>2. row(p) \in Row
    BY <2>1, ShownIsPublished DEF Row, Figure
  <2>3. Sound(row(p))
    BY <1>2, ShownIsPublished DEF Sound, PitInv
  <2> QED BY <2>2, <2>3
<1>3. \A p, q \in Shown : Key(row(p)) = Key(row(q)) => row(p) = row(q)
  BY DEF Key
<1> HIDE DEF row
<1> QED BY <1>1, <1>2, <1>3 DEF KeysDiffer

\* An upsert keeps the table typed and its key unique.
LEMMA UpsertedRows ==
  ASSUME NEW rows \in SUBSET Row, KeysDiffer(rows), table \subseteq Row, KeysDiffer(table)
  PROVE  /\ Upserted(rows) \subseteq Row
         /\ KeysDiffer(Upserted(rows))
         /\ Upserted(rows) \subseteq table \union rows
BY DEF Upserted, KeysDiffer

\* The initial state is sound: there are no rows and no reports.
LEMMA PitInit == Init => TypeOK /\ PitInv
<1> SUFFICES ASSUME Init PROVE TypeOK /\ PitInv
  OBVIOUS
<1>1. <<>> \in Seq(0..LastDay) /\ Len(<<>>) = 0
  BY EmptySeq
<1>2. Idle \in Run
  BY DEF Idle, Run, FlowPc
<1>3. TypeOK
  BY <1>1, <1>2, PitAssumption DEF Init, TypeOK, KeysDiffer
<1>4. PitInv
  BY DEF Init, PitInv, KeysDiffer, LineageExplains, Idle
<1> QED BY <1>3, <1>4

---------------------------------------------------------------------------
(* The steps of the world.                                                 *)

\* A row that was sound stays so when time passes and first editions stay what they are.
LEMMA SoundStays ==
  ASSUME TypeOK, NEW r \in Row, Sound(r), today' \in Nat, today <= today',
         editions'[r.period] # <<>>, editions'[r.period][1] = editions[r.period][1]
  PROVE  Sound(r)'
<1>1. today \in Nat /\ r.reported \in Nat
  BY DEF TypeOK, Row
<1> QED BY <1>1 DEF Sound, ReportedDate

\* A day passes.
LEMMA NextDayStep ==
  ASSUME TypeOK, PitInv, NextDay
  PROVE  TypeOK' /\ PitInv'
<1>1. /\ today \in Nat /\ today' \in 0..LastDay /\ today <= today'
      /\ UNCHANGED <<gaps, editions, table, flow, lineage, unrecorded, overtaken, runs>>
  BY PitAssumption DEF NextDay, TypeOK
<1>2. TypeOK'
  BY <1>1 DEF TypeOK, KeysDiffer
<1>3. \A r \in Row : Sound(r) => Sound(r)'
  BY <1>1 DEF Sound, Row, ReportedDate
<1>4. table \subseteq Row /\ \A f \in Flows : flow[f].rows \subseteq Row
  BY DEF TypeOK, Run
<1>5. LineageExplains'
  BY <1>1 DEF PitInv, LineageExplains
<1> QED BY <1>1, <1>2, <1>3, <1>4, <1>5 DEF PitInv, KeysDiffer

\* A report comes out, or a figure is restated: the first editions there were stay.
LEMMA ReportStep ==
  ASSUME TypeOK, PitInv, NEW p \in Periods, Publish(p) \/ Restate(p)
  PROVE  TypeOK' /\ PitInv'
<1>1. UNCHANGED <<today, gaps, table, flow, lineage, unrecorded, overtaken, runs>>
  BY DEF Publish, Restate
<1>2. editions[p] \in Seq(0..LastDay) /\ today \in 0..LastDay
  BY DEF TypeOK
<1>3. /\ editions'[p] \in Seq(0..LastDay) /\ Len(editions'[p]) <= MaxEditions
      /\ editions'[p] # <<>>
      /\ editions[p] # <<>> => editions'[p][1] = editions[p][1]
      /\ editions[p] = <<>> => editions'[p][1] <= p + Delay
      /\ editions' = [editions EXCEPT ![p] = editions'[p]]
  <2>1. CASE Publish(p)
    <3>1. editions[p] = <<>> /\ editions'[p] = <<today>> /\ today <= p + Delay
      BY <2>1 DEF Publish, TypeOK
    <3>2. editions' = [editions EXCEPT ![p] = editions'[p]]
      BY <2>1, <3>1 DEF Publish, TypeOK
    <3> QED BY <1>2, <3>1, <3>2, PitAssumption
  <2>2. CASE Restate(p)
    <3>1. editions'[p] = Append(editions[p], today) /\ Len(editions[p]) \in 1..(MaxEditions - 1)
      BY <2>2 DEF Restate, TypeOK
    <3>2. /\ editions'[p] \in Seq(0..LastDay) /\ Len(editions'[p]) = Len(editions[p]) + 1
          /\ editions'[p][1] = editions[p][1]
      BY <1>2, <3>1, AppendProperties
    <3>3. editions' = [editions EXCEPT ![p] = editions'[p]]
      BY <2>2, <3>1 DEF Restate, TypeOK
    <3>4. editions[p] # <<>> /\ editions'[p] # <<>> /\ Len(editions'[p]) <= MaxEditions
      BY <1>2, <3>1, <3>2, EmptySeq, PitAssumption
    <3> QED BY <3>2, <3>3, <3>4
  <2> QED BY <2>1, <2>2
<1>4. \A q \in Periods \ {p} : editions'[q] = editions[q]
  BY <1>3 DEF TypeOK
<1>5. TypeOK'
  <2>1. editions' \in [Periods -> Seq(0..LastDay)]
    BY <1>3 DEF TypeOK
  <2>2. \A q \in Periods : Len(editions'[q]) <= MaxEditions
    BY <1>3, <1>4 DEF TypeOK
  <2> QED BY <1>1, <2>1, <2>2 DEF TypeOK, KeysDiffer
<1>6. \A r \in Row : Sound(r) => Sound(r)'
  <2> SUFFICES ASSUME NEW r \in Row, Sound(r) PROVE Sound(r)'
    OBVIOUS
  <2>1. editions'[r.period] # <<>> /\ editions'[r.period][1] = editions[r.period][1]
    BY <1>3, <1>4 DEF Sound, Row
  <2> QED BY <1>1, <1>2, <2>1, SoundStays
<1>7. table \subseteq Row /\ \A f \in Flows : flow[f].rows \subseteq Row
  BY DEF TypeOK, Run
<1>8. \A q \in Periods : editions'[q] # <<>> => editions'[q][1] <= q + Delay
  <2> SUFFICES ASSUME NEW q \in Periods, editions'[q] # <<>> PROVE editions'[q][1] <= q + Delay
    OBVIOUS
  <2>1. editions[q] # <<>> => editions[q][1] <= q + Delay
    BY DEF PitInv
  <2> QED BY <1>3, <1>4, <2>1
<1>9. LineageExplains'
  BY <1>1 DEF PitInv, LineageExplains
<1> QED BY <1>1, <1>5, <1>6, <1>7, <1>8, <1>9 DEF PitInv, KeysDiffer

---------------------------------------------------------------------------
(* The steps of an ingestion run.                                          *)

\* The flow variable when one run becomes another value of the right shape.
LEMMA FlowTypes ==
  ASSUME TypeOK, NEW f \in Flows, NEW h \in Run, h.pc = "idle" => h = Idle,
         flow' = [flow EXCEPT ![f] = h]
  PROVE  /\ flow' \in [Flows -> Run]
         /\ \A g \in Flows : flow'[g].pc = "idle" => flow'[g] = Idle
         /\ flow'[f] = h
         /\ \A g \in Flows \ {f} : flow'[g] = flow[g]
BY DEF TypeOK

\* Soundness speaks of the day and of the editions only, which a run leaves alone.
LEMMA SoundUnchanged ==
  ASSUME UNCHANGED <<today, editions>>, NEW r
  PROVE  Sound(r)' <=> Sound(r)
BY DEF Sound, ReportedDate

\* A run fetches what the provider shows today, or fails.
LEMMA FetchStep ==
  ASSUME TypeOK, PitInv, NEW f \in Flows, Fetch(f)
  PROVE  TypeOK' /\ PitInv'
<1>1. UNCHANGED <<today, gaps, editions, table, lineage, unrecorded, overtaken>> /\ runs' \in 0..MaxRuns
  BY PitAssumption DEF Fetch, TypeOK
<1>2. PICK h \in Run : /\ flow' = [flow EXCEPT ![f] = h]
                       /\ h.pc \in {"upsert", "record_failed"}
                       /\ h.rows \in {Normalized, {}}
  <2>1. [pc |-> "upsert", rows |-> Normalized] \in Run
    BY NormalizedRows DEF Run, FlowPc
  <2>2. [pc |-> "record_failed", rows |-> {}] \in Run
    BY DEF Run, FlowPc
  <2> QED BY <2>1, <2>2 DEF Fetch
<1>3. TypeOK'
  <2>1. overtaken' \subseteq {g \in Flows : flow'[g].pc = "upsert"}
    BY <1>1, <1>2, FlowTypes DEF TypeOK, Fetch
  <2> QED BY <1>1, <1>2, <2>1, FlowTypes DEF TypeOK, KeysDiffer
<1>4. KeysDiffer(h.rows) /\ \A r \in h.rows : Sound(r)
  BY <1>2, NormalizedRows DEF KeysDiffer
<1>5. \A g \in Flows : KeysDiffer(flow'[g].rows) /\ \A r \in flow'[g].rows : Sound(r)'
  BY <1>1, <1>2, <1>4, FlowTypes, SoundUnchanged DEF PitInv
<1>6. flow[f].pc = "idle"
  BY DEF Fetch
<1>7. LineageExplains'
  BY <1>1, <1>2, <1>6, FlowTypes DEF PitInv, LineageExplains
<1> QED BY <1>1, <1>3, <1>5, <1>7, SoundUnchanged DEF PitInv, KeysDiffer

\* The upsert: all the fetched rows come in, and the run learns of it or does not, or none.
LEMMA UpsertStep ==
  ASSUME TypeOK, PitInv, NEW f \in Flows, Upsert(f)
  PROVE  TypeOK' /\ PitInv'
<1>1. /\ UNCHANGED <<today, gaps, editions, lineage, runs>> /\ flow[f].pc = "upsert"
      /\ overtaken' \subseteq (overtaken \union {g \in Flows : flow[g].pc = "upsert"}) \ {f}
  BY DEF Upsert, Store
<1>2. flow[f] \in Run /\ KeysDiffer(flow[f].rows) /\ \A r \in flow[f].rows : Sound(r)
  BY DEF TypeOK, PitInv
<1>3. PICK h \in Run :
        /\ flow' = [flow EXCEPT ![f] = h]
        /\ h.pc \in {"record_success", "record_failed"} /\ h.rows \subseteq flow[f].rows
        /\ table' \in {table, Upserted(flow[f].rows)}
        /\ unrecorded' \in {unrecorded, unrecorded \union flow[f].rows}
        /\ \/ table' = table
           \/ h.pc = "record_success" /\ h.rows = flow[f].rows
           \/ unrecorded' = unrecorded \union flow[f].rows
  <2> DEFINE done   == [flow[f] EXCEPT !.pc = "record_success"]
             failed == [pc |-> "record_failed", rows |-> {}]
  <2>1. done \in Run /\ done.pc = "record_success" /\ done.rows = flow[f].rows
    BY <1>2 DEF Run, FlowPc
  <2>2. failed \in Run /\ failed.pc = "record_failed" /\ failed.rows = {}
    BY DEF Run, FlowPc
  <2>3. \/ /\ table' = Upserted(flow[f].rows) /\ unrecorded' = unrecorded
           /\ flow' = [flow EXCEPT ![f] = done]
        \/ /\ table' = table /\ unrecorded' = unrecorded /\ flow' = [flow EXCEPT ![f] = failed]
        \/ /\ table' = Upserted(flow[f].rows) /\ unrecorded' = unrecorded \union flow[f].rows
           /\ flow' = [flow EXCEPT ![f] = failed]
    BY DEF Upsert, Store
  <2> HIDE DEF done, failed
  <2> QED BY <2>1, <2>2, <2>3
<1>4. /\ flow' \in [Flows -> Run] /\ \A g \in Flows : flow'[g].pc = "idle" => flow'[g] = Idle
      /\ flow'[f] = h /\ \A g \in Flows \ {f} : flow'[g] = flow[g]
  BY <1>3, FlowTypes
<1>5. /\ table' \subseteq Row /\ KeysDiffer(table') /\ table' \subseteq table \union flow[f].rows
  BY <1>2, <1>3, UpsertedRows DEF TypeOK, Run
<1>6. TypeOK'
  <2>1. unrecorded' \subseteq Row /\ unrecorded \subseteq unrecorded'
    BY <1>2, <1>3 DEF TypeOK, Run
  <2>2. overtaken' \subseteq {g \in Flows : flow'[g].pc = "upsert"}
    BY <1>1, <1>4 DEF TypeOK
  <2> QED BY <1>1, <1>4, <1>5, <2>1, <2>2 DEF TypeOK, KeysDiffer
<1>7. /\ \A r \in table' : Sound(r)'
      /\ \A g \in Flows : KeysDiffer(flow'[g].rows) /\ \A r \in flow'[g].rows : Sound(r)'
  <2>1. \A r \in table' : Sound(r)'
    BY <1>1, <1>2, <1>5, SoundUnchanged DEF PitInv
  <2>2. ASSUME NEW g \in Flows
        PROVE  KeysDiffer(flow'[g].rows) /\ \A r \in flow'[g].rows : Sound(r)'
    <3>1. flow'[g].rows \subseteq flow[g].rows
      BY <1>3, <1>4
    <3> QED BY <1>1, <3>1, SoundUnchanged DEF PitInv, KeysDiffer
  <2> QED BY <2>1, <2>2
<1>8. LineageExplains'
  <2> SUFFICES ASSUME NEW r \in table'
               PROVE  \/ \E entry \in lineage : entry.status = "success" /\ r \in entry.rows
                      \/ \E g \in Flows : flow'[g].pc = "record_success" /\ r \in flow'[g].rows
                      \/ r \in unrecorded'
    BY <1>1 DEF LineageExplains
  <2>1. CASE r \in table
    BY <1>1, <1>3, <1>4, <2>1 DEF PitInv, LineageExplains
  <2>2. CASE r \in flow[f].rows /\ r \notin table
    BY <1>3, <1>4, <2>2
  <2> QED BY <1>5, <2>1, <2>2
<1> QED BY <1>1, <1>6, <1>7, <1>8 DEF PitInv, KeysDiffer

\* A run writes its lineage row, or fails to, or dies: its rows are accounted for.
LEMMA EndStep ==
  ASSUME TypeOK, PitInv, NEW f \in Flows, Record(f) \/ Kill(f)
  PROVE  TypeOK' /\ PitInv'
<1>1. /\ UNCHANGED <<today, gaps, editions, table, runs>>
      /\ flow' = [flow EXCEPT ![f] = Idle]
      /\ overtaken' \subseteq overtaken /\ f \notin overtaken'
  BY DEF Record, Kill, TypeOK
<1>2. Idle \in Run /\ Idle.pc = "idle" /\ Idle.rows = {}
  BY DEF Idle, Run, FlowPc
<1>3. /\ flow' \in [Flows -> Run] /\ \A g \in Flows : flow'[g].pc = "idle" => flow'[g] = Idle
      /\ flow'[f] = Idle /\ \A g \in Flows \ {f} : flow'[g] = flow[g]
  BY <1>1, <1>2, FlowTypes
<1>4. flow[f] \in Run /\ flow[f].rows \subseteq Row
  BY DEF TypeOK, Run
<1>5. /\ lineage \subseteq lineage' /\ lineage' \subseteq Lineage
      /\ unrecorded \subseteq unrecorded' /\ unrecorded' \subseteq Row
      /\ flow[f].pc = "record_success" =>
           \/ \E entry \in lineage' : entry.status = "success" /\ entry.rows = flow[f].rows
           \/ flow[f].rows \subseteq unrecorded'
  <2> DEFINE entry == [status |-> IF flow[f].pc = "record_success" THEN "success" ELSE "failed",
                       rows   |-> flow[f].rows]
  <2>1. entry \in Lineage /\ entry.rows = flow[f].rows
    BY <1>4 DEF Lineage
  <2>2. flow[f].pc = "record_success" => entry.status = "success"
    OBVIOUS
  <2>3. CASE lineage' = lineage \union {entry} /\ UNCHANGED unrecorded
    <3> HIDE DEF entry
    <3> QED BY <2>1, <2>2, <2>3 DEF TypeOK
  <2>4. CASE UNCHANGED lineage /\ unrecorded' = unrecorded \union flow[f].rows
    BY <1>4, <2>4 DEF TypeOK
  <2>5. CASE Kill(f)
    BY <1>4, <2>5 DEF Kill, TypeOK
  <2> QED BY <2>3, <2>4, <2>5 DEF Record
<1>6. TypeOK'
  <2>1. overtaken' \subseteq {g \in Flows : flow'[g].pc = "upsert"}
    BY <1>1, <1>3 DEF TypeOK
  <2> QED BY <1>1, <1>3, <1>5, <2>1 DEF TypeOK, KeysDiffer
<1>7. /\ \A r \in table' : Sound(r)'
      /\ \A g \in Flows : KeysDiffer(flow'[g].rows) /\ \A r \in flow'[g].rows : Sound(r)'
  BY <1>1, <1>2, <1>3, SoundUnchanged DEF PitInv, KeysDiffer
<1>8. LineageExplains'
  <2> SUFFICES ASSUME NEW r \in table
               PROVE  \/ \E entry \in lineage' : entry.status = "success" /\ r \in entry.rows
                      \/ \E g \in Flows : flow'[g].pc = "record_success" /\ r \in flow'[g].rows
                      \/ r \in unrecorded'
    BY <1>1 DEF LineageExplains
  <2>1. CASE flow[f].pc = "record_success" /\ r \in flow[f].rows
    BY <1>5, <2>1
  <2>2. CASE \E g \in Flows \ {f} : flow[g].pc = "record_success" /\ r \in flow[g].rows
    BY <1>3, <2>2
  <2>3. CASE r \in unrecorded \/ \E entry \in lineage : entry.status = "success" /\ r \in entry.rows
    BY <1>5, <2>3
  <2> QED BY <2>1, <2>2, <2>3 DEF PitInv, LineageExplains
<1> QED BY <1>1, <1>6, <1>7, <1>8 DEF PitInv, KeysDiffer

---------------------------------------------------------------------------
(* The theorems.                                                           *)

\* Types and PitInv hold in every behaviour of PitStore: rows are typed, keys unique,
\* and every row, stored or fetched, tells of a report that had come out in time.
THEOREM StoreIsSound == Spec => [](TypeOK /\ PitInv)
<1>1. TypeOK /\ PitInv /\ [Next]_vars => TypeOK' /\ PitInv'
  <2> SUFFICES ASSUME TypeOK, PitInv, [Next]_vars PROVE TypeOK' /\ PitInv'
    OBVIOUS
  <2>1. CASE NextDay
    BY <2>1, NextDayStep
  <2>2. ASSUME NEW p \in Periods, Publish(p) \/ Restate(p) PROVE TypeOK' /\ PitInv'
    BY <2>2, ReportStep
  <2>3. ASSUME NEW f \in Flows, Fetch(f) \/ Upsert(f) \/ Record(f) \/ Kill(f)
        PROVE  TypeOK' /\ PitInv'
    BY <2>3, FetchStep, UpsertStep, EndStep
  <2>4. CASE Over \/ UNCHANGED vars
    <3>1. UNCHANGED vars
      BY <2>4 DEF Over
    <3> QED BY <3>1 DEF vars, TypeOK, PitInv, KeysDiffer, LineageExplains, Sound, ReportedDate
  <2> QED BY <2>1, <2>2, <2>3, <2>4 DEF Next
<1> QED BY <1>1, PitInit, PTL DEF Spec

\* Types hold in every behaviour, and the primary key of the table is never broken.
THEOREM StoreTypes == Spec => []TypeOK
BY StoreIsSound, PTL

\* The table never holds a row whose reported_date is still ahead.
THEOREM NothingOfTheFuture == Spec => []NoFutureRow
<1>1. PitInv => NoFutureRow
  BY DEF PitInv, Sound, NoFutureRow
<1> QED BY <1>1, StoreIsSound, PTL

\* The rows of ingestion_runs explain the table, but for runs whose own row was lost.
THEOREM TableIsExplained == Spec => []LineageExplains
<1>1. PitInv => LineageExplains
  BY DEF PitInv
<1> QED BY <1>1, StoreIsSound, PTL

\* If companies report within the lag, no as-of query ever shows a report before the day
\* it came out, whatever is restated and however many runs overlap.
THEOREM NoQueryLooksAhead == Delay <= Lag => (Spec => []NoLookahead)
<1> SUFFICES ASSUME Delay <= Lag PROVE Spec => []NoLookahead
  OBVIOUS
<1>1. ASSUME TypeOK, PitInv PROVE NoLookahead
  <2> SUFFICES ASSUME NEW d \in Days, NEW r \in Snapshot(d) \union Ttm(d)
               PROVE  editions[r.period][1] <= d
    BY DEF NoLookahead
  <2>1. r \in table /\ r.reported <= d
    <3>1. CASE r \in Snapshot(d)
      BY <3>1 DEF Snapshot
    <3>2. CASE r \in Ttm(d)
      BY <3>2 DEF Ttm, History
    <3> QED BY <3>1, <3>2
  <2>2. /\ r \in Row /\ Sound(r) /\ d \in Nat
        /\ editions[r.period] \in Seq(0..LastDay)
    BY <1>1, <2>1 DEF TypeOK, PitInv, Days, Row
  <2>3. r.period \in Nat /\ editions[r.period][1] \in Nat
    <3>1. 1 \in 1..Len(editions[r.period])
      BY <2>2, EmptySeq DEF Sound
    <3>2. editions[r.period][1] \in 0..LastDay
      BY <2>2, <3>1, ElementOfSeq
    <3>3. r.period \in Nat
      BY <2>2, PitAssumption DEF Row
    <3>4. \A day \in 0..LastDay : day \in Nat
      BY PitAssumption
    <3> QED BY <3>2, <3>3, <3>4
  <2> QED BY <2>1, <2>2, <2>3, PitAssumption DEF Sound, ReportedDate
<1> QED BY <1>1, StoreIsSound, PTL

---------------------------------------------------------------------------
(* Editions.                                                               *)

\* What a run fetches is the newest edition of each figure.
LEMMA NormalizedIsNewest ==
  ASSUME NEW r \in Normalized
  PROVE  r.figure.edition = Len(editions[r.period])
BY DEF Normalized

\* Editions only get more, and only a run that was overtaken may bring back an older one.
LEMMA NextForward ==
  ASSUME TypeOK, PitInv, ForwardInv, [Next]_vars
  PROVE  ForwardInv'
<1>1. /\ table \subseteq Row /\ \A f \in Flows : flow[f] \in Run /\ flow[f].rows \subseteq Row
      /\ \A p \in Periods : Len(editions[p]) \in Nat
  BY DEF TypeOK, Run
<1>2. \A r \in Row : r.period \in Periods /\ r.figure.edition \in Nat
  BY DEF Row, Figure
<1>3. CASE UNCHANGED <<table, flow, overtaken>> /\ \A p \in Periods : Len(editions'[p]) \in Nat
                                                   /\ Len(editions[p]) <= Len(editions'[p])
  <2>1. ASSUME NEW r \in Row, r.figure.edition <= Len(editions[r.period])
        PROVE  r.figure.edition <= Len(editions'[r.period])
    BY <1>1, <1>2, <1>3, <2>1
  <2> QED BY <1>1, <1>3, <2>1 DEF ForwardInv
<1>4. ASSUME NEW f \in Flows, Fetch(f) PROVE ForwardInv'
  <2>1. UNCHANGED <<editions, table, overtaken>> /\ flow[f].pc = "idle" /\ f \notin overtaken
    BY <1>4 DEF Fetch, TypeOK
  <2>2. PICK rows \in {Normalized, {}} : /\ flow'[f].rows = rows
                                        /\ \A g \in Flows \ {f} : flow'[g] = flow[g]
    BY <1>4 DEF Fetch, TypeOK
  <2>3. \A r \in rows : r.figure.edition = Len(editions[r.period])
    BY <2>2, NormalizedIsNewest
  <2>4. ASSUME NEW r \in table, NEW s \in rows, Key(r) = Key(s)
        PROVE  r.figure.edition <= s.figure.edition
    <3>1. r.period = s.period
      BY <2>4 DEF Key
    <3> QED BY <2>3, <3>1 DEF ForwardInv
  <2>5. \A g \in Flows : \A r \in flow'[g].rows : r.figure.edition <= Len(editions[r.period])
    <3> SUFFICES ASSUME NEW g \in Flows, NEW r \in flow'[g].rows
                 PROVE  r.figure.edition <= Len(editions[r.period])
      OBVIOUS
    <3>1. CASE g = f
      <4>1. r \in Normalized
        BY <2>2, <3>1
      <4>2. r \in Row
        BY <4>1, NormalizedRows
      <4> QED BY <1>1, <1>2, <4>1, <4>2, NormalizedIsNewest
    <3>2. CASE g # f
      BY <2>2, <3>2 DEF ForwardInv
    <3> QED BY <3>1, <3>2
  <2> QED BY <2>1, <2>2, <2>4, <2>5 DEF ForwardInv
<1>5. ASSUME NEW f \in Flows, Upsert(f) PROVE ForwardInv'
  <2>1. /\ UNCHANGED editions /\ flow[f].pc = "upsert"
        /\ flow'[f].pc # "upsert" /\ flow'[f].rows \subseteq flow[f].rows
        /\ \A g \in Flows \ {f} : flow'[g] = flow[g]
        /\ overtaken \ {f} \subseteq overtaken'
    <3>1. UNCHANGED editions /\ flow[f].pc = "upsert" /\ overtaken \ {f} \subseteq overtaken'
      BY <1>5 DEF Upsert, Store
    <3>2. \/ flow' = [flow EXCEPT ![f].pc = "record_success"]
          \/ flow' = [flow EXCEPT ![f] = [pc |-> "record_failed", rows |-> {}]]
      BY <1>5 DEF Upsert
    <3>3. flow[f] \in Run /\ flow \in [Flows -> Run]
      BY DEF TypeOK
    <3>4. CASE flow' = [flow EXCEPT ![f].pc = "record_success"]
      BY <3>1, <3>3, <3>4 DEF Run
    <3>5. CASE flow' = [flow EXCEPT ![f] = [pc |-> "record_failed", rows |-> {}]]
      BY <3>1, <3>3, <3>5
    <3> QED BY <3>1, <3>2, <3>4, <3>5
  <2>2. \/ table' = table
        \/ /\ table' \subseteq table \union flow[f].rows
           /\ \A g \in Flows \ {f} : flow[g].pc = "upsert" => g \in overtaken'
    BY <1>5 DEF Upsert, Store, Upserted
  <2>3. \A r \in table' : r.figure.edition <= Len(editions[r.period])
    BY <2>2 DEF ForwardInv
  <2>4. \A g \in Flows : \A r \in flow'[g].rows : r.figure.edition <= Len(editions[r.period])
    BY <2>1 DEF ForwardInv
  <2>5. ASSUME NEW g \in Flows \ overtaken', flow'[g].pc = "upsert",
               NEW r \in table', NEW s \in flow'[g].rows, Key(r) = Key(s)
        PROVE  r.figure.edition <= s.figure.edition
    <3>1. g # f /\ flow'[g] = flow[g] /\ g \notin overtaken
      BY <2>1, <2>5
    <3>2. table' = table
      BY <2>2, <2>5, <3>1
    <3> QED BY <2>5, <3>1, <3>2 DEF ForwardInv
  <2> QED BY <2>1, <2>3, <2>4, <2>5 DEF ForwardInv
<1>6. ASSUME NEW f \in Flows, Record(f) \/ Kill(f) PROVE ForwardInv'
  <2>1. /\ UNCHANGED <<editions, table>>
        /\ flow'[f] = Idle /\ \A g \in Flows \ {f} : flow'[g] = flow[g]
        /\ overtaken \ {f} \subseteq overtaken'
    BY <1>6 DEF Record, Kill, TypeOK
  <2> QED BY <2>1 DEF ForwardInv, Idle
<1>7. CASE NextDay \/ Over \/ UNCHANGED vars
  BY <1>1, <1>3, <1>7 DEF NextDay, Over, vars
<1>8. ASSUME NEW p \in Periods, Publish(p) \/ Restate(p) PROVE ForwardInv'
  <2>1. UNCHANGED <<table, flow, overtaken>>
    BY <1>8 DEF Publish, Restate
  <2>2. \A q \in Periods : Len(editions'[q]) \in Nat /\ Len(editions[q]) <= Len(editions'[q])
    <3> SUFFICES ASSUME NEW q \in Periods
                 PROVE  Len(editions'[q]) \in Nat /\ Len(editions[q]) <= Len(editions'[q])
      OBVIOUS
    <3>1. editions[q] \in Seq(0..LastDay) /\ today \in 0..LastDay /\ Len(editions[q]) \in Nat
      BY <1>1 DEF TypeOK
    <3>2. CASE q # p
      BY <1>1, <1>8, <3>2 DEF Publish, Restate, TypeOK
    <3>3. CASE q = p /\ Publish(p)
      <4>1. editions'[q] = <<today>> /\ editions[q] = <<>>
        BY <3>3 DEF Publish, TypeOK
      <4>2. Len(<<today>>) = 1 /\ Len(<<>>) = 0
        OBVIOUS
      <4> QED BY <4>1, <4>2
    <3>4. CASE q = p /\ Restate(p)
      <4>1. editions'[q] = Append(editions[q], today)
        BY <3>4 DEF Restate, TypeOK
      <4> QED BY <3>1, <4>1, AppendProperties
    <3> QED BY <1>8, <3>2, <3>3, <3>4
  <2> QED BY <1>3, <2>1, <2>2
<1> QED BY <1>4, <1>5, <1>6, <1>7, <1>8 DEF Next

\* No run that fetched after a figure was stored puts an older edition in its place, for any
\* overlapping runs, restatements, failures and commits that nobody learns of.
THEOREM FiguresGoForward == Spec => EditionsGoForward
<1>1. Init => ForwardInv
  BY DEF Init, ForwardInv, Idle
<1>2. TypeOK /\ PitInv /\ ForwardInv /\ [Next]_vars => ForwardInv'
  BY NextForward
<1> DEFINE Forward == \A r \in table, s \in table' :
                        Key(r) = Key(s) /\ s.figure.edition < r.figure.edition =>
                          \E f \in overtaken : s \in flow[f].rows
<1>3. ASSUME TypeOK, PitInv, ForwardInv, Next PROVE Forward
  <2> SUFFICES ASSUME NEW r \in table, NEW s \in table',
                      Key(r) = Key(s), s.figure.edition < r.figure.edition
               PROVE  \E f \in overtaken : s \in flow[f].rows
    OBVIOUS
  <2>1. r \in Row /\ KeysDiffer(table)
    BY <1>3 DEF TypeOK
  <2>2. r.figure.edition \in Int
    BY <2>1 DEF Row, Figure
  <2>3. s \notin table
    BY <2>1, <2>2 DEF KeysDiffer
  <2>4. PICK f \in Flows : Upsert(f)
    BY <1>3, <2>3 DEF Next, NextDay, Over, Publish, Restate, Fetch, Record, Kill, vars
  <2>5. s \in flow[f].rows /\ flow[f].pc = "upsert"
    BY <2>3, <2>4 DEF Upsert, Store, Upserted
  <2>6. s.figure.edition \in Int
    BY <1>3, <2>5 DEF TypeOK, Run, Row, Figure
  <2>7. f \in overtaken
    BY <1>3, <2>2, <2>5, <2>6 DEF ForwardInv
  <2> QED BY <2>5, <2>7
<1>4. TypeOK /\ PitInv /\ ForwardInv /\ [Next]_vars => [Forward]_vars
  BY <1>3
<1> QED BY <1>1, <1>2, <1>4, StoreIsSound, PTL DEF Spec, EditionsGoForward
=============================================================================
