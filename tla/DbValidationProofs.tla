-------------------------- MODULE DbValidationProofs --------------------------
(***************************************************************************)
(* The theorems about the price flows and about validate_db_state beside    *)
(* them, for every set of batches, lists of tickers, failures and bounds.    *)
(*                                                                         *)
(* First the lemmas about the flows: what a step of a flow, or of whatever   *)
(* runs beside it, keeps.  Three inductive invariants, each on top of        *)
(* FlowInv: FlowInv types the state and ties the tasks to their batch;       *)
(* BooksInv follows each commit from its task to the lineage and the         *)
(* summary; WindowInv says what a task has of its window when it hands it    *)
(* on.                                                                       *)
(*                                                                         *)
(* Then the validation: the flows never give it ground for an error, and     *)
(* what it finds in order stays so.  NoAlarm is not inductive: that a check  *)
(* finds nothing depends on the table, and what enters the table was         *)
(* validated in an earlier step, by a thread that may have slept since.      *)
(* AlarmInv says so of the rows and of the frames on their way.              *)
(***************************************************************************)
EXTENDS DbValidation, SumTheorems, SequenceTheorems

\* A step of something that runs beside the flows: it may count a failure of its own.
Beside == /\ UNCHANGED <<clock, source, prices, lineage, batch, tasks, written, hit>>
          /\ faults' \in 0..MaxFaults

----------------------------------------------------------------------------
(* Types.                                                                  *)

\* A frame has one bar of a day, a page is gone on from once for each new oldest day, and
\* a task has a status when it has ended, and rows no earlier.
TaskIs(task) ==
  /\ task \in Task
  /\ \A x, y \in task.frame : x.day = y.day => x = y
  /\ task.pages = Cardinality(task.seen)
  /\ task.pc \in {"queued", "fetch", "upsert"} => task.rows = 0
  /\ task.pc \in {"lineage", "done"} => task.status # "running"

\* Only a running batch has tasks, one for each of its tickers.
TasksInv ==
  /\ tasks \in [Batches -> Seq(Task)]
  /\ \A b \in Batches : \A i \in DOMAIN tasks[b] : TaskIs(tasks[b][i])
  /\ \A b \in Batches :
       Len(tasks[b]) = IF batch[b].state = "running" THEN Len(batch[b].targets) ELSE 0
  /\ \A b \in Batches : batch[b].state = "running" => batch[b].provider \in Providers

FlowInv == TypeOK /\ TasksInv

\* The days that are looked at are finitely many, and today is one of the clock's.
LEMMA DaysAre ==
  ASSUME PriceAssumption
  PROVE  Days \subseteq Int /\ IsFiniteSet(Days) /\ LastDay \in Nat /\ Sessions \subseteq Days
BY FS_Interval DEF PriceAssumption, Days, Sessions

\* The clock is a natural number, within its bound.
LEMMA TodayIs == ASSUME FlowInv, PriceAssumption PROVE Today \in 0..LastDay
BY DEF FlowInv, TypeOK, Today, PriceAssumption

\* What is said of every task is true of one that has not begun.
LEMMA NewTaskIs == ASSUME PriceAssumption PROVE TaskIs(NewTask)
<1>1. NewTask \in Task
  BY DEF NewTask, Task, PriceAssumption
<1>2. QED
  BY <1>1, FS_EmptySet DEF TaskIs, NewTask

\* The same of tasks that have come to their end, which keep a status and rows.
LEMMA EndedIs ==
  ASSUME PriceAssumption, NEW status \in {"success", "failed"}, NEW rows \in Nat
  PROVE  /\ TaskIs(Ended(status, rows)) /\ TaskIs(Result(status, rows))
         /\ Ended(status, rows).pc = "lineage" /\ Result(status, rows).pc = "done"
         /\ Ended(status, rows).status = status /\ Result(status, rows).status = status
         /\ Ended(status, rows).rows = rows /\ Result(status, rows).rows = rows
<1>1. Ended(status, rows) \in Task /\ Result(status, rows) \in Task
  <2>1. \A pc \in {"lineage", "done"} :
          [NewTask EXCEPT !.pc = pc, !.status = status, !.rows = rows] \in Task
    BY NewTaskIs DEF TaskIs, Task
  <2>2. QED
    BY <2>1 DEF Ended, Result
<1>2. QED
  BY <1>1, FS_EmptySet DEF TaskIs, NewTask, Ended, Result

\* The bars of some sessions: one a day.
LEMMA BarsAre ==
  ASSUME PriceAssumption, NEW days \in SUBSET Days
  PROVE  /\ BarsOf(days) \subseteq Bar
         /\ \A x, y \in BarsOf(days) : x.day = y.day => x = y
         /\ \A x \in BarsOf(days) : x.day \in days
BY DEF BarsOf, Bar, Edition

\* What a step makes of the task that makes it.
Moves(b, i, new) == TaskIs(new) /\ Becomes(b, i, new) /\ batch' = batch

\* The steps that leave the tables alone: the task has nothing to report yet, or a failure.
Prepares(b, i, new) ==
  /\ Moves(b, i, new)
  /\ tasks[b][i].pc \in {"queued", "fetch", "upsert"}
  /\ new.pc \in {"fetch", "upsert"} \/ new \in {Ended("success", 0), Ended("failed", 0)}
  /\ new.rows = 0
  /\ UNCHANGED <<prices, written, lineage>>

\* A frame that was fetched is rejected, is empty, or is kept as it is.
LEMMA ValidTask ==
  ASSUME PriceAssumption, FlowInv, NEW b \in Batches, NEW i \in DOMAIN tasks[b], NEW frame,
         (\A bar \in frame : ~(bar.day > Today)) => frame \subseteq Bar,
         \A x, y \in frame : x.day = y.day => x = y,
         Validate(b, i, frame), batch' = batch, tasks[b][i].pc = "fetch",
         UNCHANGED <<prices, written, lineage>>
  PROVE  \E new : Prepares(b, i, new)
<1>1. tasks[b][i] \in Task
  BY DEF FlowInv, TasksInv, TaskIs
<1>2. CASE Becomes(b, i, Ended("failed", 0))
  BY <1>2, EndedIs DEF Prepares, Moves
<1>3. CASE Becomes(b, i, Ended("success", 0))
  BY <1>3, EndedIs DEF Prepares, Moves
<1>4. CASE /\ \A bar \in frame : ~(bar.day > Today)
           /\ Becomes(b, i, [NewTask EXCEPT !.pc = "upsert", !.end = tasks[b][i].end,
                                            !.frame = frame])
  <2> DEFINE new == [NewTask EXCEPT !.pc = "upsert", !.end = tasks[b][i].end,
                                    !.frame = frame]
  <2>1. tasks[b][i].end \in 0..LastDay /\ frame \in SUBSET Bar
    BY <1>1, <1>4 DEF Task
  <2>2. new \in Task
    BY <2>1, NewTaskIs DEF TaskIs, Task
  <2>3. new.frame = frame /\ new.pages = 0 /\ new.seen = {} /\ new.pc = "upsert" /\ new.rows = 0
    BY DEF NewTask
  <2>4. TaskIs(new)
    BY <2>2, <2>3, FS_EmptySet DEF TaskIs
  <2>5. QED
    BY <1>4, <2>3, <2>4 DEF Prepares, Moves
<1>5. QED
  BY <1>2, <1>3, <1>4 DEF Validate, Fails

\* Begin, and every part of a fetch.
LEMMA FetchPrepares ==
  ASSUME PriceAssumption, FlowInv, NEW b \in Batches, NEW i \in DOMAIN tasks[b],
         \/ Begin(b, i) \/ FetchYfinance(b, i) \/ FetchPage(b, i)
         \/ Throttled(b, i) \/ FetchFails(b, i)
  PROVE  \E new : Prepares(b, i, new)
<1> DEFINE task == tasks[b][i]
<1>1. TaskIs(task) /\ task \in Task /\ Today \in 0..LastDay
  BY TodayIs DEF FlowInv, TasksInv, TaskIs
<1>2. CASE Begin(b, i)
  <2> DEFINE new == [NewTask EXCEPT !.pc = "fetch", !.start = WindowStart(b),
                                    !.end = Today, !.before = Today + 1]
  <2>1. WindowStart(b) \in Int
    BY <1>1 DEF WindowStart, PriceAssumption
  <2>2. new \in Task
    <3>1. NewTask \in Task /\ Today \in 0..LastDay /\ Today + 1 \in Int
      BY <1>1, NewTaskIs DEF TaskIs
    <3>2. QED
      BY <2>1, <3>1 DEF Task
  <2>3. TaskIs(new) /\ new.pc = "fetch" /\ new.rows = 0
    BY <2>2, FS_EmptySet DEF TaskIs, NewTask
  <2>4. QED
    BY <1>2, <2>3 DEF Begin, At, Prepares, Moves
<1>3. CASE FetchYfinance(b, i)
  <2> DEFINE days == Sessions \intersect task.start..task.end
             bars == BarsOf(days)
             more == bars \union {[day |-> Today + 1, edition |-> "partial"]}
  <2>1. days \in SUBSET Days /\ \A d \in days : d \in Int /\ d <= Today
    BY DaysAre DEF Sessions
  <2>2. /\ bars \subseteq Bar
        /\ \A x, y \in bars : x.day = y.day => x = y
        /\ \A x \in bars : x.day \in Int /\ x.day <= Today
    <3> HIDE DEF days
    <3> QED BY <2>1, BarsAre
  <2> HIDE DEF bars
  <2>3. /\ \E x \in more : x.day > Today
        /\ \A x, y \in more : x.day = y.day => x = y
    <3>1. [day |-> Today + 1, edition |-> "partial"].day > Today
      BY <1>1
    <3>2. \A x \in bars : x.day # Today + 1
      BY <1>1, <2>2
    <3> DEFINE late == [day |-> Today + 1, edition |-> "partial"]
    <3> HIDE DEF bars
    <3>3. late \in more /\ late.day > Today /\ late.day = Today + 1
      BY <3>1
    <3>4. \A x \in more : x \in bars \/ x = late
      OBVIOUS
    <3> HIDE DEF late, more
    <3>5. QED
      BY <3>2, <3>3, <3>4, <2>2
  <2> HIDE DEF more
  <2>4. /\ Validate(b, i, bars) \/ Validate(b, i, more)
        /\ batch' = batch /\ task.pc = "fetch" /\ UNCHANGED <<prices, written, lineage>>
    BY <1>3 DEF FetchYfinance, At, bars, more
  <2>5. QED
    BY <2>2, <2>3, <2>4, ValidTask
<1>4. CASE FetchPage(b, i)
  <2> DEFINE page   == BarsOf(PageDays(task.before))
             oldest == Min({bar.day : bar \in page})
             frame  == task.frame \union
                       {bar \in page : \A old \in task.frame : old.day # bar.day}
             window == {bar \in frame : bar.day \in task.start..task.end}
             next   == [task EXCEPT !.frame = frame, !.before = oldest,
                                    !.seen = @ \union {oldest}, !.attempts = 0,
                                    !.pages = @ + 1]
  <2>1. PageDays(task.before) \in SUBSET Days
    BY DaysAre DEF PageDays
  <2>2. /\ page \subseteq Bar /\ task.frame \subseteq Bar
        /\ \A x, y \in page : x.day = y.day => x = y
        /\ \A x, y \in task.frame : x.day = y.day => x = y
    BY <1>1, <2>1, BarsAre DEF TaskIs, Task
  <2>3. /\ task.pc = "fetch" /\ batch' = batch /\ UNCHANGED <<prices, written, lineage>>
        /\ \/ Validate(b, i, window)
           \/ page # {} /\ oldest \notin task.seen /\ Becomes(b, i, next)
    BY <1>4 DEF FetchPage, At, LastPage
  <2>4. page # {} => oldest \in Days /\ oldest \in Int
    <3> DEFINE days == {bar.day : bar \in page}
    <3>1. days \subseteq Days /\ (page # {} => days # {})
      BY <2>2 DEF Bar
    <3>2. days \subseteq Int /\ IsFiniteSet(days)
      BY <3>1, DaysAre, FS_Subset
    <3>3. page # {} => Min(days) \in days
      <4> HIDE DEF days
      <4> QED BY <3>1, <3>2, MinIn
    <3>4. QED
      BY <3>1, <3>2, <3>3
  <2> HIDE DEF page, oldest
  <2>5. frame \subseteq Bar /\ \A x, y \in frame : x.day = y.day => x = y
    BY <2>2
  <2> HIDE DEF frame
  <2>6. CASE Validate(b, i, window)
    <3>1. window \subseteq Bar /\ \A x, y \in window : x.day = y.day => x = y
      BY <2>5
    <3> HIDE DEF window
    <3>2. QED
      BY <2>3, <2>6, <3>1, ValidTask
  <2>7. CASE page # {} /\ oldest \notin task.seen /\ Becomes(b, i, next)
    <3>1. task.seen \subseteq Days /\ IsFiniteSet(task.seen) /\ task.pages \in Nat
      BY <1>1, DaysAre, FS_Subset DEF Task
    <3>2. Cardinality(task.seen \union {oldest}) = task.pages + 1
      <4>1. task.pages = Cardinality(task.seen)
        BY <1>1 DEF TaskIs
      <4>2. Cardinality(task.seen \union {oldest}) = Cardinality(task.seen) + 1
        BY <2>7, <3>1, FS_AddElement
      <4>3. QED
        BY <4>1, <4>2
    <3>3. oldest \in Days /\ oldest \in Int
      BY <2>4, <2>7
    <3>4. next \in Task
      <4>1. /\ frame \in SUBSET Bar /\ task.seen \union {oldest} \in SUBSET Days
            /\ task.pages + 1 \in Nat
        BY <2>5, <3>1, <3>3
      <4>2. QED
        BY <1>1, <3>3, <4>1 DEF Task
    <3>5. /\ next.pages = task.pages + 1 /\ next.seen = task.seen \union {oldest}
          /\ next.frame = frame /\ next.pc = "fetch" /\ next.rows = task.rows
      BY <1>1, <2>3 DEF Task
    <3>6. task.rows = 0
      BY <1>1, <2>3 DEF TaskIs
    <3>7. TaskIs(next)
      BY <2>5, <3>2, <3>4, <3>5, <3>6 DEF TaskIs
    <3> HIDE DEF next
    <3>8. QED
      BY <2>3, <2>7, <3>5, <3>6, <3>7 DEF Prepares, Moves
  <2>8. QED
    BY <2>3, <2>6, <2>7
<1>5. CASE Throttled(b, i)
  <2> DEFINE again == [task EXCEPT !.attempts = @ + 1]
  <2>1. /\ task.pc = "fetch" /\ batch' = batch /\ UNCHANGED <<prices, written, lineage>>
        /\ Becomes(b, i, Ended("failed", 0)) \/ Becomes(b, i, again)
    BY <1>5 DEF Throttled, At, Fails
  <2>2. /\ again \in Task /\ again.pages = task.pages /\ again.seen = task.seen
        /\ again.frame = task.frame /\ again.pc = "fetch" /\ again.rows = task.rows
    <3>1. task.attempts + 1 \in Nat
      BY <1>1 DEF Task
    <3>2. QED
      BY <1>1, <2>1, <3>1 DEF Task
  <2>3. TaskIs(again) /\ again.rows = 0
    BY <1>1, <2>1, <2>2 DEF TaskIs
  <2> HIDE DEF again
  <2>4. QED
    BY <2>1, <2>2, <2>3, EndedIs DEF Prepares, Moves
<1>6. CASE FetchFails(b, i)
  BY <1>6, EndedIs DEF FetchFails, Fails, At, Prepares, Moves
<1>7. QED
  BY <1>2, <1>3, <1>4, <1>5, <1>6

\* The bars of the frame are committed, and the task knows it or takes it for a failure.
Stores(b, i, new) ==
  /\ Moves(b, i, new)
  /\ tasks[b][i].pc = "upsert" /\ tasks[b][i].frame \subseteq Bar
  /\ Commits(b, i) /\ lineage' = lineage
  /\ \/ new = Ended("success", Cardinality(tasks[b][i].frame)) /\ NoFault
     \/ new = Ended("failed", 0) /\ Fault(b, "commit_unknown")

\* The task ends, with its lineage row or without it.
Reports(b, i, new) ==
  /\ Moves(b, i, new)
  /\ tasks[b][i].pc = "lineage"
  /\ UNCHANGED <<prices, written>>
  /\ \/ /\ lineage' = lineage \union {[batch |-> b, task |-> i, status |-> tasks[b][i].status,
                                       rows |-> tasks[b][i].rows]}
        /\ NoFault
        /\ new = Result(tasks[b][i].status, tasks[b][i].rows)
     \/ /\ Fault(b, "db_error") /\ lineage' = lineage
        /\ new = Result(tasks[b][i].status, tasks[b][i].rows)
     \/ /\ Fault(b, "capture_error") /\ lineage' = lineage
        /\ new = Result("failed", 0)

\* A frame is finite, so that the rows of a commit are a number.
LEMMA FrameIsFinite ==
  ASSUME PriceAssumption, NEW frame \in SUBSET Bar, \A x, y \in frame : x.day = y.day => x = y
  PROVE  Cardinality(frame) \in Nat
<1> DEFINE f == [x \in frame |-> x.day]
<1>1. f \in [frame -> Days] /\ \A x, y \in frame : f[x] = f[y] => x = y
  BY DEF Bar
<1> HIDE DEF f
<1>2. f \in Injection(frame, Days)
  BY <1>1 DEF Injection, IsInjective
<1>3. IsFiniteSet(frame)
  BY <1>2, DaysAre, FS_Injection
<1>4. QED
  BY <1>3, FS_CardinalityType

\* Every step of a task is of one of the three kinds.
LEMMA TaskSteps ==
  ASSUME PriceAssumption, FlowInv, NEW b \in Batches, NEW i \in DOMAIN tasks[b],
         TaskStep(b, i) \/ Throttled(b, i) \/ FetchFails(b, i)
  PROVE  /\ batch[b].state = "running" /\ UNCHANGED <<clock, source>>
         /\ NoFault \/ \E f \in Faults : Fault(b, f)
         /\ \E new : Prepares(b, i, new) \/ Stores(b, i, new) \/ Reports(b, i, new)
<1> DEFINE task == tasks[b][i]
<1>1. TaskIs(task) /\ task \in Task
  BY DEF FlowInv, TasksInv, TaskIs
<1>2. CASE \/ Begin(b, i) \/ FetchYfinance(b, i) \/ FetchPage(b, i)
           \/ Throttled(b, i) \/ FetchFails(b, i)
  <2>1. /\ batch[b].state = "running" /\ UNCHANGED <<clock, source>>
        /\ NoFault \/ \E f \in Faults : Fault(b, f)
    BY <1>2 DEF Begin, FetchYfinance, FetchPage, Throttled, FetchFails, At, Fault
  <2>2. QED
    BY <1>2, <2>1, FetchPrepares
<1>3. CASE Upsert(b, i)
  <2>1. /\ batch[b].state = "running" /\ UNCHANGED <<clock, source, lineage, batch>>
        /\ task.pc = "upsert"
    BY <1>3 DEF Upsert, At
  <2>2. task.frame \subseteq Bar /\ Cardinality(task.frame) \in Nat
    BY <1>1, FrameIsFinite DEF Task, TaskIs
  <2>3. CASE /\ Commits(b, i) /\ NoFault
             /\ Becomes(b, i, Ended("success", Cardinality(task.frame)))
    BY <2>1, <2>2, <2>3, EndedIs DEF Stores, Moves
  <2>4. CASE Commits(b, i) /\ Fault(b, "commit_unknown") /\ Fails(b, i)
    BY <2>1, <2>2, <2>4, EndedIs DEF Stores, Moves, Fails, Fault
  <2>5. CASE /\ IF Ticker(b, i) \in Known THEN Fault(b, "db_error") ELSE NoFault
             /\ Fails(b, i) /\ UNCHANGED <<prices, written>>
    <3>1. NoFault \/ \E f \in Faults : Fault(b, f)
      BY <2>5 DEF Fault
    <3>2. QED
      BY <2>1, <2>5, <3>1, EndedIs DEF Prepares, Moves, Fails
  <2>6. QED
    BY <1>3, <2>3, <2>4, <2>5 DEF Upsert
<1>4. CASE Record(b, i)
  <2>1. /\ batch[b].state = "running" /\ UNCHANGED <<clock, source, prices, batch, written>>
        /\ task.pc = "lineage"
    BY <1>4 DEF Record, At
  <2>2. task.status \in {"success", "failed"} /\ task.rows \in Nat
    BY <1>1, <2>1 DEF Task, TaskIs
  <2>3. NoFault \/ \E f \in Faults : Fault(b, f)
    BY <1>4 DEF Record, Fault
  <2>4. \E new : /\ Becomes(b, i, new)
                 /\ new \in {Result(task.status, task.rows), Result("failed", 0)}
                 /\ Moves(b, i, new) => Reports(b, i, new)
    BY <1>4, <2>1 DEF Record, Reports
  <2>5. QED
    BY <2>1, <2>2, <2>3, <2>4, EndedIs DEF Moves
<1>5. QED
  BY <1>2, <1>3, <1>4 DEF TaskStep

\* The parts of TypeOK that a step of a task may change beside the tasks.
RowTypes == /\ prices \subseteq Price
            /\ \A r, s \in prices : Key(r) = Key(s) => r = s
EntryTypes   == lineage \subseteq Lineage
WrittenTypes == written \in [Providers \X Tickers -> Seq(Commit)]
FaultTypes   == faults \in 0..MaxFaults /\ hit \in [Batches -> SUBSET Faults]
BatchTypes   == batch \in [Batches -> Flow]

\* TypeOK by its parts.
LEMMA TypesAre ==
  TypeOK <=> /\ clock \in 0..(2 * LastDay + 1) /\ source \in Sources
             /\ RowTypes /\ EntryTypes /\ WrittenTypes /\ FaultTypes /\ BatchTypes
             /\ tasks \in [Batches -> Seq(Task)]
             /\ \A b \in Batches : tasks[b] # <<>> => Len(tasks[b]) = Len(batch[b].targets)
BY DEF TypeOK, RowTypes, EntryTypes, WrittenTypes, FaultTypes, BatchTypes

\* FlowInv by its parts: that the tasks have their batch's number follows from TasksInv.
LEMMA FlowIs ==
  FlowInv <=> /\ clock \in 0..(2 * LastDay + 1) /\ source \in Sources
              /\ RowTypes /\ EntryTypes /\ WrittenTypes /\ FaultTypes /\ BatchTypes
              /\ TasksInv
<1>1. ASSUME TasksInv, NEW b \in Batches, tasks[b] # <<>>
      PROVE  Len(tasks[b]) = Len(batch[b].targets)
  <2>1. tasks[b] \in Seq(Task)
    BY <1>1 DEF TasksInv
  <2>2. Len(tasks[b]) # 0
    BY <1>1, <2>1, EmptySeq
  <2>3. QED
    BY <1>1, <2>2 DEF TasksInv
<1>2. QED
  BY <1>1, TypesAre DEF FlowInv, TasksInv

\* The same after a step.
LEMMA FlowIsNext ==
  FlowInv' <=> ( /\ clock \in 0..(2 * LastDay + 1) /\ source \in Sources
                 /\ RowTypes /\ EntryTypes /\ WrittenTypes /\ FaultTypes /\ BatchTypes
                 /\ TasksInv )'
BY FlowIs, PTL

\* A failure is counted, of the batch it befalls.
LEMMA FaultsGrow ==
  ASSUME PriceAssumption, FaultTypes, NEW b \in Batches,
         NoFault \/ \E f \in Faults : Fault(b, f)
  PROVE  /\ FaultTypes'
         /\ \A c \in Batches : hit[c] \subseteq hit'[c] /\ (c # b => hit'[c] = hit[c])
<1>1. faults \in 0..MaxFaults /\ MaxFaults \in Nat /\ hit \in [Batches -> SUBSET Faults]
  BY DEF PriceAssumption, FaultTypes
<1>2. CASE NoFault
  BY <1>1, <1>2 DEF NoFault, FaultTypes
<1>3. ASSUME NEW f \in Faults, Fault(b, f)
      PROVE  /\ FaultTypes'
             /\ \A c \in Batches : hit[c] \subseteq hit'[c] /\ (c # b => hit'[c] = hit[c])
  <2>1. /\ faults' = faults + 1 /\ faults < MaxFaults
        /\ hit' = [hit EXCEPT ![b] = @ \union {f}]
    BY <1>3 DEF Fault
  <2>2. hit[b] \union {f} \in SUBSET Faults
    BY <1>1, <1>3
  <2>3. QED
    BY <1>1, <2>1, <2>2 DEF FaultTypes
<1>4. QED
  BY <1>2, <1>3

\* A task that is replaced by one of its type.
LEMMA TaskMoves ==
  ASSUME TasksInv, NEW b \in Batches, NEW i \in DOMAIN tasks[b], NEW new, Moves(b, i, new)
  PROVE  /\ TasksInv'
         /\ tasks'[b][i] = new
         /\ \A c \in Batches : DOMAIN tasks'[c] = DOMAIN tasks[c]
         /\ \A c \in Batches : \A j \in DOMAIN tasks[c] :
              c # b \/ j # i => tasks'[c][j] = tasks[c][j]
<1>1. tasks \in [Batches -> Seq(Task)] /\ new \in Task /\ tasks' = [tasks EXCEPT ![b][i] = new]
  BY DEF TasksInv, Moves, TaskIs, Becomes
<1>2. PICK row : row = tasks[b]
  OBVIOUS
<1>3. row \in Seq(Task) /\ i \in 1..Len(row)
  BY <1>1, <1>2, LenProperties
<1>4. PICK after : after = [row EXCEPT ![i] = new]
  OBVIOUS
<1>5. /\ after \in Seq(Task) /\ Len(after) = Len(row)
      /\ \A j \in 1..Len(row) : after[j] = IF j = i THEN new ELSE row[j]
  BY <1>1, <1>3, <1>4, ExceptSeq
<1>6. tasks' = [tasks EXCEPT ![b] = after]
  BY <1>1, <1>2, <1>4
<1>7. /\ tasks' \in [Batches -> Seq(Task)]
      /\ \A c \in Batches : tasks'[c] = IF c = b THEN after ELSE tasks[c]
  BY <1>1, <1>5, <1>6
<1>8. DOMAIN after = 1..Len(row) /\ DOMAIN row = 1..Len(row)
  BY <1>3, <1>5, LenProperties
<1>9. \A c \in Batches : DOMAIN tasks'[c] = DOMAIN tasks[c] /\ Len(tasks'[c]) = Len(tasks[c])
  BY <1>2, <1>5, <1>7, <1>8
<1>10. \A c \in Batches : \A j \in DOMAIN tasks[c] :
         tasks'[c][j] = IF c = b /\ j = i THEN new ELSE tasks[c][j]
  BY <1>2, <1>5, <1>7, <1>8
<1>11. \A c \in Batches : \A j \in DOMAIN tasks'[c] : TaskIs(tasks'[c][j])
  BY <1>9, <1>10 DEF Moves, TasksInv
<1>12. batch' = batch
  BY DEF Moves
<1>13. TasksInv'
  <2>1. \A task : TaskIs(task)' <=> TaskIs(task)
    BY DEF TaskIs
  <2>2. \A b_1 \in Batches : \A i_1 \in DOMAIN tasks'[b_1] : TaskIs(tasks[b_1][i_1])'
    BY <1>11 DEF TaskIs
  <2>3. QED
    BY <1>7, <1>9, <1>12, <2>2 DEF TasksInv
<1>14. QED
  BY <1>9, <1>10, <1>13

\* What a commit does: the rows of the frame replace those with their keys, and the commit
\* is remembered.
LEMMA CommitTypes ==
  ASSUME PriceAssumption, FlowInv, NEW b \in Batches, NEW i \in DOMAIN tasks[b],
         batch[b].state = "running", Commits(b, i)
  PROVE  /\ RowTypes' /\ WrittenTypes'
         /\ Provider(b) \in Providers /\ Ticker(b, i) \in Tickers /\ i \in Nat
         /\ tasks[b][i].end \in 0..LastDay
<1> DEFINE frame == tasks[b][i].frame
           rows  == {[provider |-> Provider(b), ticker |-> Ticker(b, i), day |-> bar.day,
                      edition |-> bar.edition] : bar \in frame}
           commit == [batch |-> b, task |-> i, end |-> tasks[b][i].end,
                      rows |-> Cardinality(frame)]
<1>1. TaskIs(tasks[b][i]) /\ tasks[b][i] \in Task /\ tasks[b] \in Seq(Task)
  BY DEF FlowInv, TasksInv, TaskIs
<1>2. Provider(b) \in Providers /\ i \in 1..Len(batch[b].targets)
  BY <1>1, LenProperties DEF FlowInv, TasksInv, Provider
<1>3. Ticker(b, i) \in Tickers
  <2>1. batch[b].targets \in TargetLists \union {<<>>}
    BY DEF FlowInv, TypeOK, Flow
  <2>2. batch[b].targets \in Seq(Tickers)
    BY <2>1, EmptySeq DEF PriceAssumption
  <2>3. QED
    BY <1>2, <2>2, ElementOfSeq DEF Ticker
<1>4. /\ frame \subseteq Bar /\ Cardinality(frame) \in Nat
      /\ \A x, y \in frame : x.day = y.day => x = y
  BY <1>1, FrameIsFinite DEF TaskIs, Task
<1>5. rows \subseteq Price /\ \A r, s \in rows : Key(r) = Key(s) => r = s
  BY <1>2, <1>3, <1>4 DEF Price, Bar, Key
<1>6. RowTypes /\ prices' = Upserted(rows)
  BY FlowIs DEF Commits
<1> HIDE DEF rows
<1>7. RowTypes'
  BY <1>5, <1>6 DEF RowTypes, Upserted, Key
<1>8. commit \in Commit /\ i \in Nat
  <2>1. tasks[b][i].end \in 0..LastDay /\ i \in Nat
    <3>1. tasks[b][i].end \in 0..LastDay
      BY <1>1 DEF Task
    <3>2. i \in Nat
      <4>1. Len(tasks[b]) \in Nat /\ DOMAIN tasks[b] = 1..Len(tasks[b])
        BY <1>1, LenProperties
      <4>2. QED
        BY <4>1
    <3>3. QED
      BY <3>1, <3>2
  <2>2. QED
    BY <1>4, <2>1 DEF Commit
<1>9. WrittenTypes'
  <2>1. WrittenTypes /\ written' = [written EXCEPT ![<<Provider(b), Ticker(b, i)>>] = Append(@, commit)]
    BY FlowIs DEF Commits
  <2> HIDE DEF commit
  <2>2. <<Provider(b), Ticker(b, i)>> \in Providers \X Tickers
    BY <1>2, <1>3
  <2>3. Append(written[<<Provider(b), Ticker(b, i)>>], commit) \in Seq(Commit)
    BY <1>8, <2>1, <2>2, AppendProperties DEF WrittenTypes
  <2>4. QED
    BY <2>1, <2>2, <2>3 DEF WrittenTypes
<1>10. tasks[b][i].end \in 0..LastDay
  BY <1>1 DEF Task
<1>11. QED
  BY <1>2, <1>3, <1>7, <1>8, <1>9, <1>10

\* The steps of the tasks keep the types.
LEMMA TaskKeepsTypes ==
  ASSUME PriceAssumption, FlowInv, NEW b \in Batches, NEW i \in DOMAIN tasks[b],
         TaskStep(b, i) \/ Throttled(b, i) \/ FetchFails(b, i)
  PROVE  FlowInv'
<1>1. PICK new : Prepares(b, i, new) \/ Stores(b, i, new) \/ Reports(b, i, new)
  BY TaskSteps
<1>2. /\ batch[b].state = "running" /\ UNCHANGED <<clock, source>>
      /\ NoFault \/ \E f \in Faults : Fault(b, f)
  BY TaskSteps
<1>3. TasksInv' /\ batch' = batch
  BY <1>1, TaskMoves, FlowIs DEF Prepares, Stores, Reports, Moves
<1>4. FaultTypes' /\ BatchTypes'
  BY <1>2, <1>3, FaultsGrow, FlowIs DEF BatchTypes
<1>5. RowTypes' /\ WrittenTypes'
  <2>1. CASE UNCHANGED <<prices, written>>
    BY <2>1, FlowIs DEF RowTypes, WrittenTypes
  <2>2. CASE Stores(b, i, new)
    BY <1>2, <2>2, CommitTypes DEF Stores
  <2>3. QED
    BY <1>1, <2>1, <2>2 DEF Prepares, Reports
<1>6. EntryTypes'
  <2>1. EntryTypes
    BY FlowIs
  <2>2. CASE lineage' = lineage
    BY <2>1, <2>2 DEF EntryTypes
  <2>3. CASE /\ tasks[b][i].pc = "lineage"
             /\ lineage' = lineage \union {[batch |-> b, task |-> i, status |-> tasks[b][i].status,
                                            rows |-> tasks[b][i].rows]}
    <3>1. TaskIs(tasks[b][i]) /\ tasks[b][i] \in Task /\ tasks[b] \in Seq(Task)
      BY DEF FlowInv, TasksInv, TaskIs
    <3>2. i \in Nat
      BY <3>1, LenProperties
    <3>3. [batch |-> b, task |-> i, status |-> tasks[b][i].status, rows |-> tasks[b][i].rows]
            \in Lineage
      BY <2>3, <3>1, <3>2 DEF Lineage, Task, TaskIs
    <3>4. QED
      BY <2>1, <2>3, <3>3 DEF EntryTypes
  <2>4. QED
    BY <1>1, <2>2, <2>3 DEF Prepares, Stores, Reports
<1>7. QED
  BY <1>2, <1>3, <1>4, <1>5, <1>6, FlowIs, FlowIsNext

\* The steps of a batch: it is started, or cannot be, or has come to its end.
LEMMA BatchMoves ==
  ASSUME FlowInv, NEW b \in Batches, NEW flow \in Flow, NEW new \in Seq(Task),
         batch' = [batch EXCEPT ![b] = flow], tasks' = [tasks EXCEPT ![b] = new],
         \A i \in DOMAIN new : new[i] = NewTask, PriceAssumption,
         Len(new) = IF flow.state = "running" THEN Len(flow.targets) ELSE 0,
         flow.state = "running" => flow.provider \in Providers
  PROVE  /\ TasksInv' /\ BatchTypes'
         /\ batch'[b] = flow /\ tasks'[b] = new
         /\ \A c \in Batches : c # b => batch'[c] = batch[c] /\ tasks'[c] = tasks[c]
<1>1. /\ tasks \in [Batches -> Seq(Task)] /\ batch \in [Batches -> Flow]
      /\ \A c \in Batches : \A i \in DOMAIN tasks[c] : TaskIs(tasks[c][i])
  BY DEF FlowInv, TasksInv, TypeOK
<1>2. /\ tasks' \in [Batches -> Seq(Task)] /\ batch' \in [Batches -> Flow]
      /\ \A c \in Batches : tasks'[c] = IF c = b THEN new ELSE tasks[c]
      /\ \A c \in Batches : batch'[c] = IF c = b THEN flow ELSE batch[c]
  BY <1>1
<1>3. \A c \in Batches : \A i \in DOMAIN tasks'[c] : TaskIs(tasks'[c][i])
  BY <1>1, <1>2, NewTaskIs
<1>4. TasksInv'
  <2>1. \A c \in Batches : \A i \in DOMAIN tasks'[c] : TaskIs(tasks[c][i])'
    BY <1>3 DEF TaskIs
  <2>2. \A c \in Batches :
          Len(tasks'[c]) = IF batch'[c].state = "running" THEN Len(batch'[c].targets) ELSE 0
    BY <1>2 DEF FlowInv, TasksInv
  <2>3. \A c \in Batches : batch'[c].state = "running" => batch'[c].provider \in Providers
    BY <1>2 DEF FlowInv, TasksInv
  <2>4. QED
    BY <1>2, <2>1, <2>2, <2>3 DEF TasksInv
<1>5. QED
  BY <1>2, <1>4 DEF BatchTypes

\* What a summary may be of: the last task of each ticker of the list.
LEMMA SummaryIs ==
  ASSUME PriceAssumption, FlowInv, NEW b \in Batches, batch[b].state = "running",
         NEW last \in [ToSet(batch[b].targets) -> DOMAIN tasks[b]]
  PROVE  /\ IsFiniteSet(DOMAIN last) /\ DOMAIN last = ToSet(batch[b].targets)
         /\ DOMAIN last \subseteq Tickers /\ DOMAIN tasks[b] = DOMAIN batch[b].targets
         /\ IsFiniteSet(DOMAIN tasks[b])
         /\ \A t \in DOMAIN last : tasks[b][last[t]].rows \in Nat
         /\ SumFunction([t \in DOMAIN last |-> tasks[b][last[t]].rows]) \in Nat
<1> DEFINE f == [t \in DOMAIN last |-> tasks[b][last[t]].rows]
<1>1. /\ tasks[b] \in Seq(Task) /\ Len(tasks[b]) = Len(batch[b].targets)
      /\ \A i \in DOMAIN tasks[b] : tasks[b][i] \in Task
  BY DEF FlowInv, TasksInv, TaskIs
<1>2. batch[b].targets \in Seq(Tickers)
  <2>1. batch[b].targets \in TargetLists \union {<<>>}
    BY DEF FlowInv, TypeOK, Flow
  <2>2. QED
    BY <2>1, EmptySeq DEF PriceAssumption
<1>3. PICK list : list = batch[b].targets
  OBVIOUS
<1>4. /\ DOMAIN tasks[b] = 1..Len(list) /\ DOMAIN list = 1..Len(list)
      /\ Len(list) \in Nat /\ list \in [1..Len(list) -> Tickers]
  BY <1>1, <1>2, <1>3, LenProperties
<1>5. ToSet(list) \subseteq Tickers /\ IsFiniteSet(ToSet(list))
  <2>1. list \in Surjection(1..Len(list), ToSet(list))
    BY <1>4 DEF Surjection, ToSet
  <2>2. IsFiniteSet(1..Len(list))
    <3>1. PICK len \in Int : len = Len(list)
      BY <1>4
    <3>2. IsFiniteSet(1..len)
      BY FS_Interval
    <3>3. QED
      BY <3>1, <3>2
  <2>3. QED
    BY <1>4, <2>1, <2>2, FS_Surjection DEF ToSet
<1>6. DOMAIN last = ToSet(list)
  BY <1>3
<1>7. \A t \in DOMAIN last : tasks[b][last[t]].rows \in Nat
  BY <1>1 DEF Task
<1>8. DOMAIN f = DOMAIN last /\ \A t \in DOMAIN f : f[t] \in Nat
  BY <1>7
<1>9. SumFunction(f) \in Nat
  <2> HIDE DEF f
  <2> QED BY <1>5, <1>6, <1>8, SumIsNat DEF SumFunction
<1>10. IsFiniteSet(DOMAIN tasks[b])
  BY <1>4, FS_Interval
<1>11. QED
  BY <1>3, <1>4, <1>5, <1>6, <1>7, <1>9, <1>10

\* The tickers whose last task succeeded, and the summary that is made of them.
Succeeded(b, last) == {t \in DOMAIN last : tasks[b][last[t]].status = "success"}
SummarisedAs(b, last) ==
  /\ \A t \in DOMAIN last : batch[b].targets[last[t]] = t
  /\ batch' = [batch EXCEPT
       ![b].state   = IF AggregateStatus(Succeeded(b, last), DOMAIN last \ Succeeded(b, last))
                           = "failed" THEN "raised" ELSE "returned",
       ![b].summary = [status  |-> AggregateStatus(Succeeded(b, last),
                                                   DOMAIN last \ Succeeded(b, last)),
                       success |-> Succeeded(b, last),
                       failed  |-> DOMAIN last \ Succeeded(b, last),
                       rows    |-> SumFunction([t \in DOMAIN last |-> tasks[b][last[t]].rows])]]

\* The steps of the batches keep the types.
LEMMA BatchKeepsTypes ==
  ASSUME PriceAssumption, FlowInv, NEW b \in Batches,
         \/ \E p \in Providers, targets \in TargetLists : Start(b, p, targets)
         \/ \E p \in Providers : StartFails(b, p)
         \/ Summarise(b) \/ Kill(b)
  PROVE  FlowInv'
<1>1. /\ batch[b] \in Flow /\ batch \in [Batches -> Flow] /\ tasks \in [Batches -> Seq(Task)]
      /\ <<>> \in Seq(Task) /\ Len(<<>>) = 0 /\ DOMAIN <<>> = {}
  BY EmptySeq DEF FlowInv, TypeOK
<1>2. /\ UNCHANGED <<clock, source, prices, lineage, written>>
      /\ NoFault \/ \E f \in Faults : Fault(b, f)
  BY DEF Start, StartFails, Summarise, Kill, Fault
<1>3. SUFFICES TasksInv' /\ BatchTypes'
  BY <1>2, FaultsGrow, FlowIs, FlowIsNext DEF RowTypes, EntryTypes, WrittenTypes
<1>4. ASSUME NEW p \in Providers, NEW targets \in TargetLists, Start(b, p, targets)
      PROVE  TasksInv' /\ BatchTypes'
  <2> DEFINE flow == [state    |-> IF targets = <<>> THEN "returned" ELSE "running",
                      provider |-> p,
                      targets  |-> targets,
                      summary  |-> [NoSummary EXCEPT !.status = IF targets = <<>> THEN "noop" ELSE @]]
             new  == [i \in DOMAIN targets |-> NewTask]
  <2>1. batch' = [batch EXCEPT ![b] = flow] /\ tasks' = [tasks EXCEPT ![b] = new]
    BY <1>4 DEF Start
  <2>2. flow \in Flow
    BY DEF Flow, Summary, NoSummary
  <2>3. targets \in Seq(Tickers)
    BY DEF PriceAssumption
  <2>4. new \in Seq(Task) /\ Len(new) = Len(targets)
    <3>1. DOMAIN targets = 1..Len(targets) /\ Len(targets) \in Nat
      BY <2>3, LenProperties
    <3>2. NewTask \in Task
      BY NewTaskIs DEF TaskIs
    <3>3. QED
      BY <3>1, <3>2
  <2>5. /\ \A i \in DOMAIN new : new[i] = NewTask
        /\ flow.state = "running" <=> targets # <<>>
        /\ flow.targets = targets /\ flow.provider = p
        /\ targets = <<>> => Len(targets) = 0
    BY EmptySeq
  <2> HIDE DEF new, flow
  <2>6. QED
    BY <2>1, <2>2, <2>4, <2>5, BatchMoves
<1>5. ASSUME NEW p \in Providers, StartFails(b, p)
      PROVE  TasksInv' /\ BatchTypes'
  <2> DEFINE flow == [batch[b] EXCEPT !.state = "raised", !.provider = p]
  <2>1. batch' = [batch EXCEPT ![b] = flow] /\ tasks' = tasks /\ batch[b].state = "idle"
    BY <1>1, <1>5 DEF StartFails
  <2>2. flow \in Flow /\ flow.state = "raised"
    BY <1>1 DEF Flow
  <2> HIDE DEF flow
  <2>3. Len(tasks[b]) = 0 /\ tasks[b] \in Seq(Task)
    BY <1>1, <2>1 DEF FlowInv, TasksInv
  <2>4. DOMAIN tasks[b] = {} /\ tasks' = [tasks EXCEPT ![b] = tasks[b]]
    BY <1>1, <2>1, <2>3, LenProperties
  <2>5. QED
    BY <2>1, <2>2, <2>3, <2>4, BatchMoves
<1>6. ASSUME Summarise(b)
      PROVE  TasksInv' /\ BatchTypes'
  <2>0. batch[b].state = "running" /\ tasks' = [tasks EXCEPT ![b] = <<>>]
    BY <1>6 DEF Summarise
  <2>1. PICK last \in [ToSet(batch[b].targets) -> DOMAIN tasks[b]],
             success \in SUBSET ToSet(batch[b].targets),
             status \in {"success", "failed", "partial"} :
          batch' = [batch EXCEPT
                     ![b].state   = IF status = "failed" THEN "raised" ELSE "returned",
                     ![b].summary = [status |-> status, success |-> success,
                                     failed |-> DOMAIN last \ success,
                                     rows |-> SumFunction([t \in DOMAIN last |->
                                                             tasks[b][last[t]].rows])]]
    <3>1. PICK last \in [ToSet(batch[b].targets) -> DOMAIN tasks[b]] : SummarisedAs(b, last)
      BY <1>6, Zenon DEF Summarise, SummarisedAs, Succeeded
    <3>2. Succeeded(b, last) \in SUBSET ToSet(batch[b].targets)
      BY DEF Succeeded
    <3>3. AggregateStatus(Succeeded(b, last), DOMAIN last \ Succeeded(b, last))
            \in {"success", "failed", "partial"}
      BY DEF AggregateStatus
    <3>4. QED
      BY <3>1, <3>2, <3>3, Zenon DEF SummarisedAs
  <2>2. PICK rows : rows = SumFunction([t \in DOMAIN last |-> tasks[b][last[t]].rows])
    OBVIOUS
  <2>3. rows \in Nat /\ DOMAIN last \subseteq Tickers
    BY <2>0, <2>2, SummaryIs
  <2>4. PICK summary : summary = [status |-> status, success |-> success,
                                  failed |-> DOMAIN last \ success, rows |-> rows]
    OBVIOUS
  <2>5. summary \in Summary
    BY <2>3, <2>4 DEF Summary
  <2> DEFINE flow == [batch[b] EXCEPT !.state = IF status = "failed" THEN "raised" ELSE "returned",
                                      !.summary = summary]
  <2>6. batch' = [batch EXCEPT ![b] = flow]
    BY <1>1, <2>1, <2>2, <2>4
  <2>7. flow \in Flow /\ flow.state # "running"
    BY <1>1, <2>5 DEF Flow
  <2> HIDE DEF flow
  <2>8. PICK new : new = <<>>
    OBVIOUS
  <2>9. new \in Seq(Task) /\ Len(new) = 0 /\ DOMAIN new = {} /\ tasks' = [tasks EXCEPT ![b] = new]
    BY <1>1, <2>0, <2>8
  <2>10. QED
    BY <2>6, <2>7, <2>9, BatchMoves
<1>7. ASSUME Kill(b)
      PROVE  TasksInv' /\ BatchTypes'
  <2> DEFINE flow == [batch[b] EXCEPT !.state = "killed"]
  <2>1. batch' = [batch EXCEPT ![b] = flow] /\ tasks' = [tasks EXCEPT ![b] = <<>>]
    BY <1>1, <1>7 DEF Kill
  <2>2. flow \in Flow /\ flow.state # "running"
    BY <1>1 DEF Flow
  <2> HIDE DEF flow
  <2>3. PICK new : new = <<>>
    OBVIOUS
  <2>4. new \in Seq(Task) /\ Len(new) = 0 /\ DOMAIN new = {} /\ tasks' = [tasks EXCEPT ![b] = new]
    BY <1>1, <2>1, <2>3
  <2>5. QED
    BY <2>1, <2>2, <2>4, BatchMoves
<1>8. QED
  BY <1>4, <1>5, <1>6, <1>7

\* The flows begin in a state of these types.
LEMMA FlowBegins == ASSUME PriceAssumption, Init PROVE FlowInv
<1>1. /\ clock = 0 /\ source \in Sources /\ prices = {} /\ lineage = {} /\ faults = 0
      /\ batch = [b \in Batches |-> [state |-> "idle", provider |-> "none",
                                     targets |-> <<>>, summary |-> NoSummary]]
      /\ tasks = [b \in Batches |-> <<>>]
      /\ written = [s \in Providers \X Tickers |-> <<>>]
      /\ hit = [b \in Batches |-> {}]
  BY DEF Init
<1>2. BatchTypes
  BY <1>1 DEF BatchTypes, Flow, Summary, NoSummary
<1>3. TasksInv
  <2>1. <<>> \in Seq(Task) /\ Len(<<>>) = 0 /\ DOMAIN <<>> = {}
    BY EmptySeq
  <2>2. QED
    BY <1>1, <2>1 DEF TasksInv
<1>4. WrittenTypes /\ FaultTypes /\ RowTypes /\ EntryTypes
  BY <1>1, EmptySeq DEF WrittenTypes, FaultTypes, RowTypes, EntryTypes
<1>5. clock \in 0..(2 * LastDay + 1)
  BY <1>1 DEF PriceAssumption
<1>6. QED
  BY <1>1, <1>2, <1>3, <1>4, <1>5, FlowIs

\* Every step keeps the types.
LEMMA FlowStays ==
  ASSUME PriceAssumption, FlowInv, IngestionNext \/ Beside
  PROVE  FlowInv'
<1>1. CASE Tick
  <2>1. /\ UNCHANGED <<source, prices, lineage, batch, tasks, written, faults, hit>>
        /\ clock < 2 * LastDay + 1 /\ clock' = clock + 1 /\ clock \in 0..(2 * LastDay + 1)
        /\ LastDay \in Nat
    BY <1>1, FlowIs DEF Tick, flowVars, PriceAssumption
  <2>2. clock' \in 0..(2 * LastDay + 1)
    BY <2>1
  <2>3. QED
    BY <2>1, <2>2 DEF FlowInv, TypeOK, TasksInv, TaskIs
<1>2. ASSUME NEW b \in Batches,
             \/ \E p \in Providers, targets \in TargetLists : Start(b, p, targets)
             \/ \E p \in Providers : StartFails(b, p)
             \/ Summarise(b) \/ Kill(b)
      PROVE  FlowInv'
  BY <1>2, BatchKeepsTypes
<1>3. ASSUME NEW b \in Batches, NEW i \in DOMAIN tasks[b],
             TaskStep(b, i) \/ Throttled(b, i) \/ FetchFails(b, i)
      PROVE  FlowInv'
  BY <1>3, TaskKeepsTypes
<1>4. CASE Beside
  BY <1>4 DEF Beside, FlowInv, TypeOK, TasksInv, TaskIs
<1>5. QED
  BY <1>1, <1>2, <1>3, <1>4 DEF IngestionNext

\* No task goes on from more pages than there are days.
LEMMA DownloadsAreFinite == ASSUME PriceAssumption, FlowInv PROVE DownloadEnds
<1> SUFFICES ASSUME NEW b \in Batches, NEW i \in DOMAIN tasks[b]
             PROVE  tasks[b][i].pages <= Cardinality(Days)
  BY DEF DownloadEnds
<1>1. tasks[b][i].pages = Cardinality(tasks[b][i].seen) /\ tasks[b][i].seen \subseteq Days
  BY DEF FlowInv, TasksInv, TaskIs, Task
<1>2. QED
  BY <1>1, DaysAre, FS_Subset

----------------------------------------------------------------------------
(* What a batch says of its commits.                                       *)

\* Each task commits once, and what it says of it is right, unless it cannot know.
Tracked(b) ==
  /\ \A c, d \in CommitsOf(b) : c.task = d.task => c = d
  /\ batch[b].state = "running" =>
       \A c \in CommitsOf(b) :
         /\ c.task \in DOMAIN tasks[b]
         /\ tasks[b][c.task].pc \in {"lineage", "done"}
         /\ \/ hit[b] \intersect HalfKnown # {}
            \/ tasks[b][c.task].status = "success" /\ tasks[b][c.task].rows = c.rows

\* A task that counts rows has stored them.
Counted(b) == \A i \in DOMAIN tasks[b] :
  tasks[b][i].rows > 0 => /\ tasks[b][i].status = "success"
                          /\ \E c \in CommitsOf(b) : c.task = i /\ c.rows = tasks[b][i].rows

\* A batch that has not begun has done nothing.
Blank(b) == batch[b].state = "idle" =>
  CommitsOf(b) = {} /\ batch[b].targets = <<>> /\ batch[b].summary = NoSummary

\* SummaryIsTrue, of one batch.
Summed(b) == batch[b].state \in {"returned", "raised"} =>
  /\ batch[b].summary.rows <= RowsOf(b)
  /\ batch[b].summary.status = "success" => batch[b].summary.success = ToSet(batch[b].targets)
  /\ IsInjective(batch[b].targets) /\ hit[b] \intersect HalfKnown = {} =>
       /\ batch[b].summary.rows = RowsOf(b)
       /\ batch[b].state = "raised" => CommitsOf(b) = {}

\* The two parts of WritesAreRecorded.
Accounted(b) == \A c \in CommitsOf(b) :
  \/ [batch |-> b, task |-> c.task, status |-> "success", rows |-> c.rows] \in lineage
  \/ At(b, c.task, "lineage") /\ tasks[b][c.task] = Ended("success", c.rows)
  \/ hit[b] \intersect (HalfKnown \union {"db_error", "kill"}) # {}
Entered == \A entry \in lineage : entry.rows > 0 =>
  \E c \in CommitsOf(entry.batch) : c.task = entry.task /\ c.rows = entry.rows

Books(b) == Tracked(b) /\ Counted(b) /\ Blank(b) /\ Summed(b) /\ Accounted(b)
BooksInv == Entered /\ \A b \in Batches : Books(b)

\* Commits have a task and rows, and a batch of a few tasks has made a few of them.
LEMMA CommitsAre ==
  ASSUME FlowInv, NEW b \in Batches
  PROVE  CommitsOf(b) \subseteq Commit
<1>1. written \in [Providers \X Tickers -> Seq(Commit)]
  BY DEF FlowInv, TypeOK
<1>2. ASSUME NEW s \in DOMAIN written PROVE ToSet(written[s]) \subseteq Commit
  <2>1. written[s] \in Seq(Commit)
    BY <1>1
  <2>2. \A j \in DOMAIN written[s] : written[s][j] \in Commit
    BY <2>1, ElementOfSeq, LenProperties
  <2>3. QED
    BY <2>2 DEF ToSet
<1>3. QED
  BY <1>2 DEF CommitsOf

\* Without a commit, every batch has those that it had.
LEMMA CommitsKept ==
  ASSUME written' = written
  PROVE  \A b \in Batches : CommitsOf(b)' = CommitsOf(b)
BY DEF CommitsOf

\* A task adds one to those of its batch, and none to those of the others.
TheCommit(b, i) == [batch |-> b, task |-> i, end |-> tasks[b][i].end,
                    rows |-> Cardinality(tasks[b][i].frame)]

\* Every commit is remembered, with those before it.
LEMMA CommitAdded ==
  ASSUME PriceAssumption, FlowInv, NEW b \in Batches, NEW i \in DOMAIN tasks[b],
         batch[b].state = "running", Commits(b, i)
  PROVE  /\ CommitsOf(b)' = CommitsOf(b) \union {TheCommit(b, i)}
         /\ \A c \in Batches : c # b => CommitsOf(c)' = CommitsOf(c)
<1> DEFINE key == <<Provider(b), Ticker(b, i)>>
           all == UNION {ToSet(written[s]) : s \in DOMAIN written}
           allNext == UNION {ToSet(written'[s]) : s \in DOMAIN written'}
<1>1. /\ written \in [Providers \X Tickers -> Seq(Commit)]
      /\ key \in Providers \X Tickers
  BY CommitTypes DEF FlowInv, TypeOK
<1>2. written' = [written EXCEPT ![key] = Append(@, TheCommit(b, i))]
  BY DEF Commits, TheCommit
<1>3. PICK row : row = written[key]
  OBVIOUS
<1>4. row \in Seq(Commit)
  BY <1>1, <1>3
<1>5. PICK new : new = TheCommit(b, i)
  OBVIOUS
<1>6. ToSet(Append(row, new)) = ToSet(row) \union {new}
  <2>1. Append(row, new) \in Seq(Commit \union {new}) /\ row \in Seq(Commit \union {new})
    BY <1>4, SeqMonotonic, AppendProperties
  <2>2. /\ Len(row) \in Nat /\ DOMAIN row = 1..Len(row)
        /\ DOMAIN Append(row, new) = 1..(Len(row) + 1)
        /\ \A j \in 1..Len(row) : Append(row, new)[j] = row[j]
        /\ Append(row, new)[Len(row) + 1] = new
    BY <2>1, LenProperties, AppendProperties
  <2>3. QED
    BY <2>2 DEF ToSet
<1>7. /\ DOMAIN written' = DOMAIN written /\ key \in DOMAIN written
      /\ \A s \in DOMAIN written : ToSet(written'[s]) =
           IF s = key THEN ToSet(written[s]) \union {new} ELSE ToSet(written[s])
  BY <1>1, <1>2, <1>3, <1>5, <1>6
<1> HIDE DEF key
<1>8. allNext = all \union {new}
  BY <1>7
<1>9. new.batch = b
  BY <1>5 DEF TheCommit
<1>10. \A c : CommitsOf(c) = {x \in all : x.batch = c}
  BY DEF CommitsOf
<1>11. \A c \in Batches : CommitsOf(c)' = {x \in allNext : x.batch = c}
  BY DEF CommitsOf
<1> HIDE DEF all, allNext
<1>12. QED
  BY <1>5, <1>8, <1>9, <1>10, <1>11

\* A step of another batch leaves the books of this one as they are.
LEMMA BooksElsewhere ==
  ASSUME NEW b \in Batches, Books(b), batch'[b] = batch[b], tasks'[b] = tasks[b],
         hit'[b] = hit[b], CommitsOf(b)' = CommitsOf(b), lineage \subseteq lineage'
  PROVE  Books(b)'
<1>1. Tracked(b)'
  BY DEF Books, Tracked
<1>2. Counted(b)'
  BY DEF Books, Counted
<1>3. Blank(b)'
  BY DEF Books, Blank
<1>4. RowsOf(b)' = RowsOf(b)
  BY DEF RowsOf
<1>5. Summed(b)'
  BY <1>4 DEF Books, Summed
<1>6. Accounted(b)'
  BY DEF Books, Accounted, At
<1>7. QED
  BY <1>1, <1>2, <1>3, <1>5, <1>6 DEF Books

\* What an entry of lineage is about goes on to have been done.
LEMMA EnteredStays ==
  ASSUME FlowInv, Entered, lineage' = lineage,
         \A b \in Batches : CommitsOf(b) \subseteq CommitsOf(b)'
  PROVE  Entered'
<1>1. \A entry \in lineage : entry.batch \in Batches
  BY DEF FlowInv, TypeOK, Lineage
<1>2. QED
  BY <1>1 DEF Entered

\* A failure that befalls a batch is remembered.
LEMMA FaultIsHit ==
  ASSUME FlowInv, NEW b \in Batches, NEW f, Fault(b, f)
  PROVE  f \in hit'[b]
<1>1. hit \in [Batches -> SUBSET Faults]
  BY DEF FlowInv, TypeOK
<1>2. QED
  BY <1>1 DEF Fault

\* Steps before the commit: the batch has none of this task, which counts no rows.
LEMMA PreparesBooks ==
  ASSUME PriceAssumption, FlowInv, NEW b \in Batches, NEW i \in DOMAIN tasks[b],
         batch[b].state = "running", NEW new, Prepares(b, i, new), Books(b),
         hit[b] \subseteq hit'[b]
  PROVE  Books(b)'
<1>1. /\ tasks'[b][i] = new /\ DOMAIN tasks'[b] = DOMAIN tasks[b]
      /\ \A j \in DOMAIN tasks[b] : j # i => tasks'[b][j] = tasks[b][j]
      /\ batch' = batch /\ new.rows = 0 /\ tasks[b][i].pc \in {"queued", "fetch", "upsert"}
      /\ written' = written /\ lineage' = lineage
  BY TaskMoves DEF FlowInv, Prepares, Moves
<1>2. CommitsOf(b)' = CommitsOf(b)
  BY <1>1, CommitsKept
<1>3. \A c \in CommitsOf(b) : /\ c.task # i /\ c.task \in DOMAIN tasks[b]
                              /\ tasks'[b][c.task] = tasks[b][c.task]
  BY <1>1 DEF Books, Tracked
<1>4. Tracked(b)'
  BY <1>1, <1>2, <1>3 DEF Books, Tracked
<1>5. Counted(b)'
  BY <1>1, <1>2 DEF Books, Counted
<1>6. Blank(b)' /\ Summed(b)'
  BY <1>1 DEF Blank, Summed
<1>7. Accounted(b)'
  BY <1>1, <1>2, <1>3 DEF Books, Accounted, At
<1>8. QED
  BY <1>4, <1>5, <1>6, <1>7 DEF Books

\* The commit: the task knows of it, or a half-known failure has befallen the batch.
LEMMA StoresBooks ==
  ASSUME PriceAssumption, FlowInv, NEW b \in Batches, NEW i \in DOMAIN tasks[b],
         batch[b].state = "running", NEW new, Stores(b, i, new), Books(b),
         hit[b] \subseteq hit'[b]
  PROVE  Books(b)'
<1>1. /\ tasks'[b][i] = new /\ DOMAIN tasks'[b] = DOMAIN tasks[b]
      /\ \A j \in DOMAIN tasks[b] : j # i => tasks'[b][j] = tasks[b][j]
      /\ batch' = batch /\ tasks[b][i].pc = "upsert" /\ lineage' = lineage
  BY TaskMoves DEF FlowInv, Stores, Moves
<1>2. PICK commit : commit = TheCommit(b, i)
  OBVIOUS
<1>3. CommitsOf(b)' = CommitsOf(b) \union {commit}
  BY <1>2, CommitAdded DEF Stores
<1>4. PICK rows : rows = Cardinality(tasks[b][i].frame)
  OBVIOUS
<1>5. /\ commit.task = i /\ commit.rows = rows
      /\ new.pc = "lineage"
      /\ \/ new = Ended("success", rows) /\ new.status = "success" /\ new.rows = rows
         \/ new.rows = 0 /\ "commit_unknown" \in hit'[b]
  <2>1. rows \in Nat
    BY <1>4, FrameIsFinite DEF FlowInv, TasksInv, TaskIs, Task
  <2>2. commit.task = i /\ commit.rows = rows
    BY <1>2, <1>4 DEF TheCommit
  <2>3. CASE new = Ended("success", rows)
    BY <2>1, <2>2, <2>3, EndedIs
  <2>4. CASE new = Ended("failed", 0) /\ Fault(b, "commit_unknown")
    BY <2>2, <2>4, EndedIs, FaultIsHit
  <2>5. QED
    BY <1>4, <2>3, <2>4 DEF Stores
<1>6. \A c \in CommitsOf(b) : /\ c.task # i /\ c.task \in DOMAIN tasks[b]
                              /\ tasks'[b][c.task] = tasks[b][c.task]
  BY <1>1 DEF Books, Tracked
<1>7. Tracked(b)'
  <2>1. \A c, d \in CommitsOf(b)' : c.task = d.task => c = d
    BY <1>3, <1>5, <1>6 DEF Books, Tracked
  <2>2. ASSUME NEW c \in CommitsOf(b)'
        PROVE  /\ c.task \in DOMAIN tasks'[b]
               /\ tasks'[b][c.task].pc \in {"lineage", "done"}
               /\ \/ hit'[b] \intersect HalfKnown # {}
                  \/ tasks'[b][c.task].status = "success" /\ tasks'[b][c.task].rows = c.rows
    <3>1. CASE c \in CommitsOf(b)
      BY <1>1, <1>6, <3>1 DEF Books, Tracked
    <3>2. CASE c = commit
      BY <1>1, <1>5, <3>2 DEF HalfKnown
    <3>3. QED
      BY <1>3, <3>1, <3>2
  <2>3. QED
    BY <2>1, <2>2 DEF Tracked
<1>8. Counted(b)'
  <2>1. ASSUME NEW j \in DOMAIN tasks'[b], tasks'[b][j].rows > 0
        PROVE  /\ tasks'[b][j].status = "success"
               /\ \E c \in CommitsOf(b)' : c.task = j /\ c.rows = tasks'[b][j].rows
    <3>1. CASE j # i
      BY <1>1, <1>3, <2>1, <3>1 DEF Books, Counted
    <3>2. CASE j = i
      BY <1>1, <1>3, <1>5, <2>1, <3>2
    <3>3. QED
      BY <3>1, <3>2
  <2>2. QED
    BY <2>1 DEF Counted
<1>9. Blank(b)' /\ Summed(b)'
  BY <1>1 DEF Blank, Summed
<1>10. Accounted(b)'
  <2>1. ASSUME NEW c \in CommitsOf(b)'
        PROVE  \/ [batch |-> b, task |-> c.task, status |-> "success", rows |-> c.rows] \in lineage
               \/ At(b, c.task, "lineage")' /\ tasks'[b][c.task] = Ended("success", c.rows)
               \/ hit'[b] \intersect (HalfKnown \union {"db_error", "kill"}) # {}
    <3>1. CASE c \in CommitsOf(b)
      BY <1>1, <1>6, <3>1 DEF Books, Accounted, At
    <3>2. CASE c = commit
      BY <1>1, <1>5, <3>2 DEF HalfKnown, At
    <3>3. QED
      BY <1>3, <3>1, <3>2
  <2>2. QED
    BY <1>1, <2>1 DEF Accounted
<1>11. QED
  BY <1>7, <1>8, <1>9, <1>10 DEF Books

\* The end of a task: its lineage row says what it knows, or a failure has kept it from it.
LEMMA ReportsBooks ==
  ASSUME PriceAssumption, FlowInv, NEW b \in Batches, NEW i \in DOMAIN tasks[b],
         batch[b].state = "running", NEW new, Reports(b, i, new), Books(b), Entered,
         hit[b] \subseteq hit'[b]
  PROVE  Books(b)' /\ Entered'
<1> DEFINE task == tasks[b][i]
           entry == [batch |-> b, task |-> i, status |-> task.status, rows |-> task.rows]
<1>1. /\ tasks'[b][i] = new /\ DOMAIN tasks'[b] = DOMAIN tasks[b]
      /\ \A j \in DOMAIN tasks[b] : j # i => tasks'[b][j] = tasks[b][j]
      /\ batch' = batch /\ task.pc = "lineage" /\ written' = written
  BY TaskMoves DEF FlowInv, Reports, Moves
<1>2. \A c \in Batches : CommitsOf(c)' = CommitsOf(c)
  BY <1>1, CommitsKept
<1>3. task.status \in {"success", "failed"} /\ task.rows \in Nat
  BY <1>1 DEF FlowInv, TasksInv, TaskIs, Task
<1>4. /\ new.pc = "done"
      /\ \/ /\ new.status = task.status /\ new.rows = task.rows
            /\ lineage' = lineage \union {entry} \/ (lineage' = lineage /\ "db_error" \in hit'[b])
         \/ new.rows = 0 /\ "capture_error" \in hit'[b] /\ lineage' = lineage
  BY <1>3, EndedIs, FaultIsHit DEF Reports
<1>5. Tracked(b)'
  <2>1. ASSUME NEW c \in CommitsOf(b)
        PROVE  /\ c.task \in DOMAIN tasks'[b]
               /\ tasks'[b][c.task].pc \in {"lineage", "done"}
               /\ \/ hit'[b] \intersect HalfKnown # {}
                  \/ tasks'[b][c.task].status = "success" /\ tasks'[b][c.task].rows = c.rows
    <3>1. CASE c.task # i
      BY <1>1, <3>1 DEF Books, Tracked
    <3>2. CASE c.task = i
      BY <1>1, <1>4, <3>2 DEF Books, Tracked, HalfKnown
    <3>3. QED
      BY <3>1, <3>2
  <2>2. QED
    BY <1>1, <1>2, <2>1 DEF Books, Tracked
<1>6. Counted(b)'
  BY <1>1, <1>2, <1>4 DEF Books, Counted
<1>7. Blank(b)' /\ Summed(b)'
  BY <1>1 DEF Blank, Summed
<1>8. Accounted(b)'
  <2>1. ASSUME NEW c \in CommitsOf(b)
        PROVE  \/ [batch |-> b, task |-> c.task, status |-> "success", rows |-> c.rows] \in lineage'
               \/ At(b, c.task, "lineage")' /\ tasks'[b][c.task] = Ended("success", c.rows)
               \/ hit'[b] \intersect (HalfKnown \union {"db_error", "kill"}) # {}
    <3>1. CASE \/ [batch |-> b, task |-> c.task, status |-> "success", rows |-> c.rows] \in lineage
               \/ hit[b] \intersect (HalfKnown \union {"db_error", "kill"}) # {}
      BY <1>4, <3>1
    <3>2. CASE At(b, c.task, "lineage") /\ tasks[b][c.task] = Ended("success", c.rows)
      <4>1. CASE c.task # i
        BY <1>1, <3>2, <4>1 DEF At
      <4>2. CASE c.task = i
        <5>1. task.status = "success" /\ task.rows = c.rows
          BY <3>2, <4>2 DEF Ended, NewTask
        <5>2. QED
          BY <1>4, <4>2, <5>1 DEF HalfKnown
      <4>3. QED
        BY <4>1, <4>2
    <3>3. QED
      BY <3>1, <3>2 DEF Books, Accounted
  <2>2. QED
    BY <1>2, <2>1 DEF Accounted
<1>9. Entered'
  <2>1. CASE lineage' = lineage
    BY <1>2, <2>1, EnteredStays
  <2>2. CASE lineage' = lineage \union {entry}
    <3>1. task.rows > 0 => \E c \in CommitsOf(b) : c.task = i /\ c.rows = task.rows
      BY DEF Books, Counted
    <3>2. \A e \in lineage : e.batch \in Batches
      BY DEF FlowInv, TypeOK, Lineage
    <3>3. entry.batch = b /\ entry.task = i /\ entry.rows = task.rows
      OBVIOUS
    <3> HIDE DEF entry
    <3>4. QED
      BY <1>2, <2>2, <3>1, <3>2, <3>3 DEF Entered
  <2>3. QED
    BY <1>4, <2>1, <2>2
<1>10. QED
  BY <1>5, <1>6, <1>7, <1>8, <1>9 DEF Books

\* The books of every batch are kept by the steps of a task.
LEMMA TaskKeepsBooks ==
  ASSUME PriceAssumption, FlowInv, BooksInv, NEW b \in Batches, NEW i \in DOMAIN tasks[b],
         TaskStep(b, i) \/ Throttled(b, i) \/ FetchFails(b, i)
  PROVE  BooksInv'
<1>1. PICK new : Prepares(b, i, new) \/ Stores(b, i, new) \/ Reports(b, i, new)
  BY TaskSteps
<1>2. batch[b].state = "running" /\ (NoFault \/ \E f \in Faults : Fault(b, f))
  BY TaskSteps
<1>3. \A c \in Batches : hit[c] \subseteq hit'[c] /\ (c # b => hit'[c] = hit[c])
  BY <1>2, FaultsGrow, FlowIs
<1>4. \A c \in Batches : c # b => tasks'[c] = tasks[c] /\ batch'[c] = batch[c]
  BY <1>1 DEF FlowInv, TypeOK, Prepares, Stores, Reports, Moves, Becomes
<1>5. /\ lineage \subseteq lineage'
      /\ \A c \in Batches : /\ CommitsOf(c) \subseteq CommitsOf(c)'
                            /\ c # b => CommitsOf(c)' = CommitsOf(c)
  BY <1>1, <1>2, CommitsKept, CommitAdded DEF Prepares, Stores, Reports
<1>6. \A c \in Batches : c # b => Books(c)'
  BY <1>3, <1>4, <1>5, BooksElsewhere DEF BooksInv
<1>7. Books(b)' /\ Entered'
  <2>1. CASE Prepares(b, i, new)
    <3>1. lineage' = lineage
      BY <2>1 DEF Prepares
    <3>2. QED
      BY <1>2, <1>3, <1>5, <2>1, <3>1, PreparesBooks, EnteredStays DEF BooksInv
  <2>2. CASE Stores(b, i, new)
    <3>1. lineage' = lineage
      BY <2>2 DEF Stores
    <3>2. QED
      BY <1>2, <1>3, <1>5, <2>2, <3>1, StoresBooks, EnteredStays DEF BooksInv
  <2>3. CASE Reports(b, i, new)
    BY <1>2, <1>3, <2>3, ReportsBooks DEF BooksInv
  <2>4. QED
    BY <1>1, <2>1, <2>2, <2>3
<1>8. QED
  BY <1>6, <1>7 DEF BooksInv

\* What a batch reports when all its tasks have come to their end.
LEMMA SummaryCounts ==
  ASSUME PriceAssumption, FlowInv, NEW b \in Batches, batch[b].state = "running", Books(b),
         NEW last \in [ToSet(batch[b].targets) -> DOMAIN tasks[b]],
         \A t \in DOMAIN last : batch[b].targets[last[t]] = t,
         NEW rows, rows = SumFunction([t \in DOMAIN last |-> tasks[b][last[t]].rows])
  PROVE  /\ rows <= RowsOf(b)
         /\ IsInjective(batch[b].targets) /\ hit[b] \intersect HalfKnown = {} =>
              /\ rows = RowsOf(b)
              /\ Succeeded(b, last) = {} => CommitsOf(b) = {}
<1> DEFINE S == DOMAIN last
           f == [t \in S |-> tasks[b][last[t]].rows]
           T == CommitsOf(b)
           g == [c \in T |-> c.rows]
<1>1. /\ IsFiniteSet(S) /\ S = ToSet(batch[b].targets) /\ IsFiniteSet(DOMAIN tasks[b])
      /\ DOMAIN tasks[b] = DOMAIN batch[b].targets
      /\ \A t \in S : f[t] = tasks[b][last[t]].rows /\ f[t] \in Nat
      /\ rows = SumFunctionOnSet(f, S)
  BY SummaryIs DEF SumFunction
<1>2. /\ T \subseteq Commit /\ \A c \in T : g[c] = c.rows /\ g[c] \in Nat
      /\ RowsOf(b) = SumFunctionOnSet(g, T)
  BY CommitsAre DEF RowsOf, SumFunction, Commit
<1>3. \A c, d \in T : c.task = d.task => c = d
  BY DEF Books, Tracked
<1>4. \A c \in T : /\ c.task \in DOMAIN tasks[b]
                   /\ \/ hit[b] \intersect HalfKnown # {}
                      \/ tasks[b][c.task].status = "success" /\ tasks[b][c.task].rows = c.rows
  BY DEF Books, Tracked
<1>5. \A t \in S : f[t] > 0 => \E c \in T : c.task = last[t] /\ c.rows = f[t]
  BY <1>1 DEF Books, Counted
<1>6. \A t \in S : last[t] \in DOMAIN tasks[b] /\ batch[b].targets[last[t]] = t
  OBVIOUS
<1>7. IsFiniteSet(T)
  <2> DEFINE h == [c \in T |-> c.task]
  <2>1. h \in [T -> DOMAIN tasks[b]] /\ \A c, d \in T : h[c] = h[d] => c = d
    BY <1>3, <1>4
  <2> HIDE DEF h, T
  <2>2. h \in Injection(T, DOMAIN tasks[b])
    BY <2>1 DEF Injection, IsInjective
  <2>3. QED
    BY <1>1, <2>2, FS_Injection
<1> HIDE DEF T, f, g
<1>8. rows <= RowsOf(b)
  <2> DEFINE P == {t \in S : f[t] > 0}
             h == [t \in P |-> CHOOSE c \in T : c.task = last[t] /\ c.rows = f[t]]
  <2>1. IsFiniteSet(P) /\ P \subseteq S /\ \A t \in S \ P : f[t] = 0
    BY <1>1, FS_Subset
  <2>2. \A t \in P : h[t] \in T /\ h[t].task = last[t] /\ h[t].rows = f[t]
    BY <1>5
  <2> HIDE DEF P, h, S
  <2>3. ASSUME NEW t \in P, NEW u \in P, h[t] = h[u] PROVE t = u
    <3>1. last[t] = last[u]
      BY <2>2, <2>3
    <3>2. t = batch[b].targets[last[t]] /\ u = batch[b].targets[last[u]]
      BY <1>6, <2>1
    <3>3. QED
      BY <3>1, <3>2, Zenon
  <2>4. \A t \in P : h[t] \in T /\ f[t] <= g[h[t]] /\ f[t] \in Nat
    <3>1. ASSUME NEW t \in P PROVE f[t] = g[h[t]] /\ f[t] \in Nat
      BY <1>1, <1>2, <2>1, <2>2
    <3>2. QED
      BY <2>2, <3>1
  <2>5. SumFunctionOnSet(f, P) <= SumFunctionOnSet(g, T)
    BY <1>2, <1>7, <2>1, <2>3, <2>4, SumInjected
  <2>6. SumFunctionOnSet(f, S) = SumFunctionOnSet(f, P)
    <3>1. \A t \in S : f[t] \in Int
      BY <1>1
    <3>2. QED
      BY <1>1, <2>1, <3>1, SumOverPart
  <2>7. QED
    BY <1>1, <1>2, <2>5, <2>6
<1>9. ASSUME IsInjective(batch[b].targets), hit[b] \intersect HalfKnown = {}
      PROVE  /\ rows = RowsOf(b)
             /\ Succeeded(b, last) = {} => T = {}
  <2>1. \A j \in DOMAIN tasks[b] : batch[b].targets[j] \in S /\ last[batch[b].targets[j]] = j
    <3>1. PICK list : list = batch[b].targets
      OBVIOUS
    <3>2. /\ DOMAIN tasks[b] = DOMAIN list /\ S = {list[j] : j \in DOMAIN list}
          /\ \A j, k \in DOMAIN list : list[j] = list[k] => j = k
          /\ \A t \in S : last[t] \in DOMAIN list /\ list[last[t]] = t
      <4> HIDE DEF S
      <4>1. DOMAIN tasks[b] = DOMAIN list /\ S = ToSet(list)
        BY <1>1, <3>1
      <4>2. \A j, k \in DOMAIN list : list[j] = list[k] => j = k
        BY <1>9, <3>1 DEF IsInjective
      <4>3. \A t \in S : last[t] \in DOMAIN list /\ list[last[t]] = t
        BY <1>6, <3>1, <4>1
      <4>4. QED
        BY <4>1, <4>2, <4>3 DEF ToSet
    <3> HIDE DEF S
    <3>3. ASSUME NEW j \in DOMAIN list PROVE list[j] \in S /\ last[list[j]] = j
      <4>1. PICK t \in S : t = list[j]
        BY <3>2
      <4>2. last[t] \in DOMAIN list /\ list[last[t]] = list[j]
        BY <3>2, <4>1
      <4>3. last[t] = j
        BY <3>2, <4>2
      <4>4. QED
        BY <4>1, <4>3
    <3>4. QED
      BY <3>1, <3>2, <3>3
  <2> DEFINE h == [c \in T |-> batch[b].targets[c.task]]
  <2>2. \A c \in T : /\ h[c] \in S /\ last[h[c]] = c.task
                     /\ tasks[b][last[h[c]]].status = "success" /\ f[h[c]] = c.rows
    <3>1. SUFFICES ASSUME NEW c \in T
                   PROVE  /\ h[c] \in S /\ last[h[c]] = c.task
                          /\ tasks[b][last[h[c]]].status = "success" /\ f[h[c]] = c.rows
      OBVIOUS
    <3>2. PICK t, j : t = h[c] /\ j = c.task
      OBVIOUS
    <3>3. /\ j \in DOMAIN tasks[b] /\ tasks[b][j].status = "success"
          /\ tasks[b][j].rows = c.rows
      BY <1>4, <1>9, <3>2
    <3>4. t = batch[b].targets[j]
      BY <3>2
    <3>5. t \in S /\ last[t] = j
      BY <2>1, <3>3, <3>4
    <3> HIDE DEF h
    <3>6. f[t] = tasks[b][last[t]].rows
      BY <1>1, <3>5
    <3>7. QED
      BY <3>2, <3>3, <3>5, <3>6
  <2>3. Succeeded(b, last) = {} => T = {}
    BY <2>2 DEF Succeeded
  <2>4. \A c, d \in T : h[c] = h[d] => c = d
    BY <1>3, <2>2
  <2>5. \A c \in T : h[c] \in S /\ g[c] <= f[h[c]]
    BY <1>2, <2>2
  <2> HIDE DEF h, S
  <2>6. SumFunctionOnSet(g, T) <= SumFunctionOnSet(f, S)
    BY <1>1, <1>2, <1>7, <2>4, <2>5, SumInjected
  <2>7. SumFunctionOnSet(g, T) \in Nat /\ SumFunctionOnSet(f, S) \in Nat
    BY <1>1, <1>2, <1>7, SumIsNat
  <2>8. rows = RowsOf(b)
    BY <1>1, <1>2, <1>8, <2>6, <2>7
  <2>9. QED
    BY <2>3, <2>8
<1>10. QED
  BY <1>8, <1>9 DEF T

\* The end of a batch: its summary is of all its tasks.
LEMMA SummariseBooks ==
  ASSUME PriceAssumption, FlowInv, NEW b \in Batches, Books(b), Summarise(b)
  PROVE  Books(b)'
<1>1. /\ batch[b].state = "running" /\ tasks' = [tasks EXCEPT ![b] = <<>>]
      /\ \A i \in DOMAIN tasks[b] : tasks[b][i].pc = "done"
      /\ UNCHANGED <<lineage, written, hit>>
  BY DEF Summarise, NoFault
<1>2. PICK last \in [ToSet(batch[b].targets) -> DOMAIN tasks[b]] : SummarisedAs(b, last)
  BY Zenon DEF Summarise, SummarisedAs, Succeeded
<1>3. PICK rows : rows = SumFunction([t \in DOMAIN last |-> tasks[b][last[t]].rows])
  OBVIOUS
<1>4. PICK status : status = AggregateStatus(Succeeded(b, last), DOMAIN last \ Succeeded(b, last))
  OBVIOUS
<1>5. batch[b] \in Flow /\ batch \in [Batches -> Flow] /\ tasks \in [Batches -> Seq(Task)]
  BY DEF FlowInv, TypeOK
<1>6. /\ batch'[b].state = IF status = "failed" THEN "raised" ELSE "returned"
      /\ batch'[b].summary.rows = rows /\ batch'[b].summary.status = status
      /\ batch'[b].summary.success = Succeeded(b, last)
      /\ batch'[b].targets = batch[b].targets
  BY <1>2, <1>3, <1>4, <1>5 DEF SummarisedAs, Flow
<1>7. /\ status = "success" => Succeeded(b, last) = ToSet(batch[b].targets)
      /\ status = "failed" => Succeeded(b, last) = {}
  BY <1>4 DEF AggregateStatus, Succeeded
<1>8. /\ rows <= RowsOf(b)
      /\ IsInjective(batch[b].targets) /\ hit[b] \intersect HalfKnown = {} =>
           /\ rows = RowsOf(b)
           /\ Succeeded(b, last) = {} => CommitsOf(b) = {}
  BY <1>1, <1>2, <1>3, SummaryCounts DEF SummarisedAs
<1>9. CommitsOf(b)' = CommitsOf(b)
  BY <1>1, CommitsKept
<1>10. RowsOf(b)' = RowsOf(b)
  BY <1>9 DEF RowsOf
<1>11. Summed(b)'
  BY <1>1, <1>6, <1>7, <1>8, <1>9, <1>10 DEF Summed
<1>12. Tracked(b)' /\ Blank(b)'
  BY <1>6, <1>9 DEF Books, Tracked, Blank
<1>13. Counted(b)'
  <2>1. tasks'[b] = <<>> /\ DOMAIN <<>> = {}
    BY <1>1, <1>5, EmptySeq
  <2>2. QED
    BY <2>1 DEF Counted
<1>14. Accounted(b)'
  <2>1. \A c \in CommitsOf(b) : ~At(b, c.task, "lineage")
    BY <1>1 DEF At
  <2>2. QED
    BY <1>1, <1>9, <2>1 DEF Books, Accounted
<1>15. QED
  BY <1>11, <1>12, <1>13, <1>14 DEF Books

\* A batch that is started, or cannot be, or is killed.
LEMMA OthersBooks ==
  ASSUME PriceAssumption, FlowInv, NEW b \in Batches, Books(b),
         \/ \E p \in Providers, targets \in TargetLists : Start(b, p, targets)
         \/ \E p \in Providers : StartFails(b, p)
         \/ Kill(b)
  PROVE  Books(b)'
<1>1. /\ batch[b] \in Flow /\ batch \in [Batches -> Flow] /\ tasks \in [Batches -> Seq(Task)]
      /\ hit \in [Batches -> SUBSET Faults]
  BY DEF FlowInv, TypeOK
<1>2. UNCHANGED <<lineage, written>>
  BY DEF Start, StartFails, Kill
<1>3. CommitsOf(b)' = CommitsOf(b)
  BY <1>2, CommitsKept
<1>4. RowsOf(b)' = RowsOf(b)
  BY <1>3 DEF RowsOf
<1>5. CommitsOf(b) = {} => RowsOf(b) = 0
  <2>1. SUFFICES ASSUME CommitsOf(b) = {} PROVE RowsOf(b) = 0
    OBVIOUS
  <2>2. PICK g : g = [c \in CommitsOf(b) |-> c.rows]
    OBVIOUS
  <2>3. DOMAIN g = {}
    BY <2>1, <2>2
  <2>4. SumFunction(g) = 0
    BY <2>3, SumEmpty DEF SumFunction
  <2>5. QED
    BY <2>2, <2>4 DEF RowsOf
<1>6. ASSUME NEW p \in Providers, NEW targets \in TargetLists, Start(b, p, targets)
      PROVE  Books(b)'
  <2>1. /\ batch[b].state = "idle" /\ CommitsOf(b) = {} /\ hit' = hit
        /\ batch'[b].state = IF targets = <<>> THEN "returned" ELSE "running"
        /\ batch'[b].targets = targets /\ batch'[b].summary.rows = 0
        /\ batch'[b].summary.status # "success"
        /\ tasks'[b] = [i \in DOMAIN targets |-> NewTask]
    BY <1>1, <1>6 DEF Start, NoFault, Books, Blank, NoSummary
  <2>2. NewTask.rows = 0
    BY DEF NewTask
  <2>3. Counted(b)'
    BY <2>1, <2>2 DEF Counted
  <2>4. Tracked(b)' /\ Blank(b)' /\ Accounted(b)'
    BY <1>3, <2>1 DEF Tracked, Blank, Accounted
  <2>5. Summed(b)'
    BY <1>3, <1>4, <1>5, <2>1 DEF Summed
  <2>6. QED
    BY <2>3, <2>4, <2>5 DEF Books
<1>7. ASSUME NEW p \in Providers, StartFails(b, p)
      PROVE  Books(b)'
  <2>1. /\ batch[b].state = "idle" /\ CommitsOf(b) = {} /\ tasks' = tasks
        /\ batch[b].targets = <<>> /\ batch[b].summary = NoSummary
        /\ batch'[b].state = "raised" /\ batch'[b].summary = batch[b].summary
    BY <1>1, <1>7 DEF StartFails, Books, Blank, Flow
  <2>2. batch'[b].summary.rows = 0 /\ batch'[b].summary.status # "success"
    BY <2>1 DEF NoSummary
  <2>3. Counted(b)'
    BY <1>3, <2>1 DEF Books, Counted
  <2>4. Tracked(b)' /\ Blank(b)' /\ Accounted(b)'
    BY <1>3, <2>1 DEF Tracked, Blank, Accounted
  <2>5. Summed(b)'
    BY <1>3, <1>4, <1>5, <2>1, <2>2 DEF Summed
  <2>6. QED
    BY <2>3, <2>4, <2>5 DEF Books
<1>8. ASSUME Kill(b)
      PROVE  Books(b)'
  <2>1. /\ batch'[b].state = "killed" /\ tasks'[b] = <<>> /\ "kill" \in hit'[b]
    BY <1>1, <1>8, FaultIsHit DEF Kill
  <2>2. Tracked(b)' /\ Blank(b)' /\ Summed(b)' /\ Accounted(b)'
    BY <1>3, <2>1 DEF Books, Tracked, Blank, Summed, Accounted
  <2>3. Counted(b)'
    <3>1. DOMAIN <<>> = {}
      BY EmptySeq
    <3>2. QED
      BY <2>1, <3>1 DEF Counted
  <2>4. QED
    BY <2>2, <2>3 DEF Books
<1>9. QED
  BY <1>6, <1>7, <1>8

\* The books of every batch are kept by the steps of one.
LEMMA BatchKeepsBooks ==
  ASSUME PriceAssumption, FlowInv, BooksInv, NEW b \in Batches,
         \/ \E p \in Providers, targets \in TargetLists : Start(b, p, targets)
         \/ \E p \in Providers : StartFails(b, p)
         \/ Summarise(b) \/ Kill(b)
  PROVE  BooksInv'
<1>1. /\ UNCHANGED <<lineage, written>> /\ (NoFault \/ \E f \in Faults : Fault(b, f))
      /\ \A c \in Batches : c # b => batch'[c] = batch[c] /\ tasks'[c] = tasks[c]
  BY DEF FlowInv, TypeOK, Start, StartFails, Summarise, Kill, Fault
<1>2. \A c \in Batches : CommitsOf(c)' = CommitsOf(c) /\ (c # b => hit'[c] = hit[c])
  BY <1>1, CommitsKept, FaultsGrow, FlowIs
<1>3. Entered'
  BY <1>1, <1>2, EnteredStays DEF BooksInv
<1>4. \A c \in Batches : c # b => Books(c)'
  BY <1>1, <1>2, BooksElsewhere DEF BooksInv
<1>5. Books(b)'
  BY SummariseBooks, OthersBooks DEF BooksInv
<1>6. QED
  BY <1>3, <1>4, <1>5 DEF BooksInv

\* Nothing is in the books to begin with.
LEMMA BooksBegin == ASSUME Init PROVE BooksInv
<1>1. /\ lineage = {} /\ written = [s \in Providers \X Tickers |-> <<>>]
      /\ tasks = [b \in Batches |-> <<>>]
      /\ batch = [b \in Batches |-> [state |-> "idle", provider |-> "none",
                                     targets |-> <<>>, summary |-> NoSummary]]
  BY DEF Init
<1>2. \A b \in Batches : CommitsOf(b) = {}
  <2>1. PICK none : none = <<>>
    OBVIOUS
  <2>2. DOMAIN none = {}
    BY <2>1, EmptySeq
  <2>3. ToSet(none) = {}
    BY <2>2 DEF ToSet
  <2>4. QED
    BY <1>1, <2>1, <2>3 DEF CommitsOf
<1>3. ASSUME NEW b \in Batches PROVE Books(b)
  <2>1. batch[b].state = "idle" /\ DOMAIN tasks[b] = {}
    BY <1>1, EmptySeq
  <2>2. Tracked(b) /\ Counted(b) /\ Summed(b) /\ Accounted(b)
    BY <1>2, <2>1 DEF Tracked, Counted, Summed, Accounted
  <2>3. Blank(b)
    BY <1>1, <1>2 DEF Blank
  <2>4. QED
    BY <2>2, <2>3 DEF Books
<1>4. QED
  BY <1>1, <1>3 DEF BooksInv, Entered

\* Every step keeps the books.
LEMMA BooksStay ==
  ASSUME PriceAssumption, FlowInv, BooksInv, IngestionNext \/ Beside
  PROVE  BooksInv'
<1>1. ASSUME UNCHANGED <<batch, tasks, written, lineage, hit>> PROVE BooksInv'
  <2>1. \A c \in Batches : CommitsOf(c)' = CommitsOf(c)
    BY <1>1, CommitsKept
  <2>2. Entered'
    BY <1>1, <2>1, EnteredStays DEF BooksInv
  <2>3. \A c \in Batches : Books(c)'
    BY <1>1, <2>1, BooksElsewhere DEF BooksInv
  <2>4. QED
    BY <2>2, <2>3 DEF BooksInv
<1>2. CASE Tick \/ Beside
  BY <1>1, <1>2 DEF Tick, Beside, flowVars
<1>3. ASSUME NEW b \in Batches,
             \/ \E p \in Providers, targets \in TargetLists : Start(b, p, targets)
             \/ \E p \in Providers : StartFails(b, p)
             \/ Summarise(b) \/ Kill(b)
      PROVE  BooksInv'
  BY <1>3, BatchKeepsBooks
<1>4. ASSUME NEW b \in Batches, NEW i \in DOMAIN tasks[b],
             TaskStep(b, i) \/ Throttled(b, i) \/ FetchFails(b, i)
      PROVE  BooksInv'
  BY <1>4, TaskKeepsBooks
<1>5. QED
  BY <1>2, <1>3, <1>4 DEF IngestionNext

\* What the books say of every batch.
LEMMA BooksSay == ASSUME BooksInv PROVE SummaryIsTrue /\ WritesAreRecorded
BY DEF BooksInv, Books, Summed, Accounted, Entered, SummaryIsTrue, WritesAreRecorded

----------------------------------------------------------------------------
(* No holes.                                                               *)

\* The first day of a window that ends on a day.
StartOf(b, end) == IF Provider(b) = "yfinance" THEN end - Lookback ELSE WebullStart

\* The frame has a bar of every session from one day to another.
Covers(frame, from, to) ==
  \A d \in Days \ (Closed \union source.silent) :
    from <= d /\ d <= to => \E bar \in frame : bar.day = d

\* What a task that is not over has fetched: bars before the end of its window are final, a
\* download has all sessions it has come back over, and a frame on its way to the table has
\* all those of the window.
WindowOf(b, task) ==
  /\ task.pc \in {"fetch", "upsert"} => 2 * task.end <= clock
  /\ \A bar \in task.frame : bar.day < task.end => bar.edition = "final"
  /\ task.pc = "fetch" => task.start = StartOf(b, task.end)
  /\ task.pc = "fetch" /\ Provider(b) = "webull" /\ source.heeds_end_time =>
       /\ task.before <= task.end + 1
       /\ \A d \in task.seen : task.before <= d
       /\ Covers(task.frame, task.before, task.end)
  /\ task.pc = "upsert" /\ (Provider(b) = "webull" => source.heeds_end_time) =>
       Covers(task.frame, StartOf(b, task.end), task.end)
WindowInv == \A b \in Batches : \A i \in DOMAIN tasks[b] : WindowOf(b, tasks[b][i])

\* A bar of a day before the end of a window is one of a session that has closed.
LEMMA EditionsAre ==
  ASSUME PriceAssumption, FlowInv, NEW days \in SUBSET Days, NEW end \in 0..LastDay,
         2 * end <= clock
  PROVE  \A bar \in BarsOf(days) : bar.day < end => bar.edition = "final"
<1>1. clock \in Int /\ days \subseteq Int
  BY DaysAre DEF FlowInv, TypeOK, PriceAssumption
<1>2. \A d \in days : d < end => clock > 2 * d
  BY <1>1 DEF PriceAssumption
<1>3. QED
  BY <1>1, <1>2 DEF BarsOf, Edition

\* A page of a service that heeds end_time: the newest sessions before that day.
LEMMA PageIs ==
  ASSUME PriceAssumption, FewSilentDays, FlowInv, source.heeds_end_time, NEW before \in Int
  PROVE  /\ PageDays(before) \subseteq Sessions /\ \A d \in PageDays(before) : d < before
         /\ \A d \in PageDays(before), e \in Sessions :
              d <= e /\ e < before => e \in PageDays(before)
         /\ PageDays(before) \subseteq source.silent =>
              \A d \in Sessions : d < before => d \in source.silent
<1> DEFINE asked == {d \in Sessions : d < before}
           Newer(d) == {e \in asked : e > d}
<1>1. PageDays(before) = {d \in asked : Cardinality(Newer(d)) < PageSize}
  BY DEF PageDays
<1>2. /\ asked \subseteq Int /\ IsFiniteSet(asked) /\ PageSize \in Nat
      /\ \A d \in asked : IsFiniteSet(Newer(d)) /\ Cardinality(Newer(d)) \in Nat
  BY DaysAre, FS_Subset, FS_CardinalityType DEF PriceAssumption
<1>3. ASSUME NEW d \in PageDays(before), NEW e \in Sessions, d <= e, e < before
      PROVE  e \in PageDays(before)
  <2>1. Newer(e) \subseteq Newer(d) /\ d \in asked /\ e \in asked
    BY <1>1, <1>2, <1>3
  <2>2. Cardinality(Newer(e)) <= Cardinality(Newer(d)) /\ Cardinality(Newer(d)) < PageSize
    <3> HIDE DEF Newer, asked
    <3> QED BY <1>1, <1>2, <2>1, FS_Subset
  <2>3. Cardinality(Newer(e)) < PageSize
    <3> HIDE DEF Newer, asked
    <3> QED BY <1>2, <2>1, <2>2
  <2>4. QED
    BY <1>1, <2>1, <2>3
<1>4. ASSUME PageDays(before) \subseteq source.silent, asked \ PageDays(before) # {}
      PROVE  FALSE
  <2> DEFINE older == asked \ PageDays(before)
             d == Max(older)
  <2>1. d \in older /\ \A e \in older : d >= e
    <3>1. older \subseteq Int /\ IsFiniteSet(older) /\ older # {}
      BY <1>2, <1>4, FS_Subset
    <3> HIDE DEF older
    <3>2. QED
      BY <3>1, MaxIn
  <2> HIDE DEF d
  <2>2. Newer(d) \subseteq source.silent
    BY <1>2, <1>4, <2>1
  <2>3. IsFiniteSet(source.silent) /\ source \in Sources
    <3>1. source \in Sources /\ source.silent \subseteq FirstDay..LastDay
      BY DEF FlowInv, TypeOK, PriceAssumption
    <3>2. IsFiniteSet(FirstDay..LastDay)
      BY FS_Interval DEF PriceAssumption
    <3>3. QED
      BY <3>1, <3>2, FS_Subset
  <2>4. Cardinality(Newer(d)) <= Cardinality(source.silent)
    <3> HIDE DEF Newer
    <3> QED BY <2>2, <2>3, FS_Subset
  <2>5. Cardinality(source.silent) < PageSize /\ Cardinality(source.silent) \in Nat
    BY <2>3, FS_CardinalityType DEF FewSilentDays
  <2>6. d \in asked /\ ~(Cardinality(Newer(d)) < PageSize)
    BY <1>1, <2>1
  <2>7. Cardinality(Newer(d)) \in Nat
    BY <1>2, <2>6
  <2> HIDE DEF Newer
  <2>8. QED
    BY <1>2, <2>4, <2>5, <2>6, <2>7
<1>5. QED
  BY <1>1, <1>3, <1>4

\* A task that has not begun, or has nothing left to store.
LEMMA EndedWindow ==
  ASSUME NEW b \in Batches
  PROVE  /\ WindowOf(b, NewTask)
         /\ \A status, rows : WindowOf(b, Ended(status, rows)) /\ WindowOf(b, Result(status, rows))
<1>1. ASSUME NEW task, task.frame = {}, task.pc \in {"queued", "lineage", "done"}
      PROVE  WindowOf(b, task)
  BY <1>1 DEF WindowOf
<1>2. /\ NewTask.frame = {} /\ NewTask.pc = "queued"
      /\ \A status, rows : /\ Ended(status, rows).frame = {} /\ Ended(status, rows).pc = "lineage"
                           /\ Result(status, rows).frame = {} /\ Result(status, rows).pc = "done"
  BY DEF NewTask, Ended, Result
<1>3. QED
  BY <1>1, <1>2

\* A frame that has all sessions of the window is kept as it is, or not at all.
LEMMA ValidWindow ==
  ASSUME PriceAssumption, FlowInv, NEW b \in Batches, NEW i \in DOMAIN tasks[b], NEW frame,
         2 * tasks[b][i].end <= clock, Validate(b, i, frame),
         \/ \E bar \in frame : bar.day > Today
         \/ /\ \A bar \in frame : bar.day < tasks[b][i].end => bar.edition = "final"
            /\ (Provider(b) = "webull" => source.heeds_end_time) =>
                 Covers(frame, StartOf(b, tasks[b][i].end), tasks[b][i].end)
  PROVE  \E new : Becomes(b, i, new) /\ WindowOf(b, new)
<1>1. CASE Becomes(b, i, Ended("failed", 0)) \/ Becomes(b, i, Ended("success", 0))
  BY <1>1, EndedWindow
<1>2. CASE /\ ~(\E bar \in frame : bar.day > Today)
           /\ Becomes(b, i, [NewTask EXCEPT !.pc = "upsert", !.end = tasks[b][i].end,
                                            !.frame = frame])
  <2> DEFINE new == [NewTask EXCEPT !.pc = "upsert", !.end = tasks[b][i].end, !.frame = frame]
  <2>1. new.pc = "upsert" /\ new.end = tasks[b][i].end /\ new.frame = frame
    BY DEF NewTask
  <2>2. Becomes(b, i, new)
    BY <1>2
  <2> HIDE DEF new
  <2>3. WindowOf(b, new)
    BY <1>2, <2>1 DEF WindowOf
  <2>4. QED
    BY <2>2, <2>3
<1>3. QED
  BY <1>1, <1>2 DEF Validate, Fails

\* A request of Webull adds the sessions before those the task has come back over.
LEMMA PageWindow ==
  ASSUME PriceAssumption, FewSilentDays, FlowInv, NEW b \in Batches, NEW i \in DOMAIN tasks[b],
         WindowOf(b, tasks[b][i]), FetchPage(b, i)
  PROVE  \E new : Becomes(b, i, new) /\ WindowOf(b, new)
<1> DEFINE task   == tasks[b][i]
           days   == PageDays(task.before)
           page   == BarsOf(days)
           oldest == Min({bar.day : bar \in page})
           frame  == task.frame \union
                     {bar \in page : \A old \in task.frame : old.day # bar.day}
           window == {bar \in frame : bar.day \in task.start..task.end}
           next   == [task EXCEPT !.frame = frame, !.before = oldest,
                                  !.seen = @ \union {oldest}, !.attempts = 0,
                                  !.pages = @ + 1]
<1>1. /\ task \in Task /\ task.before \in Int /\ task.end \in 0..LastDay /\ task.start \in Int
      /\ task.frame \subseteq Bar /\ task.seen \subseteq Days /\ Days \subseteq Int
      /\ Today \in 0..LastDay /\ LastDay \in Nat /\ clock \in Nat
  <2>1. task \in Task
    BY DEF FlowInv, TasksInv, TaskIs
  <2>2. Today \in 0..LastDay /\ LastDay \in Nat /\ clock \in Nat /\ Days \subseteq Int
    BY TodayIs, DaysAre DEF FlowInv, TypeOK
  <2>3. QED
    BY <2>1, <2>2 DEF Task
<1>2. /\ task.pc = "fetch" /\ Provider(b) = "webull"
      /\ \/ Validate(b, i, window) /\ (page = {} \/ LastPage(task, oldest))
         \/ Becomes(b, i, next) /\ page # {}
  BY DEF FetchPage, At
<1>3. /\ 2 * task.end <= clock /\ task.start = StartOf(b, task.end)
      /\ \A bar \in task.frame : bar.day < task.end => bar.edition = "final"
      /\ source.heeds_end_time => /\ task.before <= task.end + 1
                                  /\ \A d \in task.seen : task.before <= d
                                  /\ Covers(task.frame, task.before, task.end)
  BY <1>2 DEF WindowOf
<1>4. task.end <= Today
  BY <1>1, <1>3 DEF Today
<1>5. days \subseteq Days /\ days \subseteq Sessions
  BY DaysAre DEF PageDays
<1>6. \A bar \in frame : bar.day < task.end => bar.edition = "final"
  <2>1. \A bar \in page : bar.day < task.end => bar.edition = "final"
    <3> HIDE DEF days
    <3> QED BY <1>1, <1>3, <1>5, EditionsAre
  <2>2. \A bar \in task.frame : bar.day < task.end => bar.edition = "final"
    BY <1>3
  <2>3. \A bar \in frame : bar \in task.frame \/ bar \in page
    OBVIOUS
  <2> HIDE DEF page, frame, task
  <2>4. QED
    BY <2>1, <2>2, <2>3
<1>7. \A d \in days : d \notin source.silent => \E bar \in frame : bar.day = d
  <2>1. ASSUME NEW d \in days, d \notin source.silent PROVE \E bar \in page : bar.day = d
    <3> HIDE DEF days
    <3>1. [day |-> d, edition |-> Edition(d)] \in page
      BY <2>1 DEF BarsOf
    <3>2. QED
      BY <3>1
  <2>2. \A bar \in page : \E kept \in frame : kept.day = bar.day
    <3> HIDE DEF page
    <3> QED OBVIOUS
  <2> HIDE DEF page, frame, days
  <2>3. QED
    BY <2>1, <2>2
<1>8. page # {} => oldest \in days /\ oldest \in Int
  <2> DEFINE found == {bar.day : bar \in page}
  <2>1. found \subseteq days /\ (page # {} => found # {})
    BY DEF BarsOf
  <2>2. found \subseteq Int /\ IsFiniteSet(found)
    BY <1>1, <1>5, <2>1, DaysAre, FS_Subset
  <2>3. page # {} => Min(found) \in found
    <3> HIDE DEF found
    <3> QED BY <2>1, <2>2, MinIn
  <2>4. QED
    BY <2>1, <2>2, <2>3
<1>9. page = {} => days \subseteq source.silent
  BY DEF BarsOf
<1> HIDE DEF page, oldest
<1>10. ASSUME source.heeds_end_time, NEW from \in Int,
              \/ page = {}
              \/ page # {} /\ oldest <= from
       PROVE  Covers(frame, from, task.end)
  <2> SUFFICES ASSUME NEW d \in Days \ (Closed \union source.silent),
                      from <= d, d <= task.end
               PROVE  \E bar \in frame : bar.day = d
    BY DEF Covers
  <2>1. CASE task.before <= d
    BY <1>3, <1>10, <2>1 DEF Covers
  <2>2. CASE d < task.before
    <3>1. d \in Sessions /\ d \in Int
      BY <1>1, <1>4 DEF Sessions
    <3>2. d \in days
      <4>1. CASE page = {}
        BY <1>1, <1>9, <1>10, <2>2, <3>1, <4>1, PageIs
      <4>2. CASE page # {} /\ oldest <= from
        <5>1. oldest \in days /\ oldest <= d
          BY <1>8, <1>10, <3>1, <4>2
        <5>2. QED
          BY <1>1, <1>10, <2>2, <3>1, <5>1, PageIs
      <4>3. QED
        BY <1>10, <4>1, <4>2
    <3> HIDE DEF days, frame
    <3>3. QED
      BY <1>7, <3>2
  <2>3. QED
    BY <1>1, <2>1, <2>2
<1>11. source.heeds_end_time /\ page # {} => oldest < task.before
  BY <1>1, <1>8, PageIs
<1> HIDE DEF frame
<1>12. CASE Validate(b, i, window) /\ (page = {} \/ LastPage(task, oldest))
  <2>1. \A bar \in window : bar.day < task.end => bar.edition = "final"
    BY <1>6
  <2>2. ASSUME source.heeds_end_time PROVE Covers(window, StartOf(b, task.end), task.end)
    <3>1. page # {} => oldest <= task.start
      <4>1. oldest \in task.seen => task.before <= oldest
        BY <1>3, <2>2
      <4>2. page # {} => oldest < task.start
        BY <1>1, <1>8, <1>11, <1>12, <2>2, <4>1 DEF LastPage
      <4>3. QED
        BY <1>1, <1>8, <4>2
    <3>2. Covers(frame, task.start, task.end)
      BY <1>1, <1>10, <2>2, <3>1
    <3>3. Covers(window, task.start, task.end)
      BY <1>1, <3>2 DEF Covers
    <3>4. QED
      BY <1>3, <3>3
  <2> HIDE DEF window
  <2>3. QED
    BY <1>2, <1>3, <1>12, <2>1, <2>2, ValidWindow
<1>13. CASE Becomes(b, i, next) /\ page # {}
  <2>1. /\ next.pc = "fetch" /\ next.end = task.end /\ next.start = task.start
        /\ next.frame = frame /\ next.before = oldest /\ next.seen = task.seen \union {oldest}
    BY <1>1, <1>2 DEF Task
  <2> HIDE DEF next
  <2>2. ASSUME source.heeds_end_time
        PROVE  /\ oldest <= task.end + 1 /\ \A d \in next.seen : oldest <= d
               /\ Covers(frame, oldest, task.end)
    <3>1. oldest < task.before /\ oldest \in Int /\ task.before <= task.end + 1
      BY <1>3, <1>8, <1>11, <1>13, <2>2
    <3>2. \A d \in task.seen : d \in Int /\ task.before <= d
      BY <1>1, <1>3, <2>2
    <3>3. Covers(frame, oldest, task.end)
      BY <1>10, <1>13, <2>2, <3>1
    <3>4. QED
      BY <1>1, <2>1, <3>1, <3>2, <3>3
  <2>3. WindowOf(b, next)
    BY <1>2, <1>3, <1>6, <2>1, <2>2 DEF WindowOf
  <2>4. QED
    BY <1>13, <2>3
<1>14. QED
  BY <1>2, <1>12, <1>13

\* Every step of a task keeps what it has fetched complete.
LEMMA TaskWindow ==
  ASSUME PriceAssumption, FewSilentDays, FlowInv, NEW b \in Batches, NEW i \in DOMAIN tasks[b],
         WindowOf(b, tasks[b][i]), TaskStep(b, i) \/ Throttled(b, i) \/ FetchFails(b, i)
  PROVE  \E new : Becomes(b, i, new) /\ WindowOf(b, new)
<1> DEFINE task == tasks[b][i]
<1>1. /\ task \in Task /\ Today \in 0..LastDay /\ clock \in Nat /\ Days \subseteq Int
  BY TodayIs, DaysAre DEF FlowInv, TasksInv, TaskIs, TypeOK
<1>2. CASE Begin(b, i)
  <2> DEFINE new == [NewTask EXCEPT !.pc = "fetch", !.start = WindowStart(b),
                                    !.end = Today, !.before = Today + 1]
  <2>1. /\ new.pc = "fetch" /\ new.start = WindowStart(b) /\ new.end = Today
        /\ new.before = Today + 1 /\ new.seen = {} /\ new.frame = {}
    BY DEF NewTask
  <2>2. Becomes(b, i, new)
    BY <1>2 DEF Begin
  <2> HIDE DEF new
  <2>3. 2 * Today <= clock
    BY <1>1 DEF Today
  <2>4. WindowStart(b) = StartOf(b, Today)
    BY DEF WindowStart, StartOf
  <2>5. Covers({}, Today + 1, Today)
    BY <1>1 DEF Covers
  <2>6. Today + 1 <= Today + 1
    BY <1>1
  <2>7. WindowOf(b, new)
    BY <2>1, <2>3, <2>4, <2>5, <2>6 DEF WindowOf
  <2>8. QED
    BY <2>2, <2>7
<1>3. CASE FetchYfinance(b, i)
  <2> DEFINE days == Sessions \intersect task.start..task.end
             bars == BarsOf(days)
             more == bars \union {[day |-> Today + 1, edition |-> "partial"]}
  <2>1. /\ task.pc = "fetch" /\ Provider(b) = "yfinance"
        /\ Validate(b, i, bars) \/ Validate(b, i, more)
    BY <1>3 DEF FetchYfinance, At
  <2>2. 2 * task.end <= clock /\ task.start = StartOf(b, task.end)
    BY <2>1 DEF WindowOf
  <2>3. task.end \in 0..LastDay /\ task.start \in Int /\ task.end <= Today
    <3>1. task.end \in 0..LastDay /\ task.start \in Int
      BY <1>1 DEF Task
    <3>2. QED
      BY <1>1, <2>2, <3>1 DEF Today
  <2>4. \A bar \in bars : bar.day < task.end => bar.edition = "final"
    <3>1. days \in SUBSET Days
      BY DaysAre, PriceAssumption
    <3> HIDE DEF days
    <3>2. QED
      BY <2>2, <2>3, <3>1, EditionsAre
  <2>5. Covers(bars, task.start, task.end)
    <3>1. ASSUME NEW d \in Days \ (Closed \union source.silent), task.start <= d, d <= task.end
          PROVE  \E bar \in bars : bar.day = d
      <4>1. d \in days /\ d \notin source.silent
        BY <1>1, <2>3, <3>1 DEF Sessions
      <4> HIDE DEF days
      <4>2. [day |-> d, edition |-> Edition(d)] \in bars
        BY <4>1 DEF BarsOf
      <4>3. QED
        BY <4>2
    <3>2. QED
      BY <3>1 DEF Covers
  <2>6. \E bar \in more : bar.day > Today
    <3> DEFINE late == [day |-> Today + 1, edition |-> "partial"]
    <3>1. late \in more /\ late.day > Today
      BY <1>1
    <3>2. QED
      BY <3>1
  <2> HIDE DEF bars, more
  <2>7. CASE Validate(b, i, bars)
    BY <2>2, <2>4, <2>5, <2>7, ValidWindow
  <2>8. CASE Validate(b, i, more)
    BY <2>2, <2>6, <2>8, ValidWindow
  <2>9. QED
    BY <2>1, <2>7, <2>8
<1>4. CASE FetchPage(b, i)
  BY <1>4, PageWindow
<1>5. CASE Throttled(b, i)
  <2> DEFINE again == [task EXCEPT !.attempts = @ + 1]
  <2>1. Becomes(b, i, Ended("failed", 0)) \/ Becomes(b, i, again)
    BY <1>5 DEF Throttled, Fails
  <2>2. /\ again.pc = task.pc /\ again.start = task.start /\ again.end = task.end
        /\ again.frame = task.frame /\ again.before = task.before /\ again.seen = task.seen
    BY <1>1 DEF Task
  <2> HIDE DEF again
  <2>3. WindowOf(b, again)
    BY <2>2 DEF WindowOf
  <2>4. QED
    BY <2>1, <2>3, EndedWindow
<1>6. CASE FetchFails(b, i) \/ Upsert(b, i) \/ Record(b, i)
  BY <1>6, EndedWindow DEF FetchFails, Fails, Upsert, Record
<1>7. QED
  BY <1>2, <1>3, <1>4, <1>5, <1>6 DEF TaskStep

\* So does a step of anything, of the tasks of all batches.
LEMMA WindowsStay ==
  ASSUME PriceAssumption, FewSilentDays, FlowInv, WindowInv, IngestionNext \/ Beside
  PROVE  WindowInv'
<1>1. /\ tasks \in [Batches -> Seq(Task)] /\ batch \in [Batches -> Flow] /\ clock \in Nat
      /\ \A c \in Batches : \A j \in DOMAIN tasks[c] : tasks[c][j].end \in Nat
  <2>1. tasks \in [Batches -> Seq(Task)] /\ batch \in [Batches -> Flow] /\ clock \in Nat
    BY DEF FlowInv, TypeOK
  <2>2. ASSUME NEW c \in Batches, NEW j \in DOMAIN tasks[c] PROVE tasks[c][j].end \in Nat
    <3>1. tasks[c][j] \in Task
      BY DEF FlowInv, TasksInv, TaskIs
    <3>2. tasks[c][j].end \in 0..LastDay
      BY <3>1 DEF Task
    <3>3. QED
      BY <3>2
  <2>3. QED
    BY <2>1, <2>2
<1>2. ASSUME NEW b \in Batches, NEW i \in DOMAIN tasks[b],
             TaskStep(b, i) \/ Throttled(b, i) \/ FetchFails(b, i)
      PROVE  WindowInv'
  <2>1. PICK new : Becomes(b, i, new) /\ WindowOf(b, new)
    BY <1>2, TaskWindow DEF WindowInv
  <2>2. UNCHANGED <<clock, source, batch>>
    BY <1>2 DEF TaskStep, Begin, FetchYfinance, FetchPage, Upsert, Record, Throttled, FetchFails
  <2>3. \A c \in Batches : \A j \in DOMAIN tasks'[c] :
          /\ j \in DOMAIN tasks[c]
          /\ tasks'[c][j] = IF c = b /\ j = i THEN new ELSE tasks[c][j]
    BY <1>1, <2>1 DEF Becomes
  <2>4. \A c \in Batches : \A j \in DOMAIN tasks'[c] : WindowOf(c, tasks'[c][j])
    BY <2>1, <2>3 DEF WindowInv
  <2>5. ASSUME NEW c \in Batches, NEW j \in DOMAIN tasks'[c] PROVE WindowOf(c, tasks[c][j])'
    BY <2>2, <2>4 DEF WindowOf, Provider, StartOf, Covers, Days
  <2>6. QED
    BY <2>5 DEF WindowInv
<1>3. ASSUME NEW b \in Batches,
             \/ \E p \in Providers, targets \in TargetLists : Start(b, p, targets)
             \/ \E p \in Providers : StartFails(b, p)
             \/ Summarise(b) \/ Kill(b)
      PROVE  WindowInv'
  <2>1. /\ UNCHANGED <<clock, source>>
        /\ \A c \in Batches : c # b => tasks'[c] = tasks[c] /\ batch'[c] = batch[c]
    BY <1>1, <1>3 DEF Start, StartFails, Summarise, Kill
  <2>2. \A j \in DOMAIN tasks'[b] : tasks'[b][j] = NewTask
    <3>1. CASE \E p \in Providers, targets \in TargetLists : Start(b, p, targets)
      BY <1>1, <3>1 DEF Start
    <3>2. CASE \E p \in Providers : StartFails(b, p)
      <4>1. batch[b].state = "idle" /\ tasks'[b] = tasks[b]
        BY <3>2 DEF StartFails
      <4>2. Len(tasks[b]) = 0 /\ tasks[b] \in Seq(Task)
        BY <1>1, <4>1 DEF FlowInv, TasksInv
      <4>3. DOMAIN tasks[b] = {}
        BY <4>2, LenProperties
      <4>4. QED
        BY <4>1, <4>3
    <3>3. CASE Summarise(b) \/ Kill(b)
      <4>1. tasks'[b] = <<>> /\ DOMAIN <<>> = {}
        BY <1>1, <3>3, EmptySeq DEF Summarise, Kill
      <4>2. QED
        BY <4>1
    <3>4. QED
      BY <1>3, <3>1, <3>2, <3>3
  <2>3. ASSUME NEW c \in Batches, NEW j \in DOMAIN tasks'[c] PROVE WindowOf(c, tasks[c][j])'
    <3>1. CASE c = b
      <4>1. tasks'[c][j].frame = {} /\ tasks'[c][j].pc = "queued"
        BY <2>2, <2>3, <3>1 DEF NewTask
      <4>2. QED
        BY <4>1 DEF WindowOf
    <3>2. CASE c # b
      <4>1. WindowOf(c, tasks[c][j]) /\ tasks'[c] = tasks[c] /\ batch'[c] = batch[c]
        BY <2>1, <2>3, <3>2 DEF WindowInv
      <4>2. QED
        BY <2>1, <4>1 DEF WindowOf, Provider, StartOf, Covers, Days
    <3>3. QED
      BY <3>1, <3>2
  <2>4. QED
    BY <2>3 DEF WindowInv
<1>4. CASE Tick \/ Beside
  <2>1. /\ UNCHANGED <<source, batch, tasks>>
        /\ clock' \in Nat /\ clock <= clock'
    <3>1. UNCHANGED <<source, batch, tasks>> /\ (clock' = clock \/ clock' = clock + 1)
      BY <1>4 DEF Tick, Beside, flowVars
    <3>2. QED
      BY <1>1, <3>1
  <2>2. ASSUME NEW c \in Batches, NEW j \in DOMAIN tasks[c] PROVE WindowOf(c, tasks[c][j])'
    <3>1. WindowOf(c, tasks[c][j])
      BY DEF WindowInv
    <3>2. 2 * tasks[c][j].end <= clock => 2 * tasks[c][j].end <= clock'
      BY <1>1, <2>1
    <3>3. tasks'[c][j] = tasks[c][j] /\ batch'[c] = batch[c]
      BY <2>1
    <3>4. QED
      BY <2>1, <3>1, <3>2, <3>3 DEF WindowOf, Provider, StartOf, Covers, Days
  <2>3. QED
    BY <2>1, <2>2 DEF WindowInv
<1>5. QED
  BY <1>2, <1>3, <1>4 DEF IngestionNext

\* NoHoles, of one provider and one ticker.
FirstOf(p, runs) == IF p = "yfinance" THEN runs[1].end - Lookback ELSE WebullStart
HoleFree(p, t) ==
  /\ written[<<p, t>>] # <<>> /\ Regular(p, written[<<p, t>>])
  /\ p = "webull" => source.heeds_end_time
  => \A d \in (FirstOf(p, written[<<p, t>>])..(Last(written[<<p, t>>]).end - 1))
                \ (Closed \union source.silent) :
       d >= FirstDay => [provider |-> p, ticker |-> t, day |-> d, edition |-> "final"] \in prices

\* A commit leaves no hole: its frame has the sessions of its window, as of after the close
\* but for the last, and if it comes in time that reaches back to the commit before it.
LEMMA CommitLeavesNoHole ==
  ASSUME PriceAssumption, FlowInv, WindowInv, NEW b \in Batches, NEW i \in DOMAIN tasks[b],
         batch[b].state = "running", tasks[b][i].pc = "upsert", Commits(b, i), source' = source,
         NEW p, NEW t, p = Provider(b), t = Ticker(b, i), HoleFree(p, t)
  PROVE  HoleFree(p, t)'
<1> DEFINE task == tasks[b][i]
           rows == {[provider |-> Provider(b), ticker |-> Ticker(b, i), day |-> bar.day,
                     edition |-> bar.edition] : bar \in task.frame}
           Row(d) == [provider |-> Provider(b), ticker |-> Ticker(b, i), day |-> d,
                      edition |-> "final"]
<1>1. p = Provider(b) /\ t = Ticker(b, i)
  OBVIOUS
<1>2. PICK runs, commit, after :
        /\ runs = written[<<p, t>>] /\ commit = TheCommit(b, i)
        /\ after = Append(runs, commit)
  OBVIOUS
<1>3. /\ written \in [Providers \X Tickers -> Seq(Commit)] /\ <<p, t>> \in Providers \X Tickers
      /\ Days \subseteq Int /\ LastDay \in Nat /\ FirstDay \in Int /\ Lookback \in Nat
      /\ WebullStart \in Int
  BY <1>1, CommitTypes, DaysAre DEF FlowInv, TypeOK, PriceAssumption
<1>4. written'[<<p, t>>] = after /\ prices' = Upserted(rows)
  BY <1>1, <1>2, <1>3 DEF Commits, TheCommit
<1>5. commit.end = task.end /\ task.end \in 0..LastDay /\ task.frame \subseteq Bar
  BY <1>2, CommitTypes DEF TheCommit, FlowInv, TasksInv, TaskIs, Task
<1>6. /\ \A bar \in task.frame : bar.day < task.end => bar.edition = "final"
      /\ (p = "webull" => source.heeds_end_time) =>
           Covers(task.frame, StartOf(b, task.end), task.end)
  BY <1>1 DEF WindowInv, WindowOf
<1>7. runs \in Seq(Commit) /\ Len(runs) \in Nat
  BY <1>2, <1>3, LenProperties
<1>8. /\ Len(after) = Len(runs) + 1 /\ after[Len(runs) + 1] = commit
      /\ \A j \in 1..Len(runs) : after[j] = runs[j] /\ runs[j] \in Commit /\ runs[j].end \in Int
  <2>1. PICK U : U = Commit \union {commit}
    OBVIOUS
  <2>2. runs \in Seq(U) /\ commit \in U
    BY <1>7, <2>1, SeqMonotonic
  <2>3. /\ Len(after) = Len(runs) + 1 /\ after[Len(runs) + 1] = commit
        /\ \A j \in 1..Len(runs) : after[j] = runs[j]
    BY <1>2, <2>2, AppendProperties
  <2>4. ASSUME NEW j \in 1..Len(runs) PROVE runs[j] \in Commit /\ runs[j].end \in Int
    <3>1. runs[j] \in Commit
      BY <1>7, ElementOfSeq
    <3>2. runs[j].end \in 0..LastDay
      BY <3>1 DEF Commit
    <3>3. QED
      BY <3>1, <3>2
  <2>5. QED
    BY <2>3, <2>4
<1>9. Last(after) = commit
  BY <1>8 DEF Last
<1>10. ASSUME NEW d \in Days \ (Closed \union source.silent), d < task.end,
              StartOf(b, task.end) <= d, p = "webull" => source.heeds_end_time
       PROVE  Row(d) \in prices'
  <2>0. d <= task.end
    <3>1. d \in Int
      BY <1>3
    <3>2. task.end \in Int /\ d < task.end
      BY <1>5, <1>10
    <3> HIDE DEF task
    <3>3. QED
      BY <3>1, <3>2
  <2>1. PICK bar \in task.frame : bar.day = d
    BY <1>6, <1>10, <2>0 DEF Covers
  <2>2. bar.edition = "final"
    BY <1>6, <1>10, <2>1
  <2>3. Row(d) \in rows
    BY <2>1, <2>2
  <2>4. QED
    BY <1>4, <2>3 DEF Upserted
<1>11. ASSUME NEW d \in Int, d < task.end, Row(d) \in prices
       PROVE  Row(d) \in prices'
  <2>1. CASE \A s \in rows : Key(Row(d)) # Key(s)
    BY <1>4, <1>11, <2>1 DEF Upserted
  <2>2. ASSUME NEW s \in rows, Key(Row(d)) = Key(s) PROVE Row(d) \in rows
    <3>1. PICK bar \in task.frame :
            s = [provider |-> Provider(b), ticker |-> Ticker(b, i), day |-> bar.day,
                 edition |-> bar.edition]
      OBVIOUS
    <3>2. bar.day = d
      BY <2>2, <3>1 DEF Key
    <3>3. bar.edition = "final"
      BY <1>6, <1>11, <3>2
    <3>4. QED
      BY <3>1, <3>2, <3>3
  <2>3. QED
    BY <1>4, <2>1, <2>2 DEF Upserted
<1> HIDE DEF rows, Row
<1>12. ASSUME Regular(p, after), p = "webull" => source.heeds_end_time,
              NEW d \in (FirstOf(p, after)..(commit.end - 1)) \ (Closed \union source.silent),
              d >= FirstDay
       PROVE  Row(d) \in prices'
  <2>1. FirstOf(p, after) \in Int
    <3>1. after[1].end \in Int
      <4>1. CASE Len(runs) = 0
        BY <1>5, <1>8, <4>1
      <4>2. CASE Len(runs) # 0
        BY <1>7, <1>8, <4>2
      <4>3. QED
        BY <4>1, <4>2
    <3>2. QED
      BY <1>3, <3>1 DEF FirstOf
  <2>2. d \in Int /\ FirstOf(p, after) <= d /\ d < task.end /\ d \in Days
    BY <1>3, <1>5, <1>12, <2>1 DEF Days
  <2>3. CASE StartOf(b, task.end) <= d
    BY <1>10, <1>12, <2>2, <2>3
  <2>4. CASE ~(StartOf(b, task.end) <= d)
    <3>1. p = "yfinance" /\ StartOf(b, task.end) = task.end - Lookback
      BY <1>1, <2>2, <2>4 DEF FirstOf, StartOf
    <3>2. Len(runs) # 0
      <4>1. SUFFICES ASSUME Len(runs) = 0 PROVE FALSE
        OBVIOUS
      <4>2. FirstOf(p, after) = task.end - Lookback
        BY <1>5, <1>8, <3>1, <4>1 DEF FirstOf
      <4>3. QED
        BY <2>2, <2>4, <3>1, <4>2
    <3>3. /\ Len(runs) \in 1..(Len(after) - 1) /\ Last(runs) = runs[Len(runs)]
          /\ Last(runs).end \in Int
      BY <1>7, <1>8, <3>2 DEF Last
    <3>4. commit.end - Last(runs).end <= Lookback
      BY <1>8, <1>12, <3>1, <3>3 DEF Regular
    <3>5. d < Last(runs).end
      BY <1>3, <1>5, <2>2, <2>4, <3>1, <3>3, <3>4
    <3>6. FirstOf(p, runs) = FirstOf(p, after)
      BY <1>7, <1>8, <3>2 DEF FirstOf
    <3>7. Regular(p, runs)
      <4>1. ASSUME NEW j \in 1..(Len(runs) - 1)
            PROVE  /\ runs[j].end <= runs[j + 1].end
                   /\ p = "yfinance" => runs[j + 1].end - runs[j].end <= Lookback
        <5>1. j \in 1..(Len(after) - 1) /\ after[j] = runs[j] /\ after[j + 1] = runs[j + 1]
          BY <1>7, <1>8
        <5>2. QED
          BY <1>12, <5>1 DEF Regular
      <4>2. QED
        BY <4>1 DEF Regular
    <3>8. runs # <<>>
      BY <1>7, <3>2, EmptySeq
    <3>9. d \in (FirstOf(p, runs)..(Last(runs).end - 1)) \ (Closed \union source.silent)
      BY <1>12, <2>1, <2>2, <3>3, <3>5, <3>6
    <3>10. Row(d) \in prices
      BY <1>1, <1>2, <1>12, <3>7, <3>8, <3>9 DEF HoleFree, Row
    <3>11. QED
      BY <1>11, <2>2, <3>10
  <2>5. QED
    BY <2>3, <2>4
<1>13. QED
  BY <1>1, <1>4, <1>9, <1>12 DEF HoleFree, Row, FirstOf, Regular

\* No step leaves a hole behind a commit.
LEMMA NoHolesStays ==
  ASSUME PriceAssumption, FewSilentDays, FlowInv, WindowInv, NoHoles, IngestionNext \/ Beside
  PROVE  NoHoles'
<1>1. SUFFICES ASSUME NEW p \in Providers, NEW t \in Tickers PROVE HoleFree(p, t)'
  BY DEF NoHoles, HoleFree, FirstOf
<1>2. HoleFree(p, t)
  BY DEF NoHoles, HoleFree, FirstOf
<1>3. source' = source
  <2>1. CASE Tick \/ Beside
    BY <2>1 DEF Tick, Beside
  <2>2. ASSUME NEW b \in Batches,
               \/ \E q \in Providers, targets \in TargetLists : Start(b, q, targets)
               \/ \E q \in Providers : StartFails(b, q)
               \/ Summarise(b) \/ Kill(b)
        PROVE  source' = source
    BY <2>2 DEF Start, StartFails, Summarise, Kill
  <2>3. ASSUME NEW b \in Batches, NEW i \in DOMAIN tasks[b],
               TaskStep(b, i) \/ Throttled(b, i) \/ FetchFails(b, i)
        PROVE  source' = source
    BY <2>3, TaskSteps
  <2>4. QED
    BY <2>1, <2>2, <2>3 DEF IngestionNext
<1>4. ASSUME written'[<<p, t>>] = written[<<p, t>>],
             \A d : LET row == [provider |-> p, ticker |-> t, day |-> d, edition |-> "final"]
                    IN  row \in prices => row \in prices'
      PROVE  HoleFree(p, t)'
  BY <1>2, <1>3, <1>4 DEF HoleFree, FirstOf, Regular
<1>5. ASSUME NEW b \in Batches, NEW i \in DOMAIN tasks[b], Upsert(b, i), Commits(b, i)
      PROVE  HoleFree(p, t)'
  <2>1. batch[b].state = "running" /\ tasks[b][i].pc = "upsert"
    BY <1>5 DEF Upsert, At
  <2>2. CASE p = Provider(b) /\ t = Ticker(b, i)
    BY <1>2, <1>3, <1>5, <2>1, <2>2, CommitLeavesNoHole
  <2>3. CASE ~(p = Provider(b) /\ t = Ticker(b, i))
    <3> DEFINE rows == {[provider |-> Provider(b), ticker |-> Ticker(b, i), day |-> bar.day,
                         edition |-> bar.edition] : bar \in tasks[b][i].frame}
    <3>1. prices' = Upserted(rows)
      BY <1>5 DEF Commits
    <3>2. ASSUME NEW d
          PROVE  LET row == [provider |-> p, ticker |-> t, day |-> d, edition |-> "final"]
                 IN  row \in prices => row \in prices'
      <4> DEFINE row == [provider |-> p, ticker |-> t, day |-> d, edition |-> "final"]
      <4>1. \A s \in rows : s.provider = Provider(b) /\ s.ticker = Ticker(b, i)
        OBVIOUS
      <4>2. row.provider = p /\ row.ticker = t
        OBVIOUS
      <4> HIDE DEF rows, row
      <4>3. \A s \in rows : Key(row) # Key(s)
        BY <2>3, <4>1, <4>2 DEF Key
      <4>4. row \in prices => row \in prices'
        BY <3>1, <4>3 DEF Upserted
      <4>5. QED
        BY <4>4 DEF row
    <3>3. written'[<<p, t>>] = written[<<p, t>>]
      <4>1. <<Provider(b), Ticker(b, i)>> # <<p, t>>
        BY <2>3
      <4>2. written \in [Providers \X Tickers -> Seq(Commit)]
        BY DEF FlowInv, TypeOK
      <4>3. QED
        BY <1>5, <4>1, <4>2 DEF Commits
    <3>4. QED
      BY <1>4, <3>2, <3>3
  <2>4. QED
    BY <2>2, <2>3
<1>6. CASE UNCHANGED <<prices, written>>
  BY <1>4, <1>6
<1>7. ASSUME NEW b \in Batches,
             \/ \E q \in Providers, targets \in TargetLists : Start(b, q, targets)
             \/ \E q \in Providers : StartFails(b, q)
             \/ Summarise(b) \/ Kill(b)
      PROVE  UNCHANGED <<prices, written>>
  BY <1>7 DEF Start, StartFails, Summarise, Kill
<1>8. CASE Tick \/ Beside
  BY <1>6, <1>8 DEF Tick, Beside, flowVars
<1>9. ASSUME NEW b \in Batches, NEW i \in DOMAIN tasks[b],
             TaskStep(b, i) \/ Throttled(b, i) \/ FetchFails(b, i)
      PROVE  HoleFree(p, t)'
  <2>1. CASE Upsert(b, i)
    BY <1>5, <1>6, <2>1 DEF Upsert
  <2>2. CASE ~Upsert(b, i)
    <3>1. UNCHANGED <<prices, written>>
      BY <1>9, <2>2 DEF TaskStep, Begin, FetchYfinance, FetchPage, Record, Throttled, FetchFails
    <3>2. QED
      BY <1>6, <3>1
  <2>3. QED
    BY <2>1, <2>2
<1>10. QED
  BY <1>6, <1>7, <1>8, <1>9 DEF IngestionNext

\* Nothing has been stored to begin with.
LEMMA WindowsBegin == ASSUME Init PROVE WindowInv /\ NoHoles
<1>1. tasks = [b \in Batches |-> <<>>] /\ written = [s \in Providers \X Tickers |-> <<>>]
  BY DEF Init
<1>2. WindowInv
  BY <1>1, EmptySeq DEF WindowInv
<1>3. NoHoles
  BY <1>1 DEF NoHoles
<1>4. QED
  BY <1>2, <1>3

---------------------------------------------------------------------------
(* The validation: what it looks at.                                       *)

\* The flow's record.
CheckShape == check \in [next : Nat, began : Nat, errors : SUBSET ToSet(Checks),
                        warnings : SUBSET ToSet(Checks), raised : SUBSET ToSet(Checks),
                        status : {"running", "success", "partial", "failed"}]

\* Fields of a task that the argument looks at.
Shape == /\ clock \in Nat
         /\ DOMAIN tasks = Batches
         /\ \A b \in Batches : \A i \in DOMAIN tasks[b] :
              DOMAIN tasks[b][i] = DOMAIN NewTask
         /\ CheckShape

\* Rows are of known tickers and of no future day.
RowsAreSound == \A r \in prices : r.day \in Int /\ r.day <= Today /\ r.ticker \in Known

\* A task that is about to upsert its frame has no bar of the future in it.
PastOnly(task) == \A bar \in task.frame :
                    bar.day \in Int /\ (task.pc = "upsert" => bar.day <= Today)
FrameIsPast(b, i) == PastOnly(tasks[b][i])
FramesArePast == \A b \in Batches : \A i \in DOMAIN tasks[b] : FrameIsPast(b, i)

AlarmInv == Shape /\ RowsAreSound /\ FramesArePast /\ NoAlarm

----------------------------------------------------------------------------
\* The clock only moves forward, by half days, and the day with it.
LEMMA DaysDoNotGoBack ==
  ASSUME clock \in Nat, clock' = clock \/ clock' = clock + 1
  PROVE  Today \in Nat /\ Today' \in Nat /\ Today <= Today' /\ clock' \in Nat
BY DEF Today

\* A step that replaces one task by one of the same shape whose frame, if it is about to be
\* upserted, is of the past.
LEMMA OneTask ==
  ASSUME Shape, FramesArePast, NEW b \in Batches, NEW i \in DOMAIN tasks[b], NEW task,
         DOMAIN task = DOMAIN NewTask, PastOnly(task),
         Becomes(b, i, task), clock' = clock, check' = check
  PROVE  Shape' /\ FramesArePast'
<1>1. /\ DOMAIN tasks' = Batches
      /\ \A c \in Batches : DOMAIN tasks'[c] = DOMAIN tasks[c]
      /\ \A c \in Batches : \A j \in DOMAIN tasks[c] :
           tasks'[c][j] = IF c = b /\ j = i THEN task ELSE tasks[c][j]
  BY DEF Becomes, Shape, CheckShape
<1>2. Shape'
  BY <1>1 DEF Shape, CheckShape, NewTask
<1>3. FramesArePast'
  BY <1>1 DEF FramesArePast, FrameIsPast, PastOnly, Today
<1>4. QED
  BY <1>2, <1>3

\* The task has failed, or ended: nothing is left to upsert.
LEMMA NothingToUpsert ==
  ASSUME Shape, FramesArePast, NEW b \in Batches, NEW i \in DOMAIN tasks[b],
         NEW status, NEW rows, clock' = clock, check' = check,
         Becomes(b, i, Ended(status, rows)) \/ Becomes(b, i, Result(status, rows))
  PROVE  Shape' /\ FramesArePast'
<1>1. /\ DOMAIN Ended(status, rows) = DOMAIN NewTask /\ PastOnly(Ended(status, rows))
      /\ DOMAIN Result(status, rows) = DOMAIN NewTask /\ PastOnly(Result(status, rows))
  BY DEF Ended, Result, NewTask, PastOnly
<1>2. CASE Becomes(b, i, Ended(status, rows))
  BY <1>1, <1>2, OneTask
<1>3. CASE Becomes(b, i, Result(status, rows))
  BY <1>1, <1>3, OneTask
<1>4. QED
  BY <1>2, <1>3

\* Only frames of the past pass the validation.
LEMMA ValidFrames ==
  ASSUME Shape, FramesArePast, NEW b \in Batches, NEW i \in DOMAIN tasks[b], NEW frame,
         \A bar \in frame : bar.day \in Int,
         Validate(b, i, frame), clock' = clock, check' = check
  PROVE  Shape' /\ FramesArePast'
<1>1. CASE \E bar \in frame : bar.day > Today
  BY <1>1, NothingToUpsert DEF Validate, Fails
<1>2. CASE frame = {}
  BY <1>2, NothingToUpsert DEF Validate, Fails
<1>3. CASE frame # {} /\ ~(\E bar \in frame : bar.day > Today)
  <2> DEFINE task == [NewTask EXCEPT !.pc = "upsert", !.end = tasks[b][i].end,
                                     !.frame = frame]
  <2>1. Becomes(b, i, task)
    BY <1>3 DEF Validate
  <2>2. \A bar \in frame : bar.day <= Today
    BY <1>3 DEF Today, Shape, CheckShape
  <2>3. DOMAIN task = DOMAIN NewTask /\ PastOnly(task)
    BY <2>2 DEF NewTask, PastOnly
  <2>4. QED
    BY <2>1, <2>3, OneTask
<1>4. QED
  BY <1>1, <1>2, <1>3

----------------------------------------------------------------------------
(* The steps of a task.                                                    *)

\* A new fetch has a window that ends today at the latest.
LEMMA BeginKeeps ==
  ASSUME Shape, FramesArePast, NEW b \in Batches, NEW i \in DOMAIN tasks[b], Begin(b, i),
         check' = check
  PROVE  Shape' /\ FramesArePast'
<1> DEFINE task == [NewTask EXCEPT !.pc = "fetch", !.start = WindowStart(b),
                                   !.end = Today, !.before = Today + 1]
<1>1. DOMAIN task = DOMAIN NewTask /\ PastOnly(task)
  BY DEF NewTask, PastOnly
<1>2. Becomes(b, i, task) /\ clock' = clock
  BY DEF Begin
<1>3. QED
  BY <1>1, <1>2, OneTask

\* A frame has only complete days of its window: the partial day is dropped.
LEMMA FetchKeeps ==
  ASSUME Shape, FramesArePast, PriceAssumption, NEW b \in Batches,
         NEW i \in DOMAIN tasks[b],
         FetchYfinance(b, i) \/ FetchPage(b, i) \/ Throttled(b, i) \/ FetchFails(b, i),
         check' = check
  PROVE  Shape' /\ FramesArePast'
<1> DEFINE task == tasks[b][i]
<1>1. /\ DOMAIN task = DOMAIN NewTask
      /\ \A bar \in task.frame : bar.day \in Int
  BY DEF Shape, CheckShape, FramesArePast, FrameIsPast, PastOnly
<1>2. \A days \in SUBSET Sessions : \A bar \in BarsOf(days) : bar.day \in Int
  BY DEF BarsOf, Sessions, Days, PriceAssumption
<1>3. CASE FetchYfinance(b, i)
  <2> DEFINE bars == BarsOf(Sessions \intersect task.start..task.end)
             more == bars \union {[day |-> Today + 1, edition |-> "partial"]}
  <2>1. (Validate(b, i, bars) \/ Validate(b, i, more)) /\ clock' = clock
    BY <1>3 DEF FetchYfinance
  <2>2. \A bar \in bars : bar.day \in Int
    BY <1>2
  <2>3. \A bar \in more : bar.day \in Int
    BY <2>2 DEF Shape, CheckShape, Today
  <2> HIDE DEF bars, more
  <2>4. QED
    BY <2>1, <2>2, <2>3, ValidFrames
<1>4. CASE FetchPage(b, i)
  <2> DEFINE page   == BarsOf(PageDays(task.before))
             oldest == Min({bar.day : bar \in page})
             frame  == task.frame \union
                       {bar \in page : \A old \in task.frame : old.day # bar.day}
             window == {bar \in frame : bar.day \in task.start..task.end}
             next   == [task EXCEPT !.frame = frame, !.before = oldest,
                                    !.seen = @ \union {oldest}, !.attempts = 0,
                                    !.pages = @ + 1]
  <2>1. \A bar \in frame : bar.day \in Int
    <3>1. PageDays(task.before) \in SUBSET Sessions
      BY DEF PageDays
    <3>2. QED
      BY <3>1, <1>1, <1>2
  <2>2. (Validate(b, i, window) \/ Becomes(b, i, next)) /\ clock' = clock /\ task.pc = "fetch"
    BY <1>4 DEF FetchPage, At
  <2>3. CASE Validate(b, i, window)
    <3>1. \A bar \in window : bar.day \in Int
      BY <2>1
    <3> HIDE DEF window
    <3>2. QED
      BY <2>2, <2>3, <3>1, ValidFrames
  <2>4. CASE Becomes(b, i, next)
    <3> HIDE DEF frame, oldest
    <3>1. DOMAIN next = DOMAIN NewTask /\ PastOnly(next)
      BY <1>1, <2>1, <2>2 DEF NewTask, PastOnly
    <3> HIDE DEF next
    <3>2. QED
      BY <2>2, <2>4, <3>1, OneTask
  <2>5. QED
    BY <2>2, <2>3, <2>4
<1>5. CASE Throttled(b, i)
  <2> DEFINE again == [task EXCEPT !.attempts = @ + 1]
  <2>1. (Fails(b, i) \/ Becomes(b, i, again)) /\ clock' = clock /\ task.pc = "fetch"
    BY <1>5 DEF Throttled, At
  <2>2. DOMAIN again = DOMAIN NewTask /\ PastOnly(again)
    BY <1>1, <2>1 DEF NewTask, PastOnly
  <2> HIDE DEF again
  <2>3. QED
    BY <2>1, <2>2, OneTask, NothingToUpsert DEF Fails
<1>6. CASE FetchFails(b, i)
  BY <1>6, NothingToUpsert DEF FetchFails, Fails
<1>7. QED
  BY <1>3, <1>4, <1>5, <1>6

\* Only rows of a frame are written, and a frame is of the past.
LEMMA UpsertKeeps ==
  ASSUME Shape, FramesArePast, RowsAreSound, NEW b \in Batches,
         NEW i \in DOMAIN tasks[b], Upsert(b, i), check' = check
  PROVE  Shape' /\ FramesArePast' /\ RowsAreSound'
<1>1. Shape' /\ FramesArePast' /\ clock' = clock
  BY NothingToUpsert DEF Upsert, Fails
<1>2. Today' = Today
  BY <1>1 DEF Today
<1>3. CASE UNCHANGED prices
  BY <1>1, <1>2, <1>3 DEF RowsAreSound
<1>4. CASE Commits(b, i)
  <2>1. \A bar \in tasks[b][i].frame : bar.day \in Int /\ bar.day <= Today
    BY DEF Upsert, At, FramesArePast, FrameIsPast, PastOnly
  <2>2. \A r \in prices' : r.day \in Int /\ r.day <= Today /\ r.ticker \in Known
    BY <1>4, <2>1 DEF Commits, Upserted, RowsAreSound
  <2>3. QED
    BY <1>1, <1>2, <2>2 DEF RowsAreSound
<1>5. QED
  BY <1>3, <1>4 DEF Upsert

\* Recording a ticker touches neither its rows nor its frame.
LEMMA RecordKeeps ==
  ASSUME Shape, FramesArePast, NEW b \in Batches, NEW i \in DOMAIN tasks[b], Record(b, i),
         check' = check
  PROVE  Shape' /\ FramesArePast'
BY NothingToUpsert DEF Record

----------------------------------------------------------------------------
(* The steps of a batch.                                                   *)

\* A batch whose tasks are all new, or all gone.
LEMMA AllTasks ==
  ASSUME Shape, FramesArePast, NEW b \in Batches, NEW new,
         tasks' = [tasks EXCEPT ![b] = new], clock' = clock, check' = check,
         \A i \in DOMAIN new : new[i] = NewTask
  PROVE  Shape' /\ FramesArePast'
<1>1. /\ DOMAIN tasks' = Batches
      /\ \A c \in Batches : tasks'[c] = IF c = b THEN new ELSE tasks[c]
  BY DEF Shape, CheckShape
<1>2. PastOnly(NewTask)
  BY DEF PastOnly, NewTask
<1>3. Shape'
  BY <1>1 DEF Shape, CheckShape
<1>4. FramesArePast'
  BY <1>1, <1>2 DEF FramesArePast, FrameIsPast, PastOnly, Today
<1>5. QED
  BY <1>3, <1>4

\* A step of a task keeps the parts of the invariant, whichever step it is.
LEMMA BatchKeeps ==
  ASSUME Shape, FramesArePast, NEW b \in Batches, check' = check,
         \/ \E p \in Providers, targets \in TargetLists : Start(b, p, targets)
         \/ \E p \in Providers : StartFails(b, p)
         \/ Summarise(b) \/ Kill(b)
  PROVE  Shape' /\ FramesArePast'
<1>1. CASE \E p \in Providers, targets \in TargetLists : Start(b, p, targets)
  <2>1. PICK p \in Providers, targets \in TargetLists : Start(b, p, targets)
    BY <1>1
  <2> DEFINE new == [i \in DOMAIN targets |-> NewTask]
  <2>2. tasks' = [tasks EXCEPT ![b] = new] /\ clock' = clock
    BY <2>1 DEF Start
  <2>3. \A i \in DOMAIN new : new[i] = NewTask
    OBVIOUS
  <2> HIDE DEF new
  <2>4. QED
    BY <2>2, <2>3, AllTasks
<1>2. CASE \E p \in Providers : StartFails(b, p)
  BY <1>2 DEF StartFails, Shape, CheckShape, FramesArePast, FrameIsPast, PastOnly, Today
<1>3. CASE Summarise(b) \/ Kill(b)
  <2>1. tasks' = [tasks EXCEPT ![b] = <<>>] /\ clock' = clock
    BY <1>3 DEF Summarise, Kill
  <2>2. \A i \in DOMAIN <<>> : <<>>[i] = NewTask
    OBVIOUS
  <2>3. QED
    BY <2>1, <2>2, AllTasks
<1>4. QED
  BY <1>1, <1>2, <1>3

----------------------------------------------------------------------------
(* The steps of the flows, of the clock and of the validation.             *)

\* A later day makes no row one of the future.
LEMMA TickKeeps ==
  ASSUME AlarmInv, Tick, check' = check
  PROVE  AlarmInv'
<1>1. /\ Today \in Nat /\ Today' \in Nat /\ Today <= Today' /\ clock' \in Nat
      /\ tasks' = tasks /\ prices' = prices
  BY DaysDoNotGoBack DEF Tick, flowVars, AlarmInv, Shape, CheckShape
<1>2. Shape' /\ NoAlarm'
  BY <1>1 DEF AlarmInv, Shape, CheckShape, NoAlarm
<1>3. RowsAreSound'
  BY <1>1 DEF AlarmInv, RowsAreSound
<1>4. FramesArePast'
  BY <1>1 DEF AlarmInv, FramesArePast, FrameIsPast, PastOnly
<1>5. QED
  BY <1>2, <1>3, <1>4 DEF AlarmInv

\* The steps of the ingestion flows keep the invariant.
LEMMA FlowKeeps ==
  ASSUME AlarmInv, PriceAssumption, IngestionNext, check' = check
  PROVE  AlarmInv'
<1>1. NoAlarm'
  BY DEF AlarmInv, NoAlarm
<1>2. ASSUME UNCHANGED <<prices, clock>>, Shape', FramesArePast'
      PROVE  AlarmInv'
  BY <1>1, <1>2 DEF AlarmInv, RowsAreSound, Today
<1>3. CASE Tick
  BY <1>3, TickKeeps
<1>4. ASSUME NEW b \in Batches,
             \/ \E p \in Providers, targets \in TargetLists : Start(b, p, targets)
             \/ \E p \in Providers : StartFails(b, p)
             \/ Summarise(b) \/ Kill(b)
      PROVE  AlarmInv'
  <2>1. UNCHANGED <<prices, clock>>
    BY <1>4 DEF Start, StartFails, Summarise, Kill
  <2>2. QED
    BY <1>2, <1>4, <2>1, BatchKeeps DEF AlarmInv
<1>5. ASSUME NEW b \in Batches, NEW i \in DOMAIN tasks[b],
             TaskStep(b, i) \/ Throttled(b, i) \/ FetchFails(b, i)
      PROVE  AlarmInv'
  <2>1. CASE Begin(b, i)
    BY <1>2, <2>1, BeginKeeps DEF AlarmInv, Begin
  <2>2. CASE FetchYfinance(b, i) \/ FetchPage(b, i) \/ Throttled(b, i) \/ FetchFails(b, i)
    <3>1. UNCHANGED <<prices, clock>>
      BY <2>2 DEF FetchYfinance, FetchPage, Throttled, FetchFails
    <3>2. QED
      BY <1>2, <2>2, <3>1, FetchKeeps DEF AlarmInv
  <2>3. CASE Upsert(b, i)
    BY <1>1, <2>3, UpsertKeeps DEF AlarmInv
  <2>4. CASE Record(b, i)
    BY <1>2, <2>4, RecordKeeps DEF AlarmInv, Record
  <2>5. QED
    BY <1>5, <2>1, <2>2, <2>3, <2>4 DEF TaskStep
<1>6. QED
  BY <1>3, <1>4, <1>5 DEF IngestionNext

\* The two severe checks find nothing, so that only a check that raises is an error.
LEMMA ChecksFindNothing ==
  ASSUME Shape, RowsAreSound
  PROVE  \A name \in Severe : ~Breached(name)
<1>1. Today \in Int
  BY DEF Today, Shape, CheckShape
<1>2. ~(\E r \in prices : r.day > Today) /\ ~(\E r \in prices : r.ticker \notin Known)
  BY <1>1 DEF RowsAreSound
<1>3. ~Breached("future_price_dates") /\ ~Breached("orphan_tickers")
  BY <1>2 DEF Breached
<1>4. QED
  BY <1>3 DEF Severe

\* Checks only read the prices; over sound rows none of them is severe.
LEMMA ValidationKeeps ==
  ASSUME AlarmInv, Validation \/ RunCheck \/ Conclude
  PROVE  AlarmInv'
<1>1. UNCHANGED <<clock, prices, tasks>>
  BY DEF Validation, RunCheck, Conclude, vars, flowVars
<1>2. RowsAreSound' /\ FramesArePast'
  BY <1>1 DEF AlarmInv, RowsAreSound, FramesArePast, FrameIsPast, PastOnly, Today
<1>3. CheckShape' /\ NoAlarm'
  <2>0. CheckShape /\ NoAlarm
    BY DEF AlarmInv, Shape
  <2>1. CASE Validation
    <3>1. Today \in Nat
      BY DEF Today, AlarmInv, Shape
    <3>2. check' = [check EXCEPT !.next = 1, !.began = Today]
      BY <2>1 DEF Validation
    <3>3. QED
      BY <2>0, <3>1, <3>2 DEF CheckShape, NoAlarm
  <2>2. CASE RunCheck
    <3> DEFINE name == Checks[check.next]
    <3>1. name \in ToSet(Checks) /\ check.next \in Nat
      BY <2>0, <2>2 DEF RunCheck, ToSet, CheckShape
    <3>2. name \in Severe => ~Breached(name)
      BY ChecksFindNothing DEF AlarmInv
    <3> HIDE DEF name
    <3>3. \/ check' = [check EXCEPT !.next = @ + 1]
          \/ check' = [check EXCEPT !.next = @ + 1, !.warnings = @ \union {name}]
          \/ check' = [check EXCEPT !.next = @ + 1, !.errors = @ \union {name},
                                    !.raised = @ \union {name}]
      BY <2>2, <3>2 DEF RunCheck, name
    <3>4. CASE check' = [check EXCEPT !.next = @ + 1]
      <4>1. CheckShape'
        <5>1. check.next + 1 \in Nat
          BY <2>0, <3>1 DEF CheckShape
        <5>2. QED
          BY <2>0, <3>4, <5>1 DEF CheckShape
      <4>2. check'.errors = check.errors /\ check'.raised = check.raised
        BY <2>0, <3>4 DEF CheckShape
      <4>3. QED
        BY <2>0, <4>1, <4>2 DEF NoAlarm
    <3>5. CASE check' = [check EXCEPT !.next = @ + 1, !.warnings = @ \union {name}]
      <4>1. CheckShape'
        <5>1. /\ check.next + 1 \in Nat
              /\ check.warnings \union {name} \in SUBSET ToSet(Checks)
          BY <2>0, <3>1 DEF CheckShape
        <5>2. QED
          BY <2>0, <3>5, <5>1 DEF CheckShape
      <4>2. check'.errors = check.errors /\ check'.raised = check.raised
        BY <2>0, <3>5 DEF CheckShape
      <4>3. QED
        BY <2>0, <4>1, <4>2 DEF NoAlarm
    <3>6. CASE check' = [check EXCEPT !.next = @ + 1, !.errors = @ \union {name},
                                     !.raised = @ \union {name}]
      <4>1. CheckShape'
        <5>1. /\ check.next + 1 \in Nat
              /\ check.errors \union {name} \in SUBSET ToSet(Checks)
              /\ check.raised \union {name} \in SUBSET ToSet(Checks)
          BY <2>0, <3>1 DEF CheckShape
        <5>2. QED
          BY <2>0, <3>6, <5>1 DEF CheckShape
      <4>2. /\ check'.errors = check.errors \union {name}
            /\ check'.raised = check.raised \union {name}
        BY <2>0, <3>6 DEF CheckShape
      <4>3. QED
        BY <2>0, <4>1, <4>2 DEF NoAlarm
    <3>7. QED
      BY <3>3, <3>4, <3>5, <3>6
  <2>3. CASE Conclude
    <3>1. \E verdict \in {"success", "partial", "failed"} :
             check' = [check EXCEPT !.status = verdict]
      <4>1. CASE check.errors # {}
        BY <2>3, <4>1 DEF Conclude
      <4>2. CASE check.errors = {} /\ check.warnings # {}
        BY <2>3, <4>2 DEF Conclude
      <4>3. CASE check.errors = {} /\ check.warnings = {}
        BY <2>3, <4>3 DEF Conclude
      <4>4. QED
        BY <4>1, <4>2, <4>3
    <3>2. QED
      BY <2>0, <3>1 DEF CheckShape, NoAlarm
  <2>4. QED
    BY <2>1, <2>2, <2>3
<1>4. Shape'
  BY <1>1, <1>3 DEF AlarmInv, Shape
<1>5. QED
  BY <1>2, <1>3, <1>4 DEF AlarmInv

----------------------------------------------------------------------------
\* The invariant holds, of any batches beside any validation.
LEMMA AlarmHolds == ValSpec => []AlarmInv
<1>1. ValInit => AlarmInv
  BY DEF ValInit, Init, AlarmInv, Shape, CheckShape, RowsAreSound, FramesArePast, NoAlarm
<1>2. AlarmInv /\ [ValNext]_allVars => AlarmInv'
  <2> SUFFICES ASSUME AlarmInv, [ValNext]_allVars
               PROVE  AlarmInv'
    OBVIOUS
  <2>1. CASE IngestionNext /\ UNCHANGED check
    BY <2>1, FlowKeeps, PriceAssumption
  <2>2. CASE Validation \/ RunCheck \/ Conclude
    BY <2>2, ValidationKeeps
  <2>3. CASE UNCHANGED allVars
    BY <2>3 DEF allVars, vars, flowVars, AlarmInv, Shape, CheckShape, RowsAreSound,
                FramesArePast, FrameIsPast, PastOnly, Today, NoAlarm
  <2>4. QED
    BY <2>1, <2>2, <2>3 DEF ValNext, Over
<1>3. QED
  BY <1>1, <1>2, PTL DEF ValSpec

\* The flow that validates the database fails only because a check could not be made:
\* neither an unknown ticker nor a bar of a later day gets past the price flows.
THEOREM TheFlowsGiveNoAlarm == ValSpec => []NoAlarm
<1>1. AlarmInv => NoAlarm
  BY DEF AlarmInv
<1>2. QED
  BY <1>1, AlarmHolds, PTL

----------------------------------------------------------------------------
(* The verdict of the validation.                                          *)

\* The checks that found something, or could not be made.
Noted == check.errors \union check.warnings

EveryMemberHasRows == \A m \in Members : \E r \in prices : r.ticker = m
SomeRowIsRecent    == \E r \in prices : check.began - r.day <= StaleDays

\* What a check has not found it would not find later: rows are replaced but never deleted.
CleanInv ==
  /\ check.next > 0 => check.began <= Today
  /\ check.next > 2 => "universe_coverage" \in Noted \/ EveryMemberHasRows
  /\ check.next > 3 => "recent_ingest" \in Noted \/ SomeRowIsRecent
  /\ check.status # "running" => check.next = 5
  /\ check.status = "success" => Noted = {}

\* Rows change by a commit only, and the clock by a tick.
LEMMA TableSteps ==
  ASSUME [ValNext]_allVars
  PROVE  /\ clock' = clock \/ clock' = clock + 1
         /\ \/ prices' = prices
            \/ \E b \in Batches : \E i \in DOMAIN tasks[b] : Commits(b, i)
<1>1. CASE Tick
  BY <1>1 DEF Tick
<1>2. ASSUME NEW b \in Batches,
             \/ \E p \in Providers : StartFails(b, p) \/ \E targets \in TargetLists : Start(b, p, targets)
             \/ Summarise(b) \/ Kill(b)
      PROVE  UNCHANGED <<clock, prices>>
  BY <1>2 DEF Start, StartFails, Summarise, Kill
<1>3. ASSUME NEW b \in Batches, NEW i \in DOMAIN tasks[b],
             TaskStep(b, i) \/ Throttled(b, i) \/ FetchFails(b, i)
      PROVE  clock' = clock /\ (prices' = prices \/ Commits(b, i))
  <2>1. CASE Upsert(b, i)
    BY <2>1 DEF Upsert
  <2>2. CASE ~Upsert(b, i)
    BY <1>3, <2>2 DEF TaskStep, Begin, FetchYfinance, FetchPage, Throttled, FetchFails, Record
  <2>3. QED
    BY <2>1, <2>2
<1>4. CASE Validation \/ RunCheck \/ Conclude \/ UNCHANGED allVars
  BY <1>4 DEF Validation, RunCheck, Conclude, vars, allVars
<1>5. QED
  BY <1>1, <1>2, <1>3, <1>4 DEF ValNext, IngestionNext, Over

\* No step deletes the last row of a ticker and a day.
LEMMA RowsStay ==
  ASSUME AlarmInv, [ValNext]_allVars
  PROVE  \A r \in prices : \E s \in prices' : s.ticker = r.ticker /\ s.day = r.day
<1>1. ASSUME NEW b \in Batches, NEW i \in DOMAIN tasks[b], Commits(b, i), NEW r \in prices
      PROVE  \E s \in prices' : s.ticker = r.ticker /\ s.day = r.day
  <2> DEFINE rows == {[provider |-> Provider(b), ticker |-> Ticker(b, i), day |-> bar.day,
                       edition |-> bar.edition] : bar \in tasks[b][i].frame}
  <2>1. prices' = Upserted(rows)
    BY <1>1 DEF Commits
  <2> HIDE DEF rows
  <2>2. r \in prices' \/ \E s \in rows : Key(s) = Key(r)
    BY <2>1 DEF Upserted
  <2>3. QED
    BY <2>1, <2>2 DEF Upserted, Key
<1>2. QED
  BY <1>1, TableSteps

\* As long as no check is made, what holds of the table goes on to hold.
LEMMA CleanStays ==
  ASSUME AlarmInv, CleanInv, [ValNext]_allVars, check' = check, AlarmInv'
  PROVE  CleanInv'
<1>1. Today \in Nat /\ Today' \in Nat /\ Today <= Today'
  <2>1. clock \in Nat /\ (clock' = clock \/ clock' = clock + 1)
    BY TableSteps DEF AlarmInv, Shape
  <2>2. QED
    BY <2>1, DaysDoNotGoBack
<1>2. Noted' = Noted
  BY DEF Noted
<1>3. EveryMemberHasRows => EveryMemberHasRows'
  BY RowsStay DEF EveryMemberHasRows
<1>4. SomeRowIsRecent => SomeRowIsRecent'
  BY RowsStay DEF SomeRowIsRecent
<1>5. check.began \in Nat
  BY DEF AlarmInv, Shape, CheckShape
<1>6. QED
  BY <1>1, <1>2, <1>3, <1>4, <1>5 DEF CleanInv

\* A check, or the verdict, says what holds now.
LEMMA CheckIsClean ==
  ASSUME AlarmInv, CleanInv, Validation \/ RunCheck \/ Conclude, ValidationAssumption
  PROVE  CleanInv'
<1>1. /\ UNCHANGED <<clock, prices>> /\ CheckShape /\ Today \in Nat /\ StaleDays \in Nat
      /\ \A r \in prices : r.day \in Int
  BY DEF AlarmInv, Shape, RowsAreSound, Validation, RunCheck, Conclude, vars, Today,
         ValidationAssumption
<1>2. Today' = Today /\ EveryMemberHasRows' = EveryMemberHasRows
  BY <1>1 DEF Today, EveryMemberHasRows
<1>3. CASE Validation
  <2>1. /\ check'.next = 1 /\ check'.began = Today /\ check'.status = check.status
        /\ check.next = 0
    BY <1>1, <1>3 DEF Validation, CheckShape
  <2>2. check.status = "running"
    BY <2>1 DEF CleanInv
  <2>3. QED
    BY <1>1, <1>2, <2>1, <2>2 DEF CleanInv
<1>4. CASE RunCheck
  <2> DEFINE name == Checks[check.next]
  <2>1. /\ check.next \in 1..4 /\ name \in ToSet(Checks)
        /\ check.next = 2 => name = "universe_coverage"
        /\ check.next = 3 => name = "recent_ingest"
    BY <1>4 DEF RunCheck, Checks, ToSet
  <2> HIDE DEF name
  <2>2. /\ check'.next = check.next + 1 /\ check'.began = check.began
        /\ check'.status = check.status
        /\ Noted \subseteq Noted' /\ (~Breached(name) \/ name \in Noted')
    <3>1. \/ ~Breached(name) /\ check' = [check EXCEPT !.next = @ + 1]
          \/ check' = [check EXCEPT !.next = @ + 1, !.warnings = @ \union {name}]
          \/ check' = [check EXCEPT !.next = @ + 1, !.errors = @ \union {name}]
          \/ check' = [check EXCEPT !.next = @ + 1, !.errors = @ \union {name},
                                    !.raised = @ \union {name}]
      BY <1>4 DEF RunCheck, name
    <3>2. /\ DOMAIN check = {"next", "began", "errors", "warnings", "raised", "status"}
          /\ check = [f \in DOMAIN check |-> check[f]]
      BY <1>1 DEF CheckShape
    <3>3. /\ check.errors \subseteq check'.errors /\ check.warnings \subseteq check'.warnings
          /\ ~Breached(name) \/ name \in check'.errors \/ name \in check'.warnings
          /\ check'.next = check.next + 1 /\ check'.began = check.began
          /\ check'.status = check.status
      <4>1. CASE ~Breached(name) /\ check' = [check EXCEPT !.next = @ + 1]
        BY <3>2, <4>1
      <4>2. CASE check' = [check EXCEPT !.next = @ + 1, !.warnings = @ \union {name}]
        BY <3>2, <4>2
      <4>3. CASE check' = [check EXCEPT !.next = @ + 1, !.errors = @ \union {name}]
        BY <3>2, <4>3
      <4>4. CASE check' = [check EXCEPT !.next = @ + 1, !.errors = @ \union {name},
                                        !.raised = @ \union {name}]
        BY <3>2, <4>4
      <4>5. QED
        BY <3>1, <4>1, <4>2, <4>3, <4>4
    <3>4. QED
      BY <3>3 DEF Noted
  <2>3. check.next = 2 => "universe_coverage" \in Noted' \/ EveryMemberHasRows'
    BY <1>2, <2>1, <2>2 DEF Breached, EveryMemberHasRows
  <2>4. check.next = 3 => "recent_ingest" \in Noted' \/ SomeRowIsRecent'
    <3>1. SUFFICES ASSUME check.next = 3, ~Breached("recent_ingest") PROVE SomeRowIsRecent'
      BY <2>1, <2>2
    <3>2. PICK r \in prices : ~(Today - r.day > StaleDays)
      BY <3>1 DEF Breached
    <3>3. check.began <= Today /\ check.began \in Nat
      BY <1>1, <3>1 DEF CleanInv, CheckShape
    <3>4. check'.began - r.day <= StaleDays
      BY <1>1, <2>2, <3>2, <3>3
    <3>5. QED
      BY <1>1, <3>4 DEF SomeRowIsRecent
  <2>5. SomeRowIsRecent' = SomeRowIsRecent
    BY <1>1, <2>2 DEF SomeRowIsRecent
  <2>6. check.status = "running"
    BY <2>1 DEF CleanInv
  <2>7. QED
    BY <1>2, <2>1, <2>2, <2>3, <2>4, <2>5, <2>6 DEF CleanInv
<1>5. CASE Conclude
  <2>1. /\ check'.next = check.next /\ check.next = 5 /\ check'.began = check.began
        /\ check'.status = "success" => Noted = {}
        /\ Noted' = Noted
    BY <1>1, <1>5 DEF Conclude, CheckShape, Checks, Noted
  <2>2. SomeRowIsRecent' = SomeRowIsRecent
    BY <1>1, <2>1 DEF SomeRowIsRecent
  <2>3. QED
    BY <1>2, <2>1, <2>2 DEF CleanInv
<1>6. QED
  BY <1>3, <1>4, <1>5

\* A verdict of success is true of the table, now and for ever, although each check read
\* another state of it.
THEOREM CleanBillIsTrue == ValSpec => []CleanBillHolds
<1>1. ValInit => CleanInv
  BY DEF ValInit, CleanInv
<1>2. AlarmInv /\ AlarmInv' /\ CleanInv /\ [ValNext]_allVars => CleanInv'
  <2> SUFFICES ASSUME AlarmInv, AlarmInv', CleanInv, [ValNext]_allVars PROVE CleanInv'
    OBVIOUS
  <2>1. CASE Validation \/ RunCheck \/ Conclude
    BY <2>1, CheckIsClean, ValidationAssumption
  <2>2. CASE ~(Validation \/ RunCheck \/ Conclude)
    <3>1. check' = check
      BY <2>2 DEF ValNext, Over, allVars
    <3>2. QED
      BY <3>1, CleanStays
  <2>3. QED
    BY <2>1, <2>2
<1>3. CleanInv => CleanBillHolds
  BY DEF CleanInv, CleanBillHolds, EveryMemberHasRows, SomeRowIsRecent
<1>4. QED
  BY <1>1, <1>2, <1>3, AlarmHolds, PTL DEF ValSpec

----------------------------------------------------------------------------
(* The price flows, with a validation beside them.                         *)

\* The validation reads, and counts a failure of its own.
LEMMA StepsAre ==
  ASSUME PriceAssumption, FlowInv, [ValNext]_allVars
  PROVE  IngestionNext \/ Beside
<1>1. faults \in 0..MaxFaults /\ MaxFaults \in Nat
  BY DEF FlowInv, TypeOK, PriceAssumption
<1>2. CASE Validation \/ RunCheck \/ Conclude \/ UNCHANGED allVars
  <2>1. /\ UNCHANGED <<clock, source, prices, lineage, batch, tasks, written, hit>>
        /\ faults' = faults \/ (faults < MaxFaults /\ faults' = faults + 1)
    BY <1>2 DEF Validation, RunCheck, Conclude, allVars, vars, flowVars
  <2>2. QED
    BY <1>1, <2>1 DEF Beside
<1>3. QED
  BY <1>2 DEF ValNext, Over

\* The tasks are tied to their batches, whatever overlaps and fails.
LEMMA FlowHolds == ValSpec => []FlowInv
<1>1. ValInit => FlowInv
  BY FlowBegins, PriceAssumption DEF ValInit
<1>2. FlowInv /\ [ValNext]_allVars => FlowInv'
  BY StepsAre, FlowStays, PriceAssumption
<1>3. QED
  BY <1>1, <1>2, PTL DEF ValSpec

\* Type correctness: no two rows of prices have one key.
THEOREM FlowsAreTyped == ValSpec => []TypeOK
<1>1. FlowInv => TypeOK
  BY DEF FlowInv
<1>2. QED
  BY <1>1, FlowHolds, PTL

\* No task goes on from more pages than there are days, however Webull answers.
THEOREM DownloadsEnd == ValSpec => []DownloadEnds
<1>1. FlowInv => DownloadEnds
  BY DownloadsAreFinite, PriceAssumption
<1>2. QED
  BY <1>1, FlowHolds, PTL

\* The books of the batches hold.
LEMMA BooksHold == ValSpec => []BooksInv
<1>1. ValInit => BooksInv
  BY BooksBegin DEF ValInit
<1>2. FlowInv /\ BooksInv /\ [ValNext]_allVars => BooksInv'
  BY StepsAre, BooksStay, PriceAssumption
<1>3. QED
  BY <1>1, <1>2, FlowHolds, PTL DEF ValSpec

\* What a batch reports is what it did: it counts no row that it has not stored, and if no
\* failure left a task half known, all that it has.
THEOREM SummariesAreTrue == ValSpec => []SummaryIsTrue
<1>1. BooksInv => SummaryIsTrue
  BY BooksSay
<1>2. QED
  BY <1>1, BooksHold, PTL

\* No commit goes unrecorded without a failure that explains it, and no lineage row claims
\* rows that were not stored.
THEOREM EveryWriteIsRecorded == ValSpec => []WritesAreRecorded
<1>1. BooksInv => WritesAreRecorded
  BY BooksSay
<1>2. QED
  BY <1>1, BooksHold, PTL

\* Where a page of Webull cannot be all days without a close, runs that come in time leave no
\* hole: each of their windows is stored as a whole, as of after the close but for its last
\* day, and reaches back to the end of the window before.
THEOREM OverlapLeavesNoHoles == ASSUME FewSilentDays PROVE ValSpec => []NoHoles
<1>1. ValInit => WindowInv /\ NoHoles
  BY WindowsBegin DEF ValInit
<1>2. FlowInv /\ WindowInv /\ NoHoles /\ [ValNext]_allVars => WindowInv' /\ NoHoles'
  BY StepsAre, WindowsStay, NoHolesStays, PriceAssumption
<1>3. QED
  BY <1>1, <1>2, FlowHolds, PTL DEF ValSpec
=============================================================================
