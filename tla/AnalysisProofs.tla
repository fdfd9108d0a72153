--------------------------- MODULE AnalysisProofs ---------------------------
(***************************************************************************)
(* Proofs about Analysis, for every set of events, articles and tasks and  *)
(* every budget.  IInv is inductive; the safety properties follow from it. *)
(*                                                                         *)
(* The argument: whoever is between reading an input and publishing it has *)
(* either the event loop or the write lock, and no request changes events  *)
(* without both.  So the input, the budget and the job that a task read    *)
(* before its model call are still what they were when the call returns.   *)
(***************************************************************************)
EXTENDS Analysis, SequenceTheorems, TLAPS

(***************************************************************************)
(* The operators                                                           *)
(***************************************************************************)
\* What _event_input_hash computes is an input hash of the running mode.
LEMMA HashTyped ==
    ASSUME TypeOK, NEW e \in Events
    PROVE  Hash(e) \in Hashes /\ Hash(e)[1] = Content(e) /\ Hash(e)[2] = mode
<1>1. Content(e) \in Contents
  BY BudgetAssumption DEF TypeOK, Content, Contents, Revisions
<1>2. QED
  BY <1>1 DEF TypeOK, Hash, Hashes

\* Nothing but the rows of the event and the mode decide its hash.
LEMMA HashKept ==
    ASSUME UNCHANGED <<environment, clusters>>
    PROVE  \A e \in Events : Hash(e)' = Hash(e) /\ HasArticles(e)' = HasArticles(e)
BY DEF environment, clusters, Hash, Content, HasArticles

\* What is left to spend today: never more than the day has left.
LEMMA RemainingBounds ==
    ASSUME TypeOK
    PROVE  /\ Remaining \in Nat
           /\ Remaining <= DailyBudget
           /\ Remaining > 0 => spent[day] + Remaining <= DailyBudget
<1>1. spent[day] \in Nat /\ PerEventBudget \in Nat /\ DailyBudget \in Nat
  BY BudgetAssumption DEF TypeOK
<1>2. QED
  BY <1>1 DEF Remaining, Least

\* Appending a version to a report history.
LEMMA AppendVersion ==
    ASSUME NEW S, NEW s \in Seq(S), NEW h \in S
    PROVE  /\ Append(s, h) \in Seq(S)
           /\ Append(s, h) # <<>>
           /\ Len(Append(s, h)) = Len(s) + 1
           /\ DOMAIN Append(s, h) = DOMAIN s \cup {Len(s) + 1}
           /\ \A i \in DOMAIN s : Append(s, h)[i] = s[i] /\ i < Len(s) + 1
           /\ Append(s, h)[Len(s) + 1] = h
<1>1. Len(s) \in Nat /\ DOMAIN s = 1 .. Len(s)
  BY LenProperties
<1>2. QED
  BY <1>1, AppendProperties

\* persist_report publishes an input without a report as the next version.
LEMMA PublishAppends ==
    ASSUME TypeOK, NEW e \in Events, NEW h \in Hashes, h \notin Reported(e)
    PROVE  WithReport(e, h) = Append(reports[e], h)
<1>1. reports[e] \in Seq(Hashes)
  BY DEF TypeOK
<1>2. reports[e] # <<>> => Len(reports[e]) \in DOMAIN reports[e]
  BY <1>1, EmptySeq, LenProperties
<1>3. h \notin LatestReported(e)
  BY <1>2 DEF LatestReported, Reported
<1>4. QED
  BY <1>3 DEF WithReport
-----------------------------------------------------------------------------
(***************************************************************************)
(* Steps that touch no committed row                                       *)
(***************************************************************************)
rows == <<environment, clusters, results, torn>>

\* The parts of the invariant that speak of rows only survive such steps.
LEMMA RowsKept ==
    ASSUME IInv, UNCHANGED rows
    PROVE  /\ FutureUnspent'
           /\ BudgetBound'
           /\ ReadersSeeOneAnalysis'
           /\ OneReportPerInput'
           /\ JobsMatchReports'
           /\ UnseededInv'
           /\ \A e \in Events : Hash(e)' = Hash(e) /\ Reported(e)' = Reported(e)
<1> USE DEF IInv, rows, environment, clusters, results
<1>1. \A e \in Events : Hash(e)' = Hash(e) /\ Reported(e)' = Reported(e)
  BY HashKept DEF Reported
<1>2. FutureUnspent' /\ BudgetBound'
  BY DEF FutureUnspent, BudgetBound
<1>3. ReadersSeeOneAnalysis' /\ OneReportPerInput'
  BY DEF ReadersSeeOneAnalysis, OneReportPerInput
<1>4. JobsMatchReports'
  BY <1>1 DEF JobsMatchReports
<1>5. UnseededInv'
  BY DEF UnseededInv
<1>6. QED
  BY <1>1, <1>2, <1>3, <1>4, <1>5

\* While one of the demo's events is analysed at a start, nobody else has the loop.
LEMMA NoSeed ==
    ASSUME IInv, LoopFree \/ \E t \in Tasks : OnLoop(t) /\ kind[t] # "seed"
    PROVE  \A u \in Tasks : kind[u] # "seed"
BY DEF IInv, SeedInv, LoopInv, OnLoop, LoopFree

\* A task that works on a job does not seed.
LEMMA WorkingNoSeed ==
    ASSUME IInv, NEW t \in Tasks, Working(t), LoopFree \/ OnLoop(t)
    PROVE  \A u \in Tasks : kind[u] # "seed"
<1>1. kind[t] # "seed"
  BY DEF IInv, SeedInv, Working
<1>2. QED
  BY <1>1, NoSeed

\* Running jobs stay accounted for if every analysis goes on or is counted as cut.
LEMMA CutKept ==
    ASSUME IInv, job' = job, cut \subseteq cut',
           \A u \in Tasks : Working(u) =>
              \/ <<work[u].event, work[u].hash>> \in cut'
              \/ /\ Working(u)'
                 /\ work'[u].event = work[u].event
                 /\ work'[u].hash = work[u].hash
    PROVE  OnlyCutJobsStayRunning'
<1>1. SUFFICES ASSUME NEW e \in Events, NEW h \in Hashes, job[e][h] = "running"
               PROVE  <<e, h>> \in cut' \cup JobsOf(Tasks)'
  BY DEF OnlyCutJobsStayRunning
<1>2. <<e, h>> \in cut \cup JobsOf(Tasks)
  BY <1>1 DEF IInv, OnlyCutJobsStayRunning
<1>3. CASE <<e, h>> \in cut
  BY <1>3
<1>4. CASE <<e, h>> \in JobsOf(Tasks)
  <2>1. PICK u \in Tasks : Working(u) /\ <<e, h>> = <<work[u].event, work[u].hash>>
    BY <1>4 DEF JobsOf
  <2>2. CASE <<work[u].event, work[u].hash>> \in cut'
    BY <2>1, <2>2
  <2>3. CASE Working(u)' /\ work'[u].event = work[u].event /\ work'[u].hash = work[u].hash
    BY <2>1, <2>3 DEF JobsOf
  <2>4. QED
    BY <2>1, <2>2, <2>3
<1>5. QED
  BY <1>2, <1>3, <1>4

\* A task that has the loop, or whose call has returned, drops its analysis: the
\* request ends by an exception, or goes on to its next event.
LEMMA TaskDrops ==
    ASSUME IInv, UNCHANGED rows,
           NEW t \in Tasks, OnLoop(t) \/ LoopFree,
           \/ Abort(t)
           \/ pc[t] = "next" /\ cut' = cut /\ \E e \in Events : EventDone(t, e),
           \/ pc[t] # "calling" /\ writer' = writer
           \/ pc[t] = "calling" /\ writer' = NoTask
    PROVE  IInv'
<1> USE DEF IInv
<1>1. /\ work' = [work EXCEPT ![t] = NoWork]
      /\ pc'[t] \in {"idle", "next"}
      /\ \A u \in Tasks \ {t} : pc'[u] = pc[u] /\ kind'[u] = kind[u] /\ todo'[u] = todo[u]
      /\ kind'[t] = "seed" => pc'[t] = "next" /\ kind[t] = "seed"
      /\ todo'[t] \subseteq todo[t]
  BY DEF Abort, EventDone, TypeOK
<1>2. pc' \in [Tasks -> {"idle", "next", "prepare", "calling", "record"}]
  BY DEF Abort, EventDone, TypeOK
<1>3. todo' \in [Tasks -> SUBSET Events] /\ kind' \in [Tasks -> Kinds]
  <2>1. CASE Abort(t)
    BY <2>1 DEF Abort, TypeOK, Kinds
  <2>2. ASSUME NEW e \in Events, EventDone(t, e) PROVE <1>3
    <3>1. todo' = [todo EXCEPT ![t] = todo[t] \ {e}] /\ kind' = kind
      BY <2>2 DEF EventDone
    <3>2. QED
      BY <3>1 DEF TypeOK
  <2>3. QED
    BY <2>1, <2>2
<1>4. cut' = cut \cup JobsOf({t})
  <2>1. CASE Abort(t)
    BY <2>1 DEF Abort
  <2>2. CASE pc[t] = "next" /\ cut' = cut
    BY <2>2 DEF JobsOf, Working
  <2>3. QED
    BY <2>1, <2>2
<1>5. \A u \in Tasks : Working(u) => work[u].event \in Events /\ work[u].hash \in Hashes
  BY DEF InputInv, WorkItem
<1>6. cut' \subseteq Events \X Hashes
  BY <1>4, <1>5 DEF TypeOK, JobsOf
<1>7. TypeOK'
  BY <1>1, <1>2, <1>3, <1>6, NamesAssumption
     DEF TypeOK, rows, environment, clusters, results
<1>8. LockInv'
  BY <1>1, NamesAssumption DEF TypeOK, LockInv
<1>9. LoopInv'
  BY <1>1 DEF TypeOK, LoopInv, OnLoop, LoopFree
<1>10. \A u \in Tasks : Working(u)' => u # t /\ Working(u) /\ work'[u] = work[u]
  BY <1>1 DEF Working, TypeOK
<1>11. InputInv' /\ RowsInv'
  <2>1. \A u \in Tasks : Working(u)' => pc'[u] = pc[u]
    BY <1>1, <1>10
  <2>2. \A u \in Tasks : Working(u)' => work[u] \in WorkItem /\ work[u].event \in Events
    BY <1>10 DEF InputInv, WorkItem
  <2>3. job' = job /\ mode' = mode
    BY DEF rows, environment, results
  <2>4. InputInv'
    BY <1>10, <2>2, <2>3, RowsKept DEF InputInv
  <2>5. RowsInv'
    BY <1>10, <2>1 DEF RowsInv
  <2>6. QED
    BY <2>4, <2>5
<1>12. SeedInv'
  <2>1. job' = job /\ demo' = demo
    BY DEF rows, clusters, results
  <2>2. \A u \in Tasks : kind'[u] = "seed" =>
          kind[u] = "seed" /\ pc'[u] = "next" /\ todo'[u] \subseteq todo[u]
    BY <1>1 DEF SeedInv
  <2>3. QED
    BY <1>3, <2>1, <2>2, RowsKept DEF SeedInv
<1>13. CostInv'
  BY <1>1 DEF TypeOK, CostInv, rows, environment, results
<1>14. OnlyCutJobsStayRunning'
  <2>1. \A u \in Tasks : Working(u) =>
          \/ <<work[u].event, work[u].hash>> \in cut'
          \/ Working(u)' /\ work'[u] = work[u]
    BY <1>1, <1>4 DEF JobsOf, Working, TypeOK
  <2>2. job' = job /\ cut \subseteq cut'
    BY <1>4 DEF rows, results
  <2>3. QED
    BY <2>1, <2>2, CutKept
<1>15. QED
  BY <1>7, <1>8, <1>9, <1>11, <1>12, <1>13, <1>14, RowsKept

\* A call that fails: its rows are rolled back, the lock is released.
LEMMA CallFails ==
    ASSUME IInv, NEW t \in Tasks, Returned(t),
           NEW verdict \in {"retry_wait", "dead"}, NEW cost \in Nat, NEW charge \in Nat,
           charge <= work[t].left + MaxCallCost,
           FailCall(t, verdict, cost, charge)
    PROVE  IInv'
<1> USE DEF IInv, Returned
<1>1. UNCHANGED rows
  BY DEF FailCall, rows, history
<1>2. work[t] \in WorkItem /\ pc[t] = "calling" /\ \A u \in Tasks : ~OnLoop(u)
  BY DEF InputInv, LoopFree, Working
<1>3. work'[t] = [work[t] EXCEPT !.replaced = {}, !.verdict = verdict,
                                   !.cost = cost, !.charge = charge]
  BY DEF FailCall, TypeOK
<1>4. /\ work'[t] \in WorkItem
      /\ work'[t].event = work[t].event
      /\ work'[t].hash = work[t].hash
      /\ work'[t].replaced = {}
      /\ work'[t].verdict = verdict
      /\ work'[t].charge = charge
  BY <1>2, <1>3 DEF WorkItem
<1>5. \A u \in Tasks \ {t} : work'[u] = work[u] /\ pc'[u] = pc[u]
  BY DEF FailCall, TypeOK
<1>6. pc'[t] = "record" /\ writer' = NoTask /\ writer = t
  BY <1>2 DEF FailCall, TypeOK, LockInv
<1>7. TypeOK'
  BY <1>1, <1>4 DEF FailCall, TypeOK, rows, environment, clusters, results, history
<1>8. LockInv'
  BY <1>5, <1>6, NamesAssumption DEF LockInv
<1>9. LoopInv'
  BY <1>2, <1>5 DEF LoopInv, OnLoop
<1>10. InputInv' /\ RowsInv'
  <2>1. job' = job /\ mode' = mode
    BY <1>1 DEF rows, environment, results
  <2>2. \A u \in Tasks : Working(u)' => Working(u)
    BY <1>2, <1>5 DEF Working
  <2>3. \A u \in Tasks : Working(u) =>
          /\ work'[u] \in WorkItem /\ work[u].event \in Events
          /\ work'[u].event = work[u].event /\ work'[u].hash = work[u].hash
    BY <1>4, <1>5 DEF InputInv, WorkItem
  <2>4. \A u \in Tasks : Working(u) =>
          /\ work[u].hash = Hash(work[u].event)
          /\ work[u].hash \notin Reported(work[u].event)
          /\ job[work[u].event][work[u].hash] = "running"
          /\ mode = OpenAI
    BY DEF InputInv
  <2>5. \A e \in Events : Hash(e)' = Hash(e) /\ Reported(e)' = Reported(e)
    BY <1>1, RowsKept
  <2>6. InputInv'
    BY <2>1, <2>2, <2>3, <2>4, <2>5 DEF InputInv
  <2>7. RowsInv'
    BY <1>4, <1>5, <1>6, <2>2 DEF RowsInv
  <2>8. QED
    BY <2>6, <2>7
<1>11. CostInv'
  <2>1. spent[day] + charge <= DailyBudget + MaxCallCost
    <3>1. /\ work[t].day \in Days /\ work[t].left \in Nat
          /\ work[t].left <= DailyBudget
          /\ work[t].day <= day
          /\ spent[work[t].day] + work[t].left <= DailyBudget
          /\ day > work[t].day => spent[day] = 0
      BY <1>2 DEF CostInv, TypeOK, WorkItem
    <3>2. day \in Int /\ work[t].day \in Int /\ spent[day] \in Nat
      BY <3>1, BudgetAssumption DEF TypeOK, Days
    <3>3. CASE day = work[t].day
      BY <3>1, <3>2, <3>3, BudgetAssumption
    <3>4. CASE day > work[t].day
      BY <3>1, <3>4, BudgetAssumption
    <3>5. QED
      BY <3>1, <3>2, <3>3, <3>4
  <2>2. \A u \in Tasks : pc'[u] # "calling"
    BY <1>5, <1>6, NamesAssumption DEF LockInv
  <2>3. \A u \in Tasks : pc'[u] \in {"prepare", "record"} => u = t
    BY <1>2, <1>5 DEF OnLoop
  <2>4. QED
    BY <1>1, <1>4, <1>6, <2>1, <2>2, <2>3 DEF CostInv, rows, environment, results
<1>12. SeedInv'
  <2>1. \A u \in Tasks : kind[u] # "seed"
    BY <1>2, WorkingNoSeed DEF Working
  <2>2. QED
    BY <2>1 DEF SeedInv, FailCall
<1>13. OnlyCutJobsStayRunning'
  <2>1. job' = job /\ cut' = cut
    BY DEF FailCall, results, history
  <2>2. QED
    BY <1>4, <1>5, <1>6, <2>1, CutKept DEF Working
<1>14. QED
  BY <1>1, <1>7, <1>8, <1>9, <1>10, <1>11, <1>12, <1>13, RowsKept

\* An exception nobody handles, before any write or with the writes rolled back.
LEMMA AbortSteps ==
    ASSUME IInv, NEW t \in Tasks,
           \/ Finish(t)
           \/ PrepareRefusesEmpty(t)
           \/ LockTimeout(t)
           \/ Unreportable(t)
           \/ \E e \in Events : DeterministicRefusesEmpty(t, e)
    PROVE  IInv'
<1>1. UNCHANGED rows
  BY DEF rows, Finish, PrepareRefusesEmpty, LockTimeout, Unreportable,
         DeterministicRefusesEmpty
<1>2. OnLoop(t) \/ LoopFree
  BY DEF Finish, PrepareRefusesEmpty, LockTimeout, Unreportable, Returned,
         DeterministicRefusesEmpty, WaitsForLock, OnLoop
<1>3. Abort(t)
  BY DEF Finish, PrepareRefusesEmpty, LockTimeout, Unreportable,
         DeterministicRefusesEmpty
<1>4. \/ pc[t] # "calling" /\ writer' = writer
      \/ pc[t] = "calling" /\ writer' = NoTask
  BY DEF Finish, PrepareRefusesEmpty, LockTimeout, Unreportable, Returned,
         DeterministicRefusesEmpty, WaitsForLock
<1>5. QED
  BY <1>1, <1>2, <1>3, <1>4, TaskDrops

\* An event that needs no analysis, or may not have one.
LEMMA SkipSteps ==
    ASSUME IInv, NEW t \in Tasks, NEW e \in Events,
           ReuseReport(t, e) \/ SkipDeadJob(t, e)
    PROVE  IInv'
<1>1. UNCHANGED rows
  BY DEF rows, history, ReuseReport, SkipDeadJob
<1>2. OnLoop(t) /\ pc[t] = "next" /\ writer' = writer /\ cut' = cut
  BY DEF ReuseReport, SkipDeadJob, OnLoop, history
<1>3. EventDone(t, e)
  BY DEF ReuseReport, SkipDeadJob
<1>4. QED
  BY <1>1, <1>2, <1>3, TaskDrops

\* The three ways a call can fail that the code provides for.
LEMMA CallFailsSteps ==
    ASSUME IInv, NEW t \in Tasks,
           ProviderFails(t) \/ OverBudget(t) \/ ContractFails(t)
    PROVE  IInv'
<1>1. Returned(t) /\ pc[t] = "calling" /\ work[t] \in WorkItem
  BY DEF IInv, InputInv, ProviderFails, OverBudget, ContractFails, Returned, Working
<1>2. /\ work[t].cost \in Nat /\ work[t].left \in Nat
      /\ work[t].cost <= work[t].left
  BY <1>1 DEF IInv, CostInv, WorkItem
<1>3. CASE ProviderFails(t)
  BY <1>1, <1>2, <1>3, CallFails, BudgetAssumption DEF ProviderFails
<1>4. CASE OverBudget(t) \/ ContractFails(t)
  <2>1. PICK c \in 0 .. MaxCallCost : FailCall(t, "dead", work[t].cost + c, work[t].cost + c)
    BY <1>4 DEF OverBudget, ContractFails
  <2>2. work[t].cost + c \in Nat /\ work[t].cost + c <= work[t].left + MaxCallCost
    BY <1>2, BudgetAssumption
  <2>3. QED
    BY <1>1, <2>1, <2>2, CallFails
<1>5. QED
  BY <1>3, <1>4

\* The analysis takes the write lock and reads the budget its call may spend.
LEMMA PrepareStep ==
    ASSUME IInv, NEW t \in Tasks, Prepare(t)
    PROVE  IInv'
<1> USE DEF IInv
<1>1. UNCHANGED rows
  BY DEF Prepare, rows, history
<1>2. work[t] \in WorkItem /\ OnLoop(t) /\ writer = NoTask
  BY DEF Prepare, InputInv, OnLoop, LockFree, Working
<1>3. pc'[t] = "calling" /\ writer' = t
  BY DEF Prepare, TypeOK
<1>4. \A u \in Tasks \ {t} :
         /\ work'[u] = work[u]
         /\ pc'[u] = pc[u]
         /\ pc[u] \notin {"prepare", "calling", "record"}
  BY <1>2, NamesAssumption DEF Prepare, TypeOK, LockInv, LoopInv, OnLoop
<1>5. Remaining \in Nat /\ Remaining <= DailyBudget /\ spent[day] + Remaining <= DailyBudget
  BY RemainingBounds DEF Prepare
<1>6. work'[t] = [work[t] EXCEPT !.replaced = {work[t].event},
                                   !.left = Remaining, !.day = day]
  BY DEF Prepare, TypeOK
<1>7. /\ work'[t] \in WorkItem
      /\ work'[t].event = work[t].event
      /\ work'[t].hash = work[t].hash
      /\ work'[t].replaced = {work[t].event}
      /\ work'[t].cost = work[t].cost
      /\ work'[t].left = Remaining
      /\ work'[t].day = day
  <2>1. day \in Days /\ work[t].event \in Events /\ {work[t].event} \in SUBSET Events
    BY <1>2 DEF WorkItem, TypeOK
  <2>2. QED
    BY <1>2, <1>5, <1>6, <2>1 DEF WorkItem
<1>8. TypeOK'
  BY <1>1, <1>7 DEF Prepare, TypeOK, rows, environment, clusters, results, history
<1>9. LockInv'
  BY <1>2, <1>3, <1>4, NamesAssumption DEF LockInv
<1>10. LoopInv'
  BY <1>3, <1>4 DEF LoopInv, OnLoop
<1>11. InputInv'
  <2>1. /\ work[t].event \in Events
        /\ work[t].hash = Hash(work[t].event)
        /\ work[t].hash \notin Reported(work[t].event)
        /\ job[work[t].event][work[t].hash] = "running"
        /\ mode = OpenAI
    BY <1>2 DEF Prepare, InputInv, WorkItem, Working
  <2>2. job' = job /\ mode' = mode
    BY <1>1 DEF rows, environment, results
  <2>3. QED
    BY <1>1, <1>4, <1>7, <2>1, <2>2, RowsKept DEF InputInv, Working
<1>12. CostInv'
  <2>1. work[t].cost = 0
    BY DEF CostInv, Prepare
  <2>2. day \in Int /\ day' = day /\ spent' = spent
    BY <1>1, BudgetAssumption DEF rows, environment, results, TypeOK, Days
  <2>3. \A d \in Days : d > day => spent[d] = 0
    BY DEF FutureUnspent
  <2>4. QED
    BY <1>3, <1>4, <1>5, <1>7, <2>1, <2>2, <2>3 DEF CostInv
<1>13. RowsInv'
  BY <1>3, <1>4, <1>7 DEF RowsInv, Working
<1>14. SeedInv'
  <2>1. \A u \in Tasks : kind[u] # "seed"
    BY <1>2, WorkingNoSeed DEF Working, Prepare
  <2>2. QED
    BY <2>1 DEF SeedInv, Prepare
<1>15. OnlyCutJobsStayRunning'
  <2>1. job' = job /\ cut' = cut
    BY DEF Prepare, results, history
  <2>2. QED
    BY <1>3, <1>4, <1>7, <2>1, CutKept DEF Working
<1>16. QED
  BY <1>1, <1>8, <1>9, <1>10, <1>11, <1>12, <1>13, <1>14,
     <1>15, RowsKept

\* The analysis finds the budget spent and only the refusal is left to record.
LEMMA OutOfBudgetStep ==
    ASSUME IInv, NEW t \in Tasks, OutOfBudget(t)
    PROVE  IInv'
<1> USE DEF IInv
<1>1. UNCHANGED rows
  BY DEF OutOfBudget, rows, history
<1>2. work[t] \in WorkItem /\ OnLoop(t) /\ writer = NoTask /\ work[t].charge = 0
  BY DEF OutOfBudget, InputInv, OnLoop, LockFree, CostInv, Working
<1>3. pc'[t] = "record" /\ writer' = NoTask
  BY <1>2 DEF OutOfBudget, TypeOK
<1>4. \A u \in Tasks \ {t} :
         /\ work'[u] = work[u]
         /\ pc'[u] = pc[u]
         /\ pc[u] \notin {"prepare", "calling", "record"}
  BY <1>2, NamesAssumption DEF OutOfBudget, TypeOK, LockInv, LoopInv, OnLoop
<1>5. work'[t] = [work[t] EXCEPT !.verdict = "dead"]
  BY DEF OutOfBudget, TypeOK
<1>6. /\ work'[t] \in WorkItem
      /\ work'[t].event = work[t].event
      /\ work'[t].hash = work[t].hash
      /\ work'[t].replaced = work[t].replaced
      /\ work'[t].charge = 0
      /\ work'[t].verdict = "dead"
  BY <1>2, <1>5 DEF WorkItem
<1>7. TypeOK'
  BY <1>1, <1>6 DEF OutOfBudget, TypeOK, rows, environment, clusters, results, history
<1>8. LockInv'
  BY <1>3, <1>4, NamesAssumption DEF LockInv
<1>9. LoopInv'
  BY <1>2, <1>4 DEF LoopInv, OnLoop
<1>10. InputInv'
  <2>1. /\ work[t].event \in Events
        /\ work[t].hash = Hash(work[t].event)
        /\ work[t].hash \notin Reported(work[t].event)
        /\ job[work[t].event][work[t].hash] = "running"
        /\ mode = OpenAI
    BY <1>2 DEF OutOfBudget, InputInv, WorkItem, Working
  <2>2. job' = job /\ mode' = mode
    BY <1>1 DEF rows, environment, results
  <2>3. QED
    BY <1>1, <1>4, <1>6, <2>1, <2>2, RowsKept DEF InputInv, Working
<1>11. CostInv'
  <2>1. spent'[day'] = spent[day] /\ spent[day] <= DailyBudget + MaxCallCost /\ spent[day] \in Nat
    BY <1>1 DEF rows, environment, results, TypeOK, BudgetBound
  <2>2. QED
    BY <1>3, <1>4, <1>6, <2>1 DEF CostInv
<1>12. RowsInv'
  BY <1>3, <1>4, <1>6 DEF RowsInv, Working, OutOfBudget
<1>13. SeedInv'
  <2>1. \A u \in Tasks : kind[u] # "seed"
    BY <1>2, WorkingNoSeed DEF Working, OutOfBudget
  <2>2. QED
    BY <2>1 DEF SeedInv, OutOfBudget
<1>14. OnlyCutJobsStayRunning'
  <2>1. job' = job /\ cut' = cut
    BY DEF OutOfBudget, results, history
  <2>2. QED
    BY <1>3, <1>4, <1>6, <2>1, CutKept DEF Working
<1>15. QED
  BY <1>1, <1>7, <1>8, <1>9, <1>10, <1>11, <1>12, <1>13, <1>14, RowsKept

\* The repair call starts under the same lock and the same budget.
LEMMA RepairStep ==
    ASSUME IInv, NEW t \in Tasks, Repair(t)
    PROVE  IInv'
<1> USE DEF IInv
<1>1. UNCHANGED rows /\ UNCHANGED <<writer, pc, todo, kind>>
  BY DEF Repair, rows, history
<1>2. pc[t] = "calling" /\ work[t] \in WorkItem
  BY DEF Repair, Returned, InputInv, Working
<1>3. PICK c \in 0 .. MaxCallCost :
         /\ work[t].cost + c <= work[t].left
         /\ work' = [work EXCEPT ![t] = [@ EXCEPT !.attempt = 2, !.cost = work[t].cost + c]]
  BY DEF Repair
<1>4. work[t].cost + c \in Nat
  BY <1>2, BudgetAssumption DEF WorkItem
<1>5. /\ work'[t] \in WorkItem
      /\ work'[t].event = work[t].event
      /\ work'[t].hash = work[t].hash
      /\ work'[t].replaced = work[t].replaced
      /\ work'[t].cost = work[t].cost + c
      /\ work'[t].left = work[t].left
      /\ work'[t].day = work[t].day
  BY <1>2, <1>3, <1>4 DEF WorkItem, TypeOK
<1>6. \A u \in Tasks \ {t} : work'[u] = work[u]
  BY <1>3 DEF TypeOK
<1>7. TypeOK'
  BY <1>1, <1>3, <1>5 DEF TypeOK, rows, environment, clusters, results, history, Repair
<1>8. LockInv' /\ LoopInv'
  BY <1>1 DEF LockInv, LoopInv, OnLoop
<1>9. InputInv'
  <2>1. job' = job /\ mode' = mode
    BY <1>1 DEF rows, environment, results
  <2>2. \A u \in Tasks : work[u] \in WorkItem => work[u].event \in Events
    BY DEF WorkItem
  <2>3. QED
    BY <1>1, <1>2, <1>5, <1>6, <2>1, <2>2, RowsKept DEF InputInv, Working
<1>10. CostInv'
  BY <1>1, <1>2, <1>3, <1>5, <1>6 DEF CostInv, rows, environment, results
<1>11. RowsInv' /\ SeedInv'
  <2>1. \A u \in Tasks : kind[u] # "seed"
    BY <1>2, WorkingNoSeed DEF Working, Repair, Returned
  <2>2. QED
    BY <1>1, <1>2, <1>5, <1>6, <2>1 DEF RowsInv, SeedInv, Working
<1>12. OnlyCutJobsStayRunning'
  <2>1. job' = job /\ cut' = cut
    BY DEF Repair, results, history
  <2>2. QED
    BY <1>1, <1>5, <1>6, <2>1, CutKept DEF Working
<1>13. QED
  BY <1>1, <1>7, <1>8, <1>9, <1>10, <1>11, <1>12, RowsKept

\* A thread-pool request takes or releases a lock no task holds.
LEMMA ThreadSteps ==
    ASSUME IInv, ThreadBegins \/ ThreadEnds
    PROVE  IInv'
<1> USE DEF IInv
<1>1. UNCHANGED rows /\ UNCHANGED tasks /\ UNCHANGED cut
  BY DEF ThreadBegins, ThreadEnds, rows, history
<1>2. writer \in {NoTask, Thread} /\ writer' \in {NoTask, Thread}
  BY DEF ThreadBegins, ThreadEnds, LockFree
<1>3. TypeOK'
  BY <1>1, <1>2 DEF TypeOK, rows, environment, clusters, results, tasks
<1>4. LockInv' /\ LoopInv'
  BY <1>1, <1>2, NamesAssumption DEF LockInv, LoopInv, OnLoop, tasks
<1>5. InputInv' /\ RowsInv'
  BY <1>1, RowsKept
     DEF InputInv, RowsInv, Working, rows, environment, results, tasks, WorkItem
<1>6. CostInv'
  BY <1>1 DEF CostInv, rows, environment, results, tasks
<1>7. SeedInv'
  BY <1>1, RowsKept DEF SeedInv, tasks, rows, clusters, results, TypeOK
<1>8. OnlyCutJobsStayRunning'
  BY <1>1, CutKept DEF tasks, rows, results, Working
<1>9. QED
  BY <1>1, <1>3, <1>4, <1>5, <1>6, <1>7, <1>8, RowsKept
-----------------------------------------------------------------------------
(***************************************************************************)
(* Steps of the environment                                                *)
(***************************************************************************)
\* Midnight: the new day has no cost yet, whatever is in flight.
LEMMA NewDayStep ==
    ASSUME IInv, NewDay
    PROVE  IInv'
<1> USE DEF IInv
<1>1. /\ UNCHANGED <<mode, crashes, clusters, results, writer, tasks, history>>
      /\ day' = day + 1 /\ day < MaxDay
  BY DEF NewDay
<1>2. day \in Days /\ day' \in Days /\ day \in Int
  BY <1>1, BudgetAssumption DEF TypeOK, Days
<1>3. \A e \in Events : Hash(e)' = Hash(e) /\ Reported(e)' = Reported(e)
  BY <1>1 DEF Hash, Content, Reported, clusters, results
<1>4. TypeOK'
  BY <1>1, <1>2 DEF TypeOK, clusters, results, tasks, history
<1>5. LockInv' /\ LoopInv'
  BY <1>1 DEF LockInv, LoopInv, OnLoop, tasks
<1>6. InputInv' /\ RowsInv'
  BY <1>1, <1>3 DEF InputInv, RowsInv, Working, tasks, results, WorkItem
<1>7. CostInv'
  <2>1. \A t \in Tasks : pc[t] = "calling" => work[t].day \in Int
    BY DEF InputInv, WorkItem, Days, Working
  <2>2. \A t \in Tasks : pc[t] = "record" => spent[day'] + work[t].charge <= DailyBudget + MaxCallCost
    <3>1. spent[day'] = 0 /\ spent[day] \in Nat
      BY <1>1, <1>2 DEF FutureUnspent, TypeOK
    <3>2. \A t \in Tasks : pc[t] = "record" =>
             /\ work[t].charge \in Nat
             /\ spent[day] + work[t].charge <= DailyBudget + MaxCallCost
      BY DEF InputInv, CostInv, WorkItem, Working
    <3>3. QED
      BY <3>1, <3>2, BudgetAssumption
  <2>3. QED
    BY <1>1, <1>2, <2>1, <2>2 DEF CostInv, tasks, results
<1>8. FutureUnspent'
  BY <1>1, <1>2 DEF FutureUnspent, Days, results
<1>9. BudgetBound' /\ ReadersSeeOneAnalysis' /\ OneReportPerInput'
  BY <1>1 DEF BudgetBound, ReadersSeeOneAnalysis, OneReportPerInput, results, history
<1>10. JobsMatchReports'
  BY <1>1, <1>3 DEF JobsMatchReports, results, clusters
<1>11. SeedInv' /\ UnseededInv'
  BY <1>1, <1>3 DEF SeedInv, UnseededInv, results, clusters, tasks, TypeOK
<1>12. OnlyCutJobsStayRunning'
  BY <1>1, CutKept DEF tasks, results, history, Working
<1>13. QED
  BY <1>4, <1>5, <1>6, <1>7, <1>8, <1>9, <1>10, <1>11, <1>12

\* A start that seeds analyses events of its own, for which there is no job yet.
LEMMA SeedStep ==
    ASSUME IInv, NEW t \in Tasks, Restart, Seed(t)
    PROVE  /\ home' \in [Articles -> Events \cup {Nowhere}]
           /\ revision' \in [Articles -> Revisions]
           /\ state' \in [Events -> {"absent", "active", "merged"}]
           /\ demo' \subseteq Events /\ demo' # {} /\ demo = {}
           /\ pc' = [u \in Tasks |-> IF u = t THEN "next" ELSE "idle"]
           /\ todo' = [u \in Tasks |-> IF u = t THEN demo' ELSE {}]
           /\ kind' = [u \in Tasks |-> IF u = t THEN "seed" ELSE "pull"]
           /\ \A e \in demo' : job[e][Hash(e)'] = "none"
<1> USE DEF IInv
<1> DEFINE versions == [a \in DemoArticles |-> 1]
<1>1. PICK place \in [DemoArticles -> Events] :
        /\ Ingested(DemoArticles, place, versions)
        /\ demo' = {place[a] : a \in DemoArticles}
        /\ pc' = [u \in Tasks |-> IF u = t THEN "next" ELSE "idle"]
        /\ todo' = [u \in Tasks |-> IF u = t THEN {place[a] : a \in DemoArticles} ELSE {}]
        /\ kind' = [u \in Tasks |-> IF u = t THEN "seed" ELSE "pull"]
  BY DEF Seed
<1>2. demo = {} /\ DemoArticles # {} /\ mode' \in Modes
  BY DEF Seed, Restart
<1>3. home' = [a \in Articles |-> IF a \in DemoArticles THEN place[a] ELSE home[a]]
  BY <1>1 DEF Ingested
<1>4. revision' = [a \in Articles |-> IF a \in DemoArticles THEN 1 ELSE revision[a]]
  BY <1>1 DEF Ingested
<1>5. home' \in [Articles -> Events \cup {Nowhere}]
  BY <1>3 DEF TypeOK
<1>6. revision' \in [Articles -> Revisions]
  BY <1>4, BudgetAssumption DEF TypeOK, Revisions
<1>7. state' \in [Events -> {"absent", "active", "merged"}]
  BY <1>1 DEF Ingested, TypeOK
<1>8. ASSUME NEW e \in demo' PROVE job[e][Hash(e)'] = "none"
  <2>1. PICK a \in DemoArticles : place[a] = e
    BY <1>1
  <2>2. e \in Events /\ a \in Articles
    BY <2>1, NamesAssumption
  <2>3. Content(e)' \in Contents /\ Content(e)'[a] = 1
    BY <1>3, <1>4, <1>6, <2>1, <2>2, BudgetAssumption DEF Content, Contents, Revisions
  <2>4. Hash(e)' \in Hashes /\ Hash(e)'[1][a] = 1
    BY <1>2, <2>3 DEF Hash, Hashes
  <2>5. QED
    BY <1>2, <2>2, <2>4 DEF UnseededInv
<1>9. demo' \subseteq Events /\ demo' # {}
  BY <1>1, <1>2
<1>10. QED
  BY <1>1, <1>2, <1>5, <1>6, <1>7, <1>8, <1>9

\* A restart forgets every task; the rows it leaves need none of them.
LEMMA RestartStep ==
    ASSUME IInv, Restart
    PROVE  IInv'
<1> USE DEF IInv
<1>1. /\ UNCHANGED <<day, results, torn>>
      /\ writer' = NoTask /\ work' = [t \in Tasks |-> NoWork]
      /\ cut' = cut \cup JobsOf(Tasks)
      /\ mode' \in Modes /\ crashes' \in 0 .. MaxCrashes
  BY BudgetAssumption DEF Restart, TypeOK
<1>2. \/ UNCHANGED clusters /\ \A u \in Tasks : kind'[u] # "seed"
      \/ /\ demo' # {} /\ demo = {}
         /\ \A u \in Tasks : kind'[u] = "seed" =>
              pc'[u] = "next" /\ todo'[u] = demo' /\ \A e \in demo' : job[e][Hash(e)'] = "none"
  <2>1. CASE NothingToSeed
    BY <2>1 DEF NothingToSeed
  <2>2. ASSUME NEW t \in Tasks, Seed(t) PROVE <1>2
    BY <2>2, SeedStep
  <2>3. QED
    BY <2>1, <2>2 DEF Restart
<1>3. /\ pc' \in [Tasks -> {"idle", "next"}]
      /\ todo' \in [Tasks -> SUBSET Events]
      /\ kind' \in [Tasks -> Kinds]
      /\ \A u, v \in Tasks : pc'[u] = "next" /\ pc'[v] = "next" => u = v
      /\ home' \in [Articles -> Events \cup {Nowhere}]
      /\ revision' \in [Articles -> Revisions]
      /\ state' \in [Events -> {"absent", "active", "merged"}]
      /\ demo' \subseteq Events
  <2>1. CASE NothingToSeed
    BY <2>1 DEF NothingToSeed, clusters, TypeOK, Kinds
  <2>2. ASSUME NEW t \in Tasks, Seed(t) PROVE <1>3
    BY <2>2, SeedStep DEF Kinds
  <2>3. QED
    BY <2>1, <2>2 DEF Restart
<1>4. \A u \in Tasks : Working(u) => work[u].event \in Events /\ work[u].hash \in Hashes
  BY DEF InputInv, WorkItem
<1>5. cut' \subseteq Events \X Hashes
  BY <1>1, <1>4 DEF TypeOK, JobsOf
<1>6. TypeOK'
  BY <1>1, <1>3, <1>5 DEF TypeOK, results
<1>7. LockInv' /\ LoopInv' /\ InputInv' /\ RowsInv' /\ CostInv'
  BY <1>1, <1>3, NamesAssumption
     DEF LockInv, LoopInv, InputInv, RowsInv, CostInv, OnLoop, Working
<1>8. FutureUnspent' /\ BudgetBound' /\ ReadersSeeOneAnalysis' /\ OneReportPerInput'
  BY <1>1 DEF FutureUnspent, BudgetBound, ReadersSeeOneAnalysis, OneReportPerInput, results
<1>9. JobsMatchReports'
  <2>1. demo \subseteq demo'
    BY <1>2 DEF clusters
  <2>2. QED
    BY <1>1, <2>1 DEF JobsMatchReports, Reported, results
<1>10. SeedInv'
  <2>1. job' = job
    BY <1>1 DEF results
  <2>2. SUFFICES ASSUME NEW u \in Tasks, kind'[u] = "seed"
                 PROVE  /\ pc'[u] = "next"
                        /\ todo'[u] \subseteq demo'
                        /\ \A e \in todo'[u] : job'[e][Hash(e)'] = "none"
    BY DEF SeedInv
  <2>3. pc'[u] = "next" /\ todo'[u] = demo' /\ \A e \in demo' : job[e][Hash(e)'] = "none"
    BY <1>2, <2>2
  <2>4. QED
    BY <2>1, <2>3
<1>11. UnseededInv'
  BY <1>1, <1>2 DEF UnseededInv, clusters, results
<1>12. OnlyCutJobsStayRunning'
  <2>1. job' = job /\ cut \subseteq cut'
    BY <1>1 DEF results
  <2>2. \A u \in Tasks : Working(u) => <<work[u].event, work[u].hash>> \in cut'
    BY <1>1 DEF JobsOf
  <2>3. QED
    BY <2>1, <2>2, CutKept
<1>13. QED
  BY <1>6, <1>7, <1>8, <1>9, <1>10, <1>11, <1>12
-----------------------------------------------------------------------------
(***************************************************************************)
(* Requests: they change events only while no task holds loop or lock      *)
(***************************************************************************)
\* Submit after any change of the events that keeps their types and leaves the
\* articles of the demo to a start.
LEMMA EventsChange ==
    ASSUME IInv, NEW t \in Tasks, NEW k \in {"pull", "request"}, NEW events \in SUBSET Events,
           Submit(t, k, events), MayCommit(t),
           home' \in [Articles -> Events \cup {Nowhere}],
           revision' \in [Articles -> Revisions],
           state' \in [Events -> {"absent", "active", "merged"}],
           demo' \subseteq Events, demo \subseteq demo',
           \A a \in DemoArticles : home[a] = Nowhere => home'[a] = Nowhere
    PROVE  IInv'
<1> USE DEF IInv
<1>1. /\ UNCHANGED <<environment, results, writer, work, history>>
      /\ todo' = [todo EXCEPT ![t] = events]
      /\ kind' = [kind EXCEPT ![t] = k]
  BY DEF Submit
<1>2. pc' = [pc EXCEPT ![t] = "next"]
  BY DEF Submit
<1>3. \A u \in Tasks : pc[u] # "calling" /\ ~OnLoop(u)
  BY NamesAssumption DEF MayCommit, LockFree, LockInv, LoopFree
<1>4. \A u \in Tasks : pc'[u] \notin {"prepare", "calling", "record"}
  BY <1>2, <1>3 DEF TypeOK, OnLoop
<1>5. TypeOK'
  BY <1>1, <1>2 DEF TypeOK, Kinds, environment, results, history
<1>6. LockInv'
  BY <1>1, <1>4, NamesAssumption DEF LockInv, MayCommit, LockFree
<1>7. LoopInv'
  BY <1>2, <1>3 DEF LoopInv, OnLoop, TypeOK
<1>8. InputInv' /\ RowsInv' /\ CostInv'
  BY <1>4 DEF InputInv, RowsInv, CostInv, Working
<1>9. FutureUnspent' /\ BudgetBound' /\ ReadersSeeOneAnalysis' /\ OneReportPerInput'
  BY <1>1 DEF FutureUnspent, BudgetBound, ReadersSeeOneAnalysis, OneReportPerInput,
              environment, results, history
<1>10. JobsMatchReports'
  BY <1>1 DEF JobsMatchReports, Reported, results
<1>11. SeedInv'
  <2>1. \A u \in Tasks : kind[u] # "seed"
    BY NoSeed DEF MayCommit
  <2>2. QED
    BY <1>1, <2>1 DEF SeedInv, TypeOK
<1>12. UnseededInv'
  <2>1. job' = job
    BY <1>1 DEF results
  <2>2. QED
    BY <2>1 DEF UnseededInv
<1>13. OnlyCutJobsStayRunning'
  <2>1. job' = job /\ cut' = cut
    BY <1>1 DEF results, history
  <2>2. \A u \in Tasks : ~Working(u)
    BY <1>3 DEF Working, OnLoop
  <2>3. QED
    BY <2>1, <2>2, CutKept
<1>14. QED
  BY <1>5, <1>6, <1>7, <1>8, <1>9, <1>10, <1>11, <1>12, <1>13

\* A pull or a manual URL adds articles and versions.
LEMMA IngestStep ==
    ASSUME IInv, NEW t \in Tasks, Ingest(t)
    PROVE  IInv'
<1>1. PICK batch \in SUBSET (Articles \ DemoArticles) \ {{}} :
        \E place \in [batch -> Events] : \E version \in [batch -> 1 .. MaxRevision] :
        \E k \in {"pull", "request"} :
          Ingested(batch, place, version) /\ Submit(t, k, {place[a] : a \in batch})
  BY DEF Ingest
<1>2. PICK place \in [batch -> Events] : \E version \in [batch -> 1 .. MaxRevision] :
        \E k \in {"pull", "request"} :
          Ingested(batch, place, version) /\ Submit(t, k, {place[a] : a \in batch})
  BY <1>1
<1>3. PICK version \in [batch -> 1 .. MaxRevision] : \E k \in {"pull", "request"} :
        Ingested(batch, place, version) /\ Submit(t, k, {place[a] : a \in batch})
  BY <1>2
<1>4. PICK k \in {"pull", "request"} :
        Ingested(batch, place, version) /\ Submit(t, k, {place[a] : a \in batch})
  BY <1>3
<1>5. home' \in [Articles -> Events \cup {Nowhere}]
  BY <1>4 DEF Ingested, IInv, TypeOK
<1>6. revision' \in [Articles -> Revisions]
  BY <1>4, BudgetAssumption DEF Ingested, IInv, TypeOK, Revisions
<1>7. state' \in [Events -> {"absent", "active", "merged"}]
  BY <1>4 DEF Ingested, IInv, TypeOK
<1>8. \A a \in DemoArticles : home[a] = Nowhere => home'[a] = Nowhere
  BY <1>4, NamesAssumption DEF Ingested
<1>9. {place[a] : a \in batch} \in SUBSET Events /\ demo' = demo /\ MayCommit(t)
  BY DEF Ingest
<1>10. demo' \subseteq Events /\ demo \subseteq demo'
  BY <1>9 DEF IInv, TypeOK
<1>11. QED
  BY <1>4, <1>5, <1>6, <1>7, <1>8, <1>9, <1>10, EventsChange

\* A merge moves articles to the target event.
LEMMA MergeStep ==
    ASSUME IInv, NEW t \in Tasks, Merge(t)
    PROVE  IInv'
<1>1. PICK target \in Events, sources \in SUBSET Events, lost \in SUBSET Events :
        /\ home' = [a \in Articles |-> IF home[a] \in lost THEN Nowhere
                                       ELSE IF home[a] \in sources THEN target
                                       ELSE home[a]]
        /\ state' = [e \in Events |-> IF e \in sources THEN "merged" ELSE state[e]]
        /\ Submit(t, "request", {target})
  BY DEF Merge
<1>2. home' \in [Articles -> Events \cup {Nowhere}]
  BY <1>1 DEF IInv, TypeOK
<1>3. revision' \in [Articles -> Revisions] /\ demo' \subseteq Events /\ demo \subseteq demo'
  BY DEF Merge, IInv, TypeOK
<1>4. state' \in [Events -> {"absent", "active", "merged"}]
  BY <1>1 DEF IInv, TypeOK
<1>5. \A a \in DemoArticles : home[a] = Nowhere => home'[a] = Nowhere
  BY <1>1, NamesAssumption
<1>6. {target} \in SUBSET Events /\ MayCommit(t)
  BY DEF Merge
<1>7. QED
  BY <1>1, <1>2, <1>3, <1>4, <1>5, <1>6, EventsChange

\* A split moves articles to a new event.
LEMMA SplitStep ==
    ASSUME IInv, NEW t \in Tasks, Split(t)
    PROVE  IInv'
<1>1. PICK source \in Events, new \in Events, selected \in SUBSET Articles :
        /\ \A a \in selected : home[a] = source
        /\ home' = [a \in Articles |-> IF a \in selected THEN new ELSE home[a]]
        /\ state' = [state EXCEPT ![new] = "active"]
        /\ demo' = IF source \in demo THEN demo \cup {new} ELSE demo
        /\ Submit(t, "request", {source, new})
  BY DEF Split
<1>2. home' \in [Articles -> Events \cup {Nowhere}]
  BY <1>1 DEF IInv, TypeOK
<1>3. revision' \in [Articles -> Revisions] /\ demo' \subseteq Events /\ demo \subseteq demo'
  BY <1>1 DEF Split, IInv, TypeOK
<1>4. state' \in [Events -> {"absent", "active", "merged"}]
  BY <1>1 DEF IInv, TypeOK
<1>5. \A a \in DemoArticles : home[a] = Nowhere => home'[a] = Nowhere
  BY <1>1, NamesAssumption
<1>6. {source, new} \in SUBSET Events /\ MayCommit(t)
  BY DEF Split
<1>7. QED
  BY <1>1, <1>2, <1>3, <1>4, <1>5, <1>6, EventsChange

\* A reanalysis changes no row, so it may start while a call is out.
LEMMA ReanalyzeStep ==
    ASSUME IInv, NEW t \in Tasks, Reanalyze(t)
    PROVE  IInv'
<1> USE DEF IInv
<1>1. PICK e \in Events : Submit(t, "retry", {e})
  BY DEF Reanalyze
<1>2. /\ UNCHANGED rows /\ UNCHANGED <<writer, work, cut>>
      /\ pc' = [pc EXCEPT ![t] = "next"]
      /\ todo' = [todo EXCEPT ![t] = {e}]
      /\ kind' = [kind EXCEPT ![t] = "retry"]
  BY <1>1 DEF Reanalyze, Submit, rows, history
<1>3. pc[t] = "idle" /\ LoopFree /\ \A u \in Tasks : kind[u] # "seed"
  BY NoSeed DEF Reanalyze
<1>4. TypeOK'
  BY <1>2 DEF TypeOK, Kinds, rows, environment, clusters, results
<1>5. LockInv'
  BY <1>2, <1>3 DEF LockInv, TypeOK
<1>6. LoopInv'
  BY <1>2, <1>3 DEF LoopInv, LoopFree, OnLoop, TypeOK
<1>7. \A u \in Tasks : Working(u)' <=> Working(u)
  BY <1>2, <1>3 DEF Working, TypeOK
<1>8. InputInv'
  <2>1. job' = job /\ mode' = mode
    BY <1>2 DEF rows, environment, results
  <2>2. \A u \in Tasks : Working(u) => work[u].event \in Events
    BY DEF InputInv, WorkItem
  <2>3. QED
    BY <1>2, <1>7, <2>1, <2>2, RowsKept DEF InputInv
<1>9. RowsInv' /\ CostInv'
  BY <1>2, <1>3, <1>7 DEF RowsInv, CostInv, TypeOK, rows, environment, results
<1>10. SeedInv'
  BY <1>2, <1>3 DEF SeedInv, TypeOK
<1>11. OnlyCutJobsStayRunning'
  <2>1. job' = job /\ cut' = cut
    BY <1>2 DEF rows, results
  <2>2. QED
    BY <1>2, <1>7, <2>1, CutKept
<1>12. QED
  BY <1>2, <1>4, <1>5, <1>6, <1>8, <1>9, <1>10, <1>11, RowsKept
-----------------------------------------------------------------------------
(***************************************************************************)
(* Steps that settle an analysis                                           *)
(***************************************************************************)
\* Whoever settles an analysis is the only task between two of its own commits.
LEMMA AloneOnLoop ==
    ASSUME IInv, NEW t \in Tasks, OnLoop(t), LockFor(t)
    PROVE  /\ writer = NoTask
           /\ \A u \in Tasks \ {t} : pc[u] \notin {"next", "prepare", "calling", "record"}
<1>1. writer # t
  BY DEF IInv, LockInv, OnLoop
<1>2. QED
  BY <1>1, NamesAssumption DEF IInv, LockInv, LoopInv, OnLoop, LockFor

\* A new report version for an input that has none keeps the report properties.
LEMMA NewVersion ==
    ASSUME IInv, NEW e \in Events, NEW h \in Hashes, h \notin Reported(e),
           reports' = [reports EXCEPT ![e] = WithReport(e, h)],
           current' = [current EXCEPT ![e] = h],
           torn' = torn \ {e}
    PROVE  /\ reports' \in [Events -> Seq(Hashes)]
           /\ current' \in [Events -> Hashes \cup {NoHash}]
           /\ \A d \in Events : Reported(d)' = IF d = e THEN Reported(e) \cup {h} ELSE Reported(d)
           /\ ReadersSeeOneAnalysis'
           /\ OneReportPerInput'
<1> USE DEF IInv
<1>1. reports[e] \in Seq(Hashes) /\ reports \in [Events -> Seq(Hashes)]
  BY DEF TypeOK
<1>2. reports' = [reports EXCEPT ![e] = Append(reports[e], h)]
  BY PublishAppends
<1> DEFINE s == reports[e]
           s2 == Append(reports[e], h)
<1>3. /\ s2 \in Seq(Hashes)
      /\ s2 # <<>>
      /\ Len(s2) = Len(s) + 1
      /\ DOMAIN s2 = DOMAIN s \cup {Len(s) + 1}
      /\ \A i \in DOMAIN s : s2[i] = s[i] /\ i < Len(s) + 1
      /\ s2[Len(s) + 1] = h
  BY <1>1, AppendVersion
<1>4. reports'[e] = s2 /\ \A d \in Events \ {e} : reports'[d] = reports[d]
  BY <1>1, <1>2
<1>5. current'[e] = h /\ \A d \in Events \ {e} : current'[d] = current[d]
  BY DEF TypeOK
<1>6. reports' = [reports EXCEPT ![e] = s2]
  BY <1>2
<1> HIDE DEF s2
<1>7. reports' \in [Events -> Seq(Hashes)]
  BY <1>1, <1>3, <1>6, Zenon
<1>8. current' \in [Events -> Hashes \cup {NoHash}]
  BY DEF TypeOK
<1>9. Reported(e)' = Reported(e) \cup {h}
  BY <1>3, <1>4 DEF Reported
<1>10. \A d \in Events \ {e} : Reported(d)' = Reported(d)
  BY <1>4 DEF Reported
<1>11. ReadersSeeOneAnalysis'
  BY ZenonT(40), <1>3, <1>4, <1>5 DEF ReadersSeeOneAnalysis
<1>12. OneReportPerInput'
  <2>1. \A i, j \in DOMAIN s2 : s2[i] = s2[j] => i = j
    <3>1. \A i \in DOMAIN s : s[i] # h
      BY DEF Reported
    <3>2. \A i, j \in DOMAIN s : s[i] = s[j] => i = j
      BY DEF OneReportPerInput
    <3>3. QED
      BY <1>3, <3>1, <3>2
  <2>2. QED
    BY <1>4, <2>1 DEF OneReportPerInput
<1>13. QED
  BY <1>7, <1>8, <1>9, <1>10, <1>11, <1>12

\* The deterministic analyser publishes without a job and without a call.
LEMMA AnalyzeDeterministicStep ==
    ASSUME IInv, NEW t \in Tasks, NEW e \in Events, AnalyzeDeterministic(t, e)
    PROVE  IInv'
<1> USE DEF IInv
<1>1. /\ UNCHANGED <<environment, clusters, job, spent, writer, kind, cut>>
      /\ reports' = [reports EXCEPT ![e] = WithReport(e, Hash(e))]
      /\ current' = [current EXCEPT ![e] = Hash(e)]
      /\ torn' = torn \ {e}
      /\ pc' = [pc EXCEPT ![t] = "next"]
      /\ todo' = [todo EXCEPT ![t] = todo[t] \ {e}]
      /\ work' = [work EXCEPT ![t] = NoWork]
  BY DEF AnalyzeDeterministic, EventDone
<1>2. OnLoop(t) /\ LockFor(t) /\ pc[t] = "next" /\ Hash(e) \notin Reported(e) /\ e \in todo[t]
  BY DEF AnalyzeDeterministic, OnLoop, Analysed, LockFree, LockFor
<1>3. Hash(e) \in Hashes /\ Hash(e)[2] = mode /\ mode \in Modes
  BY HashTyped DEF TypeOK
<1>4. /\ writer = NoTask
      /\ \A u \in Tasks \ {t} : pc[u] \notin {"next", "prepare", "calling", "record"}
  BY <1>2, AloneOnLoop
<1>5. \A u \in Tasks : ~Working(u) /\ pc'[u] \notin {"prepare", "calling", "record"}
  BY <1>1, <1>2, <1>4 DEF TypeOK, Working
<1>6. /\ reports' \in [Events -> Seq(Hashes)]
      /\ current' \in [Events -> Hashes \cup {NoHash}]
      /\ \A d \in Events : Reported(d)' = IF d = e THEN Reported(e) \cup {Hash(e)} ELSE Reported(d)
      /\ ReadersSeeOneAnalysis'
      /\ OneReportPerInput'
  BY <1>1, <1>2, <1>3, NewVersion
<1>7. TypeOK'
  BY <1>1, <1>6 DEF TypeOK, environment, clusters
<1>8. LockInv'
  BY <1>1, <1>4, <1>5, NamesAssumption DEF LockInv
<1>9. LoopInv'
  BY <1>1, <1>4 DEF LoopInv, OnLoop, TypeOK
<1>10. InputInv' /\ RowsInv' /\ CostInv'
  BY <1>5 DEF InputInv, RowsInv, CostInv, Working
<1>11. FutureUnspent' /\ BudgetBound'
  BY <1>1 DEF FutureUnspent, BudgetBound, environment
<1>12. JobsMatchReports'
  <2>1. mode = Deterministic \/ (job[e][Hash(e)] = "none" /\ e \in demo)
    BY <1>2, <1>3, ModesAssumption DEF AnalyzeDeterministic, ByModel, SeedInv
  <2>2. \A d \in Events, h \in Hashes : h \in Reported(d)' =>
           h \in Reported(d) \/ (d = e /\ h = Hash(e))
    BY <1>6
  <2>3. \A d \in Events : Reported(d) \subseteq Reported(d)'
    BY <1>6
  <2>4. job' = job /\ demo' = demo
    BY <1>1 DEF clusters
  <2>5. QED
    BY <1>3, <2>1, <2>2, <2>3, <2>4 DEF JobsMatchReports, Deterministic, OpenAI
<1>13. SeedInv' /\ UnseededInv'
  <2>1. \A d \in Events : Hash(d)' = Hash(d)
    BY <1>1, HashKept
  <2>2. SeedInv'
    BY <1>1, <2>1 DEF SeedInv, TypeOK, clusters
  <2>3. UnseededInv'
    BY <1>1 DEF UnseededInv, clusters
  <2>4. QED
    BY <2>2, <2>3
<1>14. OnlyCutJobsStayRunning'
  BY <1>1, <1>5, CutKept
<1>15. QED
  BY <1>6, <1>7, <1>8, <1>9, <1>10, <1>11, <1>12, <1>13, <1>14

\* The job is committed as running for an input that has no report.
LEMMA StartJobStep ==
    ASSUME IInv, NEW t \in Tasks, NEW e \in Events, StartJob(t, e)
    PROVE  IInv'
<1> USE DEF IInv
<1> DEFINE h == Hash(e)
<1>1. /\ UNCHANGED <<environment, clusters, reports, current, spent, writer, todo, kind, torn>>
      /\ job' = [job EXCEPT ![e] = [@ EXCEPT ![h] = "running"]]
      /\ pc' = [pc EXCEPT ![t] = "prepare"]
      /\ work' = [work EXCEPT ![t] = NewWork(e)]
      /\ cut' = cut \ {<<e, h>>}
  BY DEF StartJob
<1>2. OnLoop(t) /\ pc[t] = "next" /\ mode = OpenAI /\ kind[t] # "seed" /\ h \notin Reported(e)
  BY DEF StartJob, OnLoop, Analysed, ByModel
<1>3. h \in Hashes /\ h[1] = Content(e) /\ h[2] = OpenAI
  BY <1>2, HashTyped
<1>4. \A d \in Events : Hash(d)' = Hash(d) /\ Reported(d)' = Reported(d)
  BY <1>1, HashKept DEF Reported
<1> HIDE DEF h
<1>5. NewWork(e) \in WorkItem
  BY <1>3, BudgetAssumption DEF NewWork, WorkItem, TypeOK, h
<1>6. /\ work'[t] = NewWork(e) /\ pc'[t] = "prepare"
      /\ \A u \in Tasks \ {t} : work'[u] = work[u] /\ pc'[u] = pc[u]
  BY <1>1 DEF TypeOK
<1>7. /\ job'[e][h] = "running"
      /\ \A d \in Events, g \in Hashes : <<d, g>> # <<e, h>> => job'[d][g] = job[d][g]
      /\ job' \in [Events -> [Hashes -> JobStatus]]
  BY <1>1, <1>3 DEF TypeOK, JobStatus
<1>8. TypeOK'
  BY <1>1, <1>5, <1>7 DEF TypeOK, environment, clusters
<1>9. LockInv' /\ LoopInv'
  BY <1>1, <1>2, <1>6 DEF LockInv, LoopInv, OnLoop
<1>10. InputInv'
  <2>1. SUFFICES ASSUME NEW u \in Tasks, pc'[u] \in {"prepare", "calling", "record"}
                 PROVE  /\ work'[u] \in WorkItem
                        /\ work'[u].hash = Hash(work[u].event)'
                        /\ work'[u].hash \notin Reported(work[u].event)'
                        /\ job'[work'[u].event][work'[u].hash] = "running"
                        /\ mode' = OpenAI
    BY DEF InputInv, Working
  <2>2. CASE u = t
    <3>1. work'[u].event = e /\ work'[u].hash = h
      BY <1>6, <2>2 DEF NewWork, h
    <3>2. Hash(work[u].event)' = h /\ Reported(work[u].event)' = Reported(e)
      BY <1>4, <3>1 DEF h
    <3>3. QED
      BY <1>1, <1>2, <1>5, <1>6, <1>7, <2>2, <3>1, <3>2 DEF environment
  <2>3. CASE u # t
    <3>1. /\ work[u] \in WorkItem
          /\ work[u].hash = Hash(work[u].event)
          /\ work[u].hash \notin Reported(work[u].event)
          /\ job[work[u].event][work[u].hash] = "running"
          /\ work'[u] = work[u]
      BY <1>6, <2>1, <2>3 DEF InputInv, Working
    <3>2. work[u].event \in Events /\ work[u].hash \in Hashes
      BY <3>1 DEF WorkItem
    <3>3. job'[work[u].event][work[u].hash] = "running"
      BY <1>7, <3>1, <3>2
    <3>4. QED
      BY <1>1, <1>2, <1>4, <3>1, <3>2, <3>3 DEF environment
  <2>4. QED
    BY <2>2, <2>3
<1>11. CostInv' /\ RowsInv'
  <2>1. /\ work'[t].replaced = {} /\ work'[t].cost = 0 /\ work'[t].charge = 0
        /\ pc'[t] = "prepare"
    BY <1>6 DEF NewWork
  <2>2. spent' = spent /\ day' = day
    BY <1>1 DEF environment
  <2>3. CostInv'
    BY <1>6, <2>1, <2>2 DEF CostInv
  <2>4. RowsInv'
    BY <1>6, <2>1 DEF RowsInv, Working
  <2>5. QED
    BY <2>3, <2>4
<1>12. FutureUnspent' /\ BudgetBound' /\ ReadersSeeOneAnalysis' /\ OneReportPerInput'
  BY <1>1 DEF FutureUnspent, BudgetBound, ReadersSeeOneAnalysis, OneReportPerInput, environment
<1>13. demo' = demo /\ home' = home
  BY <1>1 DEF clusters
<1>14. JobsMatchReports'
  BY <1>2, <1>4, <1>7, <1>13 DEF JobsMatchReports
<1>15. SeedInv'
  <2>1. \A u \in Tasks : kind[u] # "seed"
    BY <1>2, NoSeed
  <2>2. QED
    BY <1>1, <2>1 DEF SeedInv
<1>16. UnseededInv'
  <2>1. SUFFICES ASSUME demo = {}, NEW a \in DemoArticles
                 PROVE  /\ home[a] = Nowhere
                        /\ \A d \in Events, g \in Hashes : job'[d][g] # "none" => g[1][a] = 0
    BY <1>13 DEF UnseededInv
  <2>2. /\ home[a] = Nowhere
        /\ \A d \in Events, g \in Hashes : job[d][g] # "none" => g[1][a] = 0
    BY <2>1 DEF UnseededInv
  <2>3. h[1][a] = 0
    BY <1>3, <2>2, NamesAssumption DEF Content
  <2>4. QED
    BY <1>7, <2>2, <2>3
<1>17. OnlyCutJobsStayRunning'
  <2>1. SUFFICES ASSUME NEW d \in Events, NEW g \in Hashes, job'[d][g] = "running"
                 PROVE  <<d, g>> \in cut' \cup JobsOf(Tasks)'
    BY DEF OnlyCutJobsStayRunning
  <2>2. CASE <<d, g>> = <<e, h>>
    <3>1. Working(t)' /\ work'[t].event = e /\ work'[t].hash = h
      BY <1>6 DEF Working, NewWork, h
    <3>2. QED
      BY <2>2, <3>1 DEF JobsOf
  <2>3. CASE <<d, g>> # <<e, h>>
    <3>1. <<d, g>> \in cut \cup JobsOf(Tasks)
      BY <1>7, <2>1, <2>3 DEF OnlyCutJobsStayRunning
    <3>2. CASE <<d, g>> \in cut
      BY <1>1, <2>3, <3>2
    <3>3. CASE <<d, g>> \in JobsOf(Tasks)
      <4>1. PICK u \in Tasks : Working(u) /\ <<d, g>> = <<work[u].event, work[u].hash>>
        BY <3>3 DEF JobsOf
      <4>2. u # t
        BY <1>2, <4>1 DEF Working
      <4>3. Working(u)' /\ work'[u] = work[u]
        BY <1>6, <4>1, <4>2 DEF Working
      <4>4. QED
        BY <4>1, <4>3 DEF JobsOf
    <3>4. QED
      BY <3>1, <3>2, <3>3
  <2>4. QED
    BY <2>2, <2>3
<1>18. QED
  BY <1>8, <1>9, <1>10, <1>11, <1>12, <1>14, <1>15, <1>16, <1>17

\* Running jobs stay accounted for when the one task that works settles its job.
LEMMA SettledKept ==
    ASSUME IInv, NEW t \in Tasks, Working(t), \A u \in Tasks \ {t} : ~Working(u),
           NEW status \in JobStatus, status # "running", cut' = cut,
           job' = [job EXCEPT ![work[t].event] = [@ EXCEPT ![work[t].hash] = status]]
    PROVE  /\ OnlyCutJobsStayRunning'
           /\ job' \in [Events -> [Hashes -> JobStatus]]
           /\ job'[work[t].event][work[t].hash] = status
           /\ \A d \in Events, g \in Hashes :
                 <<d, g>> # <<work[t].event, work[t].hash>> => job'[d][g] = job[d][g]
<1> DEFINE e == work[t].event
           h == work[t].hash
<1>1. e \in Events /\ h \in Hashes
  BY DEF IInv, InputInv, WorkItem
<1>2. job \in [Events -> [Hashes -> JobStatus]]
  BY DEF IInv, TypeOK
<1>3. job' = [job EXCEPT ![e] = [@ EXCEPT ![h] = status]]
  OBVIOUS
<1> HIDE DEF e, h
<1>4. /\ job' \in [Events -> [Hashes -> JobStatus]]
      /\ job'[e][h] = status
      /\ \A d \in Events, g \in Hashes : <<d, g>> # <<e, h>> => job'[d][g] = job[d][g]
  <2>1. job[e] \in [Hashes -> JobStatus]
    BY <1>1, <1>2
  <2>2. job' = [job EXCEPT ![e] = [job[e] EXCEPT ![h] = status]]
    BY <1>3
  <2>3. [job[e] EXCEPT ![h] = status] \in [Hashes -> JobStatus]
    BY <2>1
  <2>4. job'[e] = [job[e] EXCEPT ![h] = status]
    BY <1>1, <1>2, <2>2
  <2>5. \A d \in Events : d # e => job'[d] = job[d]
    BY <1>2, <2>2
  <2>6. job' \in [Events -> [Hashes -> JobStatus]]
    BY <1>2, <2>2, <2>3
  <2>7. QED
    BY <1>1, <2>1, <2>4, <2>5, <2>6
<1>5. OnlyCutJobsStayRunning'
  <2>1. SUFFICES ASSUME NEW d \in Events, NEW g \in Hashes, job'[d][g] = "running"
                 PROVE  <<d, g>> \in cut
    BY DEF OnlyCutJobsStayRunning
  <2>2. <<d, g>> # <<e, h>> /\ job[d][g] = "running"
    BY <1>4, <2>1
  <2>3. <<d, g>> \in cut \cup JobsOf(Tasks)
    BY <2>2 DEF IInv, OnlyCutJobsStayRunning
  <2>4. <<d, g>> \notin JobsOf(Tasks)
    BY <2>2 DEF JobsOf, e, h
  <2>5. QED
    BY <2>3, <2>4
<1>6. QED
  BY <1>4, <1>5 DEF e, h

\* The demo's part of the invariant when a job that was not "none" is settled.
LEMMA DemoKept ==
    ASSUME IInv, NEW t \in Tasks, Working(t), LoopFree \/ OnLoop(t),
           UNCHANGED <<clusters, kind>>,
           \A d \in Events, g \in Hashes :
              <<d, g>> # <<work[t].event, work[t].hash>> => job'[d][g] = job[d][g]
    PROVE  SeedInv' /\ UnseededInv'
<1>1. \A u \in Tasks : kind[u] # "seed"
  BY WorkingNoSeed
<1>2. SeedInv'
  BY <1>1 DEF SeedInv
<1>3. job[work[t].event][work[t].hash] = "running"
  BY DEF IInv, InputInv
<1>4. work[t].event \in Events /\ work[t].hash \in Hashes
  BY DEF IInv, InputInv, WorkItem
<1>5. \A d \in Events, g \in Hashes : job'[d][g] # "none" => job[d][g] # "none"
  BY <1>3
<1>6. UnseededInv'
  BY <1>5 DEF IInv, UnseededInv, clusters
<1>7. QED
  BY <1>2, <1>6

\* The verdict on a failed call replaces the job's "running", today's cost grows.
\* The rows its call had replaced are gone, so the commit publishes none of them.
LEMMA RecordFailureStep ==
    ASSUME IInv, NEW t \in Tasks, RecordFailure(t)
    PROVE  IInv'
<1> USE DEF IInv
<1> DEFINE e == work[t].event
           h == work[t].hash
<1>1. /\ work[t] \in WorkItem
      /\ Working(t) /\ pc[t] = "record" /\ OnLoop(t) /\ LockFor(t)
      /\ h \notin Reported(e)
      /\ work[t].replaced = {}
      /\ work[t].verdict \in {"retry_wait", "dead"}
      /\ spent[day] + work[t].charge <= DailyBudget + MaxCallCost
  BY DEF RecordFailure, InputInv, CostInv, RowsInv, Working, OnLoop
<1>2. e \in Events /\ h \in Hashes /\ work[t].charge \in Nat
  BY <1>1 DEF WorkItem
<1>3. /\ UNCHANGED <<environment, clusters, reports, kind, cut, torn>>
      /\ current' = Committed(t)
      /\ job' = [job EXCEPT ![e] = [@ EXCEPT ![h] = work[t].verdict]]
      /\ spent' = [spent EXCEPT ![day] = @ + work[t].charge]
      /\ writer' = NoTask
      /\ pc' = [pc EXCEPT ![t] = "next"]
      /\ todo' = [todo EXCEPT ![t] = todo[t] \ {e}]
      /\ work' = [work EXCEPT ![t] = NoWork]
  BY DEF RecordFailure, EventDone, history
<1>4. \A d \in Events : current'[d] = current[d]
  BY <1>1, <1>3 DEF Committed
<1>5. current' \in [Events -> Hashes \cup {NoHash}]
  BY <1>1, <1>3 DEF Committed, TypeOK
<1>6. \A u \in Tasks \ {t} : pc[u] \notin {"next", "prepare", "calling", "record"}
  BY <1>1, AloneOnLoop
<1>7. \A u \in Tasks : pc'[u] \notin {"prepare", "calling", "record"}
  BY <1>3, <1>6 DEF TypeOK
<1>8. /\ OnlyCutJobsStayRunning'
      /\ job' \in [Events -> [Hashes -> JobStatus]]
      /\ job'[e][h] = work[t].verdict
      /\ \A d \in Events, g \in Hashes : <<d, g>> # <<e, h>> => job'[d][g] = job[d][g]
  <2>1. \A u \in Tasks \ {t} : ~Working(u)
    BY <1>6 DEF Working
  <2>2. work[t].verdict \in JobStatus /\ work[t].verdict # "running"
    BY <1>1 DEF JobStatus
  <2>3. QED
    BY <1>1, <1>3, <2>1, <2>2, SettledKept
<1>9. SeedInv' /\ UnseededInv'
  BY <1>1, <1>3, <1>8, DemoKept
<1> HIDE DEF e, h
<1>10. /\ spent' \in [Days -> Nat]
       /\ spent'[day] = spent[day] + work[t].charge
       /\ \A d \in Days \ {day} : spent'[d] = spent[d]
  BY <1>2, <1>3 DEF TypeOK
<1>11. TypeOK'
  BY <1>3, <1>5, <1>8, <1>10 DEF TypeOK, environment, clusters
<1>12. LockInv'
  BY <1>3, <1>7, NamesAssumption DEF LockInv
<1>13. LoopInv'
  BY <1>3, <1>6 DEF LoopInv, OnLoop, TypeOK
<1>14. InputInv' /\ RowsInv' /\ CostInv'
  BY <1>7 DEF InputInv, RowsInv, CostInv, Working
<1>15. FutureUnspent' /\ BudgetBound'
  <2>1. day' = day /\ day \in Int
    BY <1>3, BudgetAssumption DEF environment, TypeOK, Days
  <2>2. FutureUnspent'
    BY <1>10, <2>1 DEF FutureUnspent
  <2>3. BudgetBound'
    BY <1>1, <1>10 DEF BudgetBound
  <2>4. QED
    BY <2>2, <2>3
<1>16. ReadersSeeOneAnalysis' /\ OneReportPerInput'
  <2>1. reports' = reports /\ torn' = torn
    BY <1>3
  <2>2. QED
    BY <1>4, <2>1 DEF ReadersSeeOneAnalysis, OneReportPerInput
<1>17. JobsMatchReports'
  <2>1. \A d \in Events : Reported(d)' = Reported(d)
    BY <1>3 DEF Reported
  <2>2. demo' = demo
    BY <1>3 DEF clusters
  <2>3. job'[e][h] # "succeeded" /\ h \notin Reported(e)
    BY <1>1, <1>8 DEF e, h
  <2>4. QED
    BY <1>8, <2>1, <2>2, <2>3 DEF JobsMatchReports
<1>18. QED
  BY <1>8, <1>9, <1>11, <1>12, <1>13, <1>14, <1>15, <1>16, <1>17

\* A valid answer is published for the input the event still has, with the claims
\* and impacts prepared for it.
LEMMA PublishStep ==
    ASSUME IInv, NEW t \in Tasks, Publish(t)
    PROVE  IInv'
<1> USE DEF IInv
<1> DEFINE e == work[t].event
           h == work[t].hash
<1>1. /\ work[t] \in WorkItem
      /\ Working(t) /\ pc[t] = "calling" /\ LoopFree
      /\ h = Hash(e)
      /\ h \notin Reported(e)
      /\ mode = OpenAI
      /\ work[t].replaced = {e}
      /\ work[t].left <= DailyBudget
      /\ work[t].day <= day
      /\ spent[work[t].day] + work[t].left <= DailyBudget
  BY DEF Publish, Returned, InputInv, CostInv, RowsInv, Working
<1>2. e \in Events /\ h \in Hashes /\ work[t].day \in Days
      /\ work[t].cost \in Nat /\ work[t].left \in Nat
  BY <1>1 DEF WorkItem
<1>3. PICK c \in 0 .. MaxCallCost :
        /\ work[t].cost + c <= work[t].left
        /\ spent' = [spent EXCEPT ![work[t].day] = @ + work[t].cost + c]
  BY DEF Publish
<1>4. /\ UNCHANGED <<environment, clusters, kind, cut>>
      /\ reports' = [reports EXCEPT ![e] = WithReport(e, h)]
      /\ current' = Committed(t)
      /\ torn' = torn \ {e}
      /\ job' = [job EXCEPT ![e] = [@ EXCEPT ![h] = "succeeded"]]
      /\ writer' = NoTask
      /\ pc' = [pc EXCEPT ![t] = "next"]
      /\ todo' = [todo EXCEPT ![t] = todo[t] \ {e}]
      /\ work' = [work EXCEPT ![t] = NoWork]
  BY DEF Publish, EventDone
<1>5. current' = [current EXCEPT ![e] = h]
  BY <1>1, <1>2, <1>4 DEF Committed, TypeOK
<1>6. \A u \in Tasks \ {t} : pc[u] # "calling" /\ ~OnLoop(u)
  BY <1>1 DEF LockInv, LoopFree
<1>7. \A u \in Tasks : pc'[u] \notin {"prepare", "calling", "record"}
  BY <1>4, <1>6 DEF TypeOK, OnLoop
<1>8. h[2] = OpenAI
  BY <1>1, <1>2, HashTyped
<1>9. /\ OnlyCutJobsStayRunning'
      /\ job' \in [Events -> [Hashes -> JobStatus]]
      /\ job'[e][h] = "succeeded"
      /\ \A d \in Events, g \in Hashes : <<d, g>> # <<e, h>> => job'[d][g] = job[d][g]
  <2>1. \A u \in Tasks \ {t} : ~Working(u)
    BY <1>6 DEF Working, OnLoop
  <2>2. "succeeded" \in JobStatus /\ "succeeded" # "running"
    BY DEF JobStatus
  <2>3. QED
    BY <1>1, <1>4, <2>1, <2>2, SettledKept
<1>10. SeedInv' /\ UnseededInv'
  BY <1>1, <1>4, <1>9, DemoKept
<1> HIDE DEF e, h
<1>11. /\ reports' \in [Events -> Seq(Hashes)]
       /\ current' \in [Events -> Hashes \cup {NoHash}]
       /\ \A d \in Events : Reported(d)' = IF d = e THEN Reported(e) \cup {h} ELSE Reported(d)
       /\ ReadersSeeOneAnalysis'
       /\ OneReportPerInput'
  BY <1>1, <1>2, <1>4, <1>5, NewVersion
<1>12. /\ spent' \in [Days -> Nat]
       /\ spent'[work[t].day] <= DailyBudget
       /\ \A d \in Days \ {work[t].day} : spent'[d] = spent[d]
  <2>1. spent[work[t].day] \in Nat /\ c \in Nat
    BY <1>2, BudgetAssumption DEF TypeOK
  <2>2. spent' = [spent EXCEPT ![work[t].day] = spent[work[t].day] + work[t].cost + c]
    BY <1>3
  <2>3. /\ spent[work[t].day] + work[t].cost + c \in Nat
        /\ spent[work[t].day] + work[t].cost + c <= DailyBudget
    BY <1>1, <1>2, <1>3, <2>1, BudgetAssumption
  <2>4. QED
    BY <1>2, <2>2, <2>3 DEF TypeOK
<1>13. TypeOK'
  BY <1>4, <1>9, <1>11, <1>12 DEF TypeOK, environment, clusters
<1>14. LockInv'
  BY <1>4, <1>7, NamesAssumption DEF LockInv
<1>15. LoopInv'
  BY <1>4, <1>6 DEF LoopInv, OnLoop, TypeOK
<1>16. InputInv' /\ RowsInv' /\ CostInv'
  BY <1>7 DEF InputInv, RowsInv, CostInv, Working
<1>17. FutureUnspent' /\ BudgetBound'
  <2>1. day' = day /\ day \in Int /\ work[t].day \in Int
    BY <1>2, <1>4, BudgetAssumption DEF environment, TypeOK, Days
  <2>2. FutureUnspent'
    BY <1>1, <1>12, <2>1 DEF FutureUnspent, Days
  <2>3. BudgetBound'
    BY <1>2, <1>12, BudgetAssumption DEF BudgetBound
  <2>4. QED
    BY <2>2, <2>3
<1>18. JobsMatchReports'
  <2>1. demo' = demo
    BY <1>4 DEF clusters
  <2>2. \A d \in Events, g \in Hashes : <<d, g>> # <<e, h>> =>
           (g \in Reported(d)' <=> g \in Reported(d))
    BY <1>11
  <2>3. \A d \in Events : d = e => h \in Reported(d)'
    BY <1>2, <1>11
  <2>4. QED
    BY <1>8, <1>9, <2>1, <2>2, <2>3 DEF JobsMatchReports
<1>19. QED
  BY <1>9, <1>10, <1>11, <1>13, <1>14, <1>15, <1>16, <1>17, <1>18

\* A pull that an exception leaves during its call publishes the rows of its event:
\* the event counts as torn until it is analysed again.
LEMMA EscapesStep ==
    ASSUME IInv, NEW t \in Tasks, Escapes(t)
    PROVE  IInv'
<1> USE DEF IInv
<1>1. /\ UNCHANGED <<environment, clusters, reports, job, spent>>
      /\ current' = Committed(t)
      /\ torn' = torn \cup {work[t].event}
      /\ writer' = NoTask
      /\ pc' = [pc EXCEPT ![t] = "idle"]
      /\ todo' = [todo EXCEPT ![t] = {}]
      /\ kind' = [kind EXCEPT ![t] = "pull"]
      /\ work' = [work EXCEPT ![t] = NoWork]
      /\ cut' = cut \cup JobsOf({t})
  BY DEF Escapes, Abort
<1>2. /\ work[t] \in WorkItem
      /\ Working(t) /\ pc[t] = "calling" /\ LoopFree
      /\ work[t].replaced = {work[t].event}
  BY DEF Escapes, Returned, InputInv, RowsInv, Working
<1>3. work[t].event \in Events /\ work[t].hash \in Hashes
  BY <1>2 DEF WorkItem
<1>4. \A u \in Tasks \ {t} : ~Working(u) /\ ~OnLoop(u) /\ pc[u] # "calling"
  BY <1>2 DEF LockInv, LoopFree, Working, OnLoop
<1>5. \A u \in Tasks : pc'[u] \notin {"next", "prepare", "calling", "record"}
  BY <1>1, <1>4 DEF TypeOK, OnLoop
<1>6. \A u \in Tasks : kind'[u] # "seed"
  BY <1>1, <1>2, WorkingNoSeed DEF TypeOK
<1>7. current' \in [Events -> Hashes \cup {NoHash}]
  BY <1>1, <1>3 DEF Committed, TypeOK
<1>8. \A d \in Events \ {work[t].event} : current'[d] = current[d]
  BY <1>1, <1>2 DEF Committed
<1>9. cut' \subseteq Events \X Hashes
  BY <1>1, <1>3 DEF TypeOK, JobsOf
<1>10. TypeOK'
  BY <1>1, <1>3, <1>7, <1>9, NamesAssumption DEF TypeOK, Kinds, environment, clusters
<1>11. LockInv' /\ LoopInv' /\ InputInv' /\ RowsInv' /\ CostInv'
  BY <1>1, <1>5, NamesAssumption
     DEF LockInv, LoopInv, InputInv, RowsInv, CostInv, OnLoop, Working
<1>12. FutureUnspent' /\ BudgetBound' /\ OneReportPerInput'
  BY <1>1 DEF FutureUnspent, BudgetBound, OneReportPerInput, environment
<1>13. ReadersSeeOneAnalysis'
  <2>1. torn' = torn \cup {work[t].event} /\ reports' = reports
    BY <1>1
  <2>2. QED
    BY <1>8, <2>1 DEF ReadersSeeOneAnalysis
<1>14. JobsMatchReports' /\ UnseededInv'
  BY <1>1 DEF JobsMatchReports, Reported, UnseededInv, clusters
<1>15. SeedInv'
  BY <1>6 DEF SeedInv
<1>16. OnlyCutJobsStayRunning'
  <2>1. \A u \in Tasks : Working(u) => <<work[u].event, work[u].hash>> \in cut'
    BY <1>1, <1>4 DEF JobsOf
  <2>2. job' = job /\ cut \subseteq cut'
    BY <1>1
  <2>3. QED
    BY <2>1, <2>2, CutKept
<1>17. QED
  BY <1>10, <1>11, <1>12, <1>13, <1>14, <1>15, <1>16
-----------------------------------------------------------------------------
(***************************************************************************)
(* The inductive invariant and what it implies                             *)
(***************************************************************************)
\* A database without articles and a service without requests.
LEMMA InitInv == Init => IInv
<1> SUFFICES ASSUME Init PROVE IInv
  OBVIOUS
<1>1. TypeOK
  BY BudgetAssumption DEF Init, TypeOK, Days, Revisions, JobStatus, Kinds
<1>2. LockInv /\ LoopInv /\ InputInv /\ RowsInv /\ CostInv
  BY NamesAssumption DEF Init, LockInv, LoopInv, InputInv, RowsInv, CostInv, OnLoop, Working
<1>3. FutureUnspent /\ BudgetBound
  BY BudgetAssumption DEF Init, FutureUnspent, BudgetBound
<1>4. \A e \in Events : reports[e] = <<>> /\ Reported(e) = {}
  BY DEF Init, Reported
<1>5. ReadersSeeOneAnalysis /\ OneReportPerInput
  BY <1>4 DEF Init, ReadersSeeOneAnalysis, OneReportPerInput
<1>6. JobsMatchReports
  BY <1>4 DEF Init, JobsMatchReports
<1>7. SeedInv /\ UnseededInv /\ OnlyCutJobsStayRunning
  BY NamesAssumption DEF Init, SeedInv, UnseededInv, OnlyCutJobsStayRunning
<1>8. QED
  BY <1>1, <1>2, <1>3, <1>5, <1>6, <1>7 DEF IInv

\* Every step, of any task, thread or of the environment, keeps the invariant.
LEMMA StepInv == IInv /\ [Next]_vars => IInv'
<1> SUFFICES ASSUME IInv, [Next]_vars PROVE IInv'
  OBVIOUS
<1>1. ASSUME NEW t \in Tasks, Request(t) PROVE IInv'
  BY <1>1, IngestStep, MergeStep, SplitStep, ReanalyzeStep DEF Request
<1>2. ASSUME NEW t \in Tasks, Advance(t) PROVE IInv'
  BY <1>2, AbortSteps, SkipSteps, AnalyzeDeterministicStep, StartJobStep, PrepareStep,
     OutOfBudgetStep, RecordFailureStep DEF Advance
<1>3. ASSUME NEW t \in Tasks, Resume(t) PROVE IInv'
  BY <1>3, CallFailsSteps, RepairStep, PublishStep, AbortSteps, EscapesStep DEF Resume
<1>4. CASE ThreadBegins \/ ThreadEnds
  BY <1>4, ThreadSteps
<1>5. CASE NewDay
  BY <1>5, NewDayStep
<1>6. CASE Restart
  BY <1>6, RestartStep
<1>7. CASE UNCHANGED vars
  <2>1. UNCHANGED rows /\ UNCHANGED <<writer, pc, todo, kind, work, cut>>
    BY <1>7 DEF vars, rows, environment, clusters, results
  <2>2. TypeOK' /\ LockInv' /\ LoopInv' /\ CostInv' /\ RowsInv'
    BY <2>1 DEF IInv, TypeOK, LockInv, LoopInv, CostInv, RowsInv, OnLoop, Working,
                rows, environment, clusters, results
  <2>3. InputInv'
    BY <2>1, RowsKept DEF IInv, InputInv, WorkItem, Working, rows, environment, results
  <2>4. SeedInv'
    BY <2>1, RowsKept DEF IInv, SeedInv, TypeOK, rows, clusters, results
  <2>5. OnlyCutJobsStayRunning'
    BY <2>1, CutKept DEF rows, results, Working
  <2>6. QED
    BY <2>1, <2>2, <2>3, <2>4, <2>5, RowsKept DEF IInv
<1>8. QED
  BY <1>1, <1>2, <1>3, <1>4, <1>5, <1>6, <1>7 DEF Next

\* The inductive invariant holds in every reachable state.
THEOREM Invariant == Spec => []IInv
<1>1. QED
  BY InitInv, StepInv, PTL DEF Spec

\* Every variable keeps its type: in particular no job ever has an unknown status.
THEOREM TypeCorrect == Spec => []TypeOK
<1>1. IInv => TypeOK
  BY DEF IInv
<1>2. QED
  BY <1>1, Invariant, PTL

\* Outside the events a pull left torn, the newest report of an event and its current
\* claims and impacts are of one input, for any number of tasks and whatever calls
\* fail after they have replaced those rows.
THEOREM OneAnalysisShown == Spec => []ReadersSeeOneAnalysis
<1>1. IInv => ReadersSeeOneAnalysis
  BY DEF IInv
<1>2. QED
  BY <1>1, Invariant, PTL

\* No input of an event is published twice, however many requests race for it.
THEOREM NoDuplicateReport == Spec => []OneReportPerInput
<1>1. IInv => OneReportPerInput
  BY DEF IInv
<1>2. QED
  BY <1>1, Invariant, PTL

\* At most one model call is out at a time, for any number of tasks: the write
\* lock that the analysis holds across its await serialises the calls.
THEOREM CallsSerialised == Spec => []OneCallAtATime
<1>1. IInv => OneCallAtATime
  BY DEF IInv, LockInv, OneCallAtATime
<1>2. QED
  BY <1>1, Invariant, PTL

\* The cost of a day never passes the daily budget by more than one call.
THEOREM BudgetKept == Spec => []BudgetBound
<1>1. IInv => BudgetBound
  BY DEF IInv
<1>2. QED
  BY <1>1, Invariant, PTL

\* A succeeded job has its report, and a report of a model's input its settled job,
\* except those a start wrote for the demo.
THEOREM JobsAgree == Spec => []JobsMatchReports
<1>1. IInv => JobsMatchReports
  BY DEF IInv
<1>2. QED
  BY <1>1, Invariant, PTL

\* A job left "running" by nobody is one whose analysis was cut off.
THEOREM NoJobIsForgotten == Spec => []OnlyCutJobsStayRunning
<1>1. IInv => OnlyCutJobsStayRunning
  BY DEF IInv
<1>2. QED
  BY <1>1, Invariant, PTL
-----------------------------------------------------------------------------
(***************************************************************************)
(* Dead jobs                                                               *)
(***************************************************************************)
\* Three steps write job rows; the rest of the system leaves them alone.
LEMMA JobWriters ==
    ASSUME [Next]_vars
    PROVE  \/ UNCHANGED job
           \/ \E t \in Tasks, e \in Events : StartJob(t, e)
           \/ \E t \in Tasks : Publish(t) \/ RecordFailure(t)
<1>1. ASSUME NEW t \in Tasks, Request(t) PROVE UNCHANGED job
  BY <1>1 DEF Request, Ingest, Merge, Split, Reanalyze, Submit, results
<1>2. ASSUME NEW t \in Tasks, Advance(t),
             ~RecordFailure(t), \A e \in Events : ~StartJob(t, e)
      PROVE  UNCHANGED job
  BY <1>2 DEF Advance, Finish, ReuseReport, AnalyzeDeterministic, DeterministicRefusesEmpty,
              SkipDeadJob, Prepare, OutOfBudget, PrepareRefusesEmpty, LockTimeout, results
<1>3. ASSUME NEW t \in Tasks, Resume(t), ~Publish(t) PROVE UNCHANGED job
  BY <1>3 DEF Resume, ProviderFails, OverBudget, ContractFails, FailCall, Repair, Unreportable,
              Escapes, results
<1>4. ASSUME ThreadBegins \/ ThreadEnds \/ NewDay \/ Restart \/ UNCHANGED vars
      PROVE  UNCHANGED job
  BY <1>4 DEF ThreadBegins, ThreadEnds, NewDay, Restart, vars, results
<1>5. QED
  BY <1>1, <1>2, <1>3, <1>4 DEF Next

\* A dead job is revived by an explicit reanalysis of its event or never: no later
\* pull, merge, split, failure or publication changes it.
THEOREM DeadStaysDead == Spec => DeadNeedsOperator
<1> DEFINE Revived(e, h) == job[e][h] = "dead" /\ job'[e][h] # "dead"
           Operator(e) == \E t \in Tasks : kind[t] = "retry" /\ e \in todo[t]
<1>1. ASSUME IInv, [Next]_vars, NEW e \in Events, NEW h \in Hashes, Revived(e, h)
      PROVE  Operator(e)
  <2>1. job \in [Events -> [Hashes -> JobStatus]]
    BY <1>1 DEF IInv, TypeOK
  <2>2. CASE UNCHANGED job
    BY <1>1, <2>2
  <2>3. ASSUME NEW t \in Tasks, NEW d \in Events, StartJob(t, d) PROVE Operator(e)
    <3>1. job' = [job EXCEPT ![d] = [@ EXCEPT ![Hash(d)] = "running"]]
      BY <2>3 DEF StartJob
    <3>2. d = e /\ Hash(d) = h
      BY <1>1, <2>1, <3>1
    <3>3. kind[t] = "retry" /\ e \in todo[t]
      BY <1>1, <2>3, <3>2 DEF StartJob, Refused
    <3>4. QED
      BY <3>3
  <2>4. ASSUME NEW t \in Tasks, Publish(t) \/ RecordFailure(t) PROVE FALSE
    <3>1. job[work[t].event][work[t].hash] = "running"
      BY <1>1, <2>4 DEF IInv, InputInv, Publish, Returned, RecordFailure, Working
    <3>2. PICK status \in {"succeeded", work[t].verdict} :
            job' = [job EXCEPT ![work[t].event] = [@ EXCEPT ![work[t].hash] = status]]
      BY <2>4 DEF Publish, RecordFailure
    <3>3. QED
      BY <1>1, <2>1, <3>1, <3>2
  <2>5. QED
    BY <1>1, <2>2, <2>3, <2>4, JobWriters
<1>2. IInv /\ [Next]_vars => [\A e \in Events : \A h \in Hashes : Revived(e, h) => Operator(e)]_vars
  BY <1>1
<1>3. QED
  BY <1>2, Invariant, PTL DEF Spec, DeadNeedsOperator
-----------------------------------------------------------------------------
(***************************************************************************)
(* The report versions implement the ledger of ReportLedger                *)
(***************************************************************************)
\* Any evidence the articles can form is evidence of the ledger.
LEMMA EvidenceTyped ==
    ASSUME TypeOK'
    PROVE  [e \in Events |-> Hash(e)]' \in [Events -> Hashes]
<1>1. \A e \in Events : Content(e)' \in Contents
  BY BudgetAssumption DEF TypeOK, Content, Contents, Revisions
<1>2. QED
  BY <1>1 DEF TypeOK, Hash, Hashes

\* Two steps write report versions.
LEMMA ReportWriters ==
    ASSUME [Next]_vars
    PROVE  \/ UNCHANGED reports
           \/ \E t \in Tasks, e \in Events : AnalyzeDeterministic(t, e)
           \/ \E t \in Tasks : Publish(t)
<1>1. ASSUME NEW t \in Tasks, Request(t) PROVE UNCHANGED reports
  BY <1>1 DEF Request, Ingest, Merge, Split, Reanalyze, Submit, results
<1>2. ASSUME NEW t \in Tasks, Advance(t), \A e \in Events : ~AnalyzeDeterministic(t, e)
      PROVE  UNCHANGED reports
  BY <1>2 DEF Advance, Finish, ReuseReport, DeterministicRefusesEmpty, SkipDeadJob, StartJob,
              Prepare, OutOfBudget, PrepareRefusesEmpty, RecordFailure, LockTimeout, results
<1>3. ASSUME NEW t \in Tasks, Resume(t), ~Publish(t) PROVE UNCHANGED reports
  BY <1>3 DEF Resume, ProviderFails, OverBudget, ContractFails, FailCall, Repair, Unreportable,
              Escapes, results
<1>4. ASSUME ThreadBegins \/ ThreadEnds \/ NewDay \/ Restart \/ UNCHANGED vars
      PROVE  UNCHANGED reports
  BY <1>4 DEF ThreadBegins, ThreadEnds, NewDay, Restart, vars, results
<1>5. QED
  BY <1>1, <1>2, <1>3, <1>4 DEF Next

\* Every step is a publication of present evidence or leaves the ledger alone.
THEOREM LedgerImplemented == Spec => ImplementsLedger
<1>1. Init => Ledger!Init
  <2> SUFFICES ASSUME Init PROVE Ledger!Init
    OBVIOUS
  <2>1. TypeOK
    BY InitInv DEF IInv
  <2>2. QED
    BY <2>1, HashTyped DEF Init, Ledger!Init
<1>2. ASSUME IInv, IInv', [Next]_vars
      PROVE  [Ledger!Next]_Ledger!vars
  <2>1. CASE UNCHANGED reports
    BY <1>2, <2>1, EvidenceTyped DEF IInv, Ledger!Next, Ledger!ChangeEvidence
  <2>2. ASSUME NEW e \in Events, NEW h \in Hashes, h = Hash(e), h \notin Reported(e),
               reports' = [reports EXCEPT ![e] = WithReport(e, h)],
               UNCHANGED <<environment, clusters>>
        PROVE  Ledger!Next
    <3>1. reports' = [reports EXCEPT ![e] = Append(@, h)]
      BY <1>2, <2>2, PublishAppends DEF IInv
    <3>2. h \notin Ledger!ReportedIn(reports[e])
      BY <2>2 DEF Reported, Ledger!ReportedIn
    <3>3. UNCHANGED [d \in Events |-> Hash(d)]
      BY <2>2, HashKept
    <3>4. Ledger!Publish(e)
      BY <2>2, <3>1, <3>2, <3>3 DEF Ledger!Publish
    <3>5. QED
      BY <3>4 DEF Ledger!Next
  <2>3. ASSUME NEW t \in Tasks, NEW e \in Events, AnalyzeDeterministic(t, e) PROVE Ledger!Next
    <3>1. Hash(e) \in Hashes /\ Hash(e) \notin Reported(e)
      BY <1>2, <2>3, HashTyped DEF IInv, AnalyzeDeterministic, Analysed
    <3>2. QED
      BY <2>2, <2>3, <3>1 DEF AnalyzeDeterministic
  <2>4. ASSUME NEW t \in Tasks, Publish(t) PROVE Ledger!Next
    <3>1. /\ work[t].event \in Events /\ work[t].hash \in Hashes
          /\ work[t].hash = Hash(work[t].event)
          /\ work[t].hash \notin Reported(work[t].event)
      BY <1>2, <2>4 DEF IInv, InputInv, Publish, Returned, WorkItem, Working
    <3>2. QED
      BY <2>2, <2>4, <3>1 DEF Publish
  <2>5. QED
    BY <1>2, <2>1, <2>3, <2>4, ReportWriters
<1>3. QED
  BY <1>1, <1>2, Invariant, PTL DEF Spec, ImplementsLedger, Ledger!Spec
=============================================================================
