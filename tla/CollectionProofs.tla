-------------------------- MODULE CollectionProofs --------------------------
(***************************************************************************)
(* Proofs about Collection, for any sources, pulls, requests and tests.    *)
(***************************************************************************)
EXTENDS Collection, SequenceTheorems, FiniteSetTheorems, TLAPS

(***************************************************************************)
(* The invariant                                                           *)
(***************************************************************************)
Running == {"primary", "fallback", "enriching"} \* its SourceRun row is open
Resting == {"idle", "waiting", "exited"}        \* it has no session
Holding == {"next", "analysing", "mailing"} \cup Running

\* Where a process is says what it holds: a pull the lock, its session its sources.
PlaceInv ==
    /\ \A p \in Pulls : pc[p] \in Holding <=> owner = p
    /\ \A t \in Testers : pc[t] \in {"idle", "primary", "fallback"} /\ rest[t] = {}
    /\ \A p \in Processes :
        /\ pc[p] \in Resting => rest[p] = {} /\ seen[p] = [s \in Sources |-> Expired]
        /\ pc[p] \in Running \cup {"analysing"} <=> at[p] # NoSource
        /\ at[p] # NoSource <=> run[p] # 0
        /\ at[p] # NoSource => seen[p][at[p]] # Expired

\* The row a process has open is of its source, and of no other process.
RowInv ==
    /\ \A p \in Processes : run[p] # 0 =>
        /\ run[p] \in DOMAIN runs
        /\ runs[run[p]].source = at[p]
        /\ runs[run[p]].status = IF pc[p] = "analysing" THEN "succeeded" ELSE "running"
    /\ \A p, q \in Processes : run[p] # 0 /\ run[p] = run[q] => p = q

\* The rows nobody works on any more.
Lost == {i \in DOMAIN runs :
            /\ runs[i].status \in {"running", "stuck"}
            /\ \A p \in Processes : run[p] # i}
LossInv == Cardinality(Lost) = losses

\* A source that is not contended has one process that has it loaded, ...
SoleInv ==
    \A s \in Sources \ contended :
        \A p, q \in Processes : Loaded(p, s) /\ Loaded(q, s) => p = q

\* ... which has its count of failures as it is stored, and works on its last row.
FreshInv ==
    \A s \in Sources \ contended : \A p \in Processes :
        /\ Loaded(p, s) => seen[p][s] \in {Expired, failures[s]}
        /\ at[p] = s => \A i \in DOMAIN runs : runs[i].source = s => i <= run[p]

\* Its health is of its last run at any time.
HealthInv == \A s \in Sources \ contended : failures[s] = 0 <=> LastSucceeded(s)

CInv == TypeOK /\ PlaceInv /\ RowInv /\ LossInv /\ SoleInv /\ FreshInv /\ HealthInv
-----------------------------------------------------------------------------
(***************************************************************************)
(* The rows of the runs                                                    *)
(***************************************************************************)
Results == {"succeeded", "retry_wait", "dead"}
Statuses == Results \cup {"running", "stuck"}

\* The rows are numbered from 1.
LEMMA Rows ==
    ASSUME TypeOK
    PROVE  /\ Len(runs) \in Nat
           /\ DOMAIN runs = 1 .. Len(runs)
           /\ \A i \in DOMAIN runs : runs[i] \in RunRow
BY LenProperties, ElementOfSeq DEF TypeOK

\* A new row is open, and the others stay.
Opened(s) ==
    /\ runs' \in Seq(RunRow)
    /\ DOMAIN runs' = (DOMAIN runs) \cup {Len(runs) + 1}
    /\ \A i \in DOMAIN runs : runs'[i] = runs[i]
    /\ \A i \in DOMAIN runs : i <= Len(runs) + 1 /\ i # Len(runs) + 1
    /\ runs'[Len(runs) + 1].source = s
    /\ runs'[Len(runs) + 1].status = "running"

\* Appending an open run does that.
LEMMA RowOpened ==
    ASSUME TypeOK, NEW s \in Sources, runs' = Append(runs, [source |-> s, status |-> "running"])
    PROVE  Opened(s)
<1> DEFINE row == [source |-> s, status |-> "running"]
<1>1. row \in RunRow
  BY DEF RunRow
<1>2. /\ Append(runs, row) \in Seq(RunRow)
      /\ Len(Append(runs, row)) = Len(runs) + 1
      /\ \A i \in 1 .. Len(runs) : Append(runs, row)[i] = runs[i]
      /\ Append(runs, row)[Len(runs) + 1] = row
  BY <1>1, AppendProperties DEF TypeOK
<1>3. DOMAIN runs' = 1 .. (Len(runs) + 1)
  BY <1>2, LenProperties
<1>4. row.source = s /\ row.status = "running"
  OBVIOUS
<1> HIDE DEF row
<1> QED BY <1>2, <1>3, <1>4, Rows DEF row, Opened

\* A row gets a status, and the others stay.
Closed(i, status) ==
    /\ runs' \in Seq(RunRow)
    /\ DOMAIN runs' = DOMAIN runs
    /\ \A j \in DOMAIN runs : j # i => runs'[j] = runs[j]
    /\ \A j \in DOMAIN runs : runs'[j].source = runs[j].source
    /\ runs'[i].status = status

\* Writing the status of a run does that.
LEMMA RowClosed ==
    ASSUME TypeOK, NEW i \in DOMAIN runs, NEW status \in Statuses,
           runs' = [runs EXCEPT ![i].status = status]
    PROVE  Closed(i, status)
<1> DEFINE row == [runs[i] EXCEPT !.status = status]
<1>1. runs[i] \in RunRow /\ i \in 1 .. Len(runs)
  BY Rows
<1>2. row \in RunRow /\ row.source = runs[i].source /\ row.status = status
  BY <1>1 DEF RunRow, Statuses, Results
<1>3. runs' = [runs EXCEPT ![i] = row]
  OBVIOUS
<1> HIDE DEF row
<1>4. /\ runs' \in Seq(RunRow)
      /\ Len(runs') = Len(runs)
      /\ \A j \in 1 .. Len(runs) : runs'[j] = IF j = i THEN row ELSE runs[j]
  <2>1. runs \in Seq(RunRow)
    BY DEF TypeOK
  <2>2. /\ [runs EXCEPT ![i] = row] \in Seq(RunRow)
        /\ Len([runs EXCEPT ![i] = row]) = Len(runs)
        /\ \A j \in 1 .. Len(runs) : [runs EXCEPT ![i] = row][j] = IF j = i THEN row ELSE runs[j]
    BY <1>1, <1>2, <2>1, ExceptSeq
  <2> QED BY <1>3, <2>2
<1>5. DOMAIN runs' = 1 .. Len(runs)
  BY <1>4, LenProperties
<1> QED BY <1>1, <1>2, <1>4, <1>5, Rows DEF Closed

-----------------------------------------------------------------------------
(***************************************************************************)
(* The kinds of steps                                                      *)
(***************************************************************************)
\* Process p works on source s with a row of its own.
Opens(p, s) ==
    /\ Opened(s)
    /\ run' = [run EXCEPT ![p] = Len(runs) + 1]
    /\ at' = [at EXCEPT ![p] = s]
    /\ seen' = [seen EXCEPT ![p][s] = Read(p, s)]
    /\ pc' = [pc EXCEPT ![p] = "primary"]
    /\ UNCHANGED <<enabled, failures, owner, queue, stopping, edits, losses>>

Begins(p, s) ==
    /\ pc[p] = "next" /\ s \in rest[p]
    /\ Opens(p, s)
    /\ rest' = [rest EXCEPT ![p] = @ \ {s}]
    /\ UNCHANGED <<asks, contended>>

BeginsTest(t, s) ==
    /\ pc[t] = "idle" /\ asks < MaxAsks /\ asks' = asks + 1
    /\ Opens(t, s)
    /\ contended \subseteq contended' /\ contended' \subseteq Sources
    /\ (\E p \in Processes : Loaded(p, s)) => s \in contended'
    /\ UNCHANGED rest

\* Process p closes its row with a status and a count.
Closes(p, status, count) ==
    /\ pc[p] \in Running \cup {"analysing"}
    /\ Closed(run[p], status)
    /\ failures' = [failures EXCEPT ![at[p]] = count]
    /\ UNCHANGED <<enabled, queue, stopping, history>>

PullFailed(p, status) ==
    /\ Closes(p, status, failures[at[p]] + 1)
    /\ pc' = [pc EXCEPT ![p] = "next"]
    /\ at' = [at EXCEPT ![p] = NoSource]
    /\ run' = [run EXCEPT ![p] = 0]
    /\ seen' = [seen EXCEPT ![p] = [s \in Sources |-> Expired]]
    /\ UNCHANGED <<owner, rest>>

TestEnded(t, status, count) ==
    /\ Closes(t, status, count)
    /\ pc[t] # "analysing"
    /\ Leave(t)
    /\ \/ status # "succeeded" /\ count = seen[t][at[t]] + 1
       \/ status = "succeeded" /\ count = Cleared(t, at[t])

Stored(p) ==
    /\ pc[p] = "enriching"
    /\ Closes(p, "succeeded", Cleared(p, at[p]))
    /\ seen' = [seen EXCEPT ![p][at[p]] = 0]
    /\ pc' = [pc EXCEPT ![p] = "analysing"]
    /\ UNCHANGED <<owner, rest, at, run>>

\* Process p goes on, where nothing else depends on it.
GoesOn(p) ==
    /\ pc[p] \in Running
    /\ \E q \in Running : (q = "enriching" => p \in Pulls) /\ pc' = [pc EXCEPT ![p] = q]
    /\ UNCHANGED <<database, owner, queue, stopping, rest, at, run, seen, history>>

Mails ==
    /\ pc[Scheduler] = "next"
    /\ pc' = [pc EXCEPT ![Scheduler] = "mailing"]
    /\ UNCHANGED <<database, owner, queue, stopping, rest, at, run, seen, history>>

Ends(p) ==
    /\ pc[p] \in {"next", "mailing"}
    /\ Leave(p)
    /\ UNCHANGED <<database, queue, stopping, history>>

\* An exception that no handler takes ends process p.
Sticks(p) ==
    /\ pc[p] \in Running
    /\ Closed(run[p], "stuck")
    /\ losses < MaxLosses /\ losses' = losses + 1
    /\ Leave(p)
    /\ UNCHANGED <<enabled, failures, queue, stopping, asks, edits, contended>>

Kinds ==
    \/ \E p \in Pulls : Queue(p) \/ Enter(p) \/ Stored(p) \/ Ends(p)
    \/ \E p \in Pulls, s \in Sources : Begins(p, s)
    \/ \E p \in Pulls, status \in {"retry_wait", "dead"} : PullFailed(p, status)
    \/ \E t \in Testers, s \in Sources : BeginsTest(t, s)
    \/ \E t \in Testers, status \in Results :
          \E count \in Nat : TestEnded(t, status, count)
    \/ \E p \in Processes : GoesOn(p) \/ Analysed(p) \/ Locked(p) \/ Sticks(p)
    \/ Mails
    \/ \E s \in Sources : Edit(s)
    \/ Stop \/ Exit \/ Restart \/ UNCHANGED vars

\* Who works on a source has its row open; so every row that is closed is one.
LEMMA AtWork ==
    ASSUME TypeOK, PlaceInv, RowInv, NEW p \in Processes, pc[p] \in Running \cup {"analysing"}
    PROVE  /\ at[p] \in Sources /\ run[p] \in DOMAIN runs
           /\ failures[at[p]] + 1 \in Nat
           /\ Cleared(p, at[p]) \in Nat
BY DEF TypeOK, PlaceInv, RowInv, Cleared

\* A pull that fails closes its run, counts the failure and goes on or ends.
LEMMA PullFailsAs ==
    ASSUME TypeOK, PlaceInv, RowInv, NEW p \in Processes, pc[p] \in Running \cup {"analysing"},
           NEW status \in {"retry_wait", "dead"}, PullFails(p, status)
    PROVE  p \in Pulls /\ PullFailed(p, status)
<1>1. Closed(run[p], status)
  BY AtWork, RowClosed DEF PullFails, Recorded, Statuses, Results
<1> QED BY <1>1 DEF PullFails, Recorded, PullFailed, Closes

\* A test that fails closes its run with the count it loaded plus one.
LEMMA TestFailsAs ==
    ASSUME TypeOK, PlaceInv, RowInv, NEW t \in Processes, pc[t] \in Running,
           NEW status \in {"retry_wait", "dead"}, TestFails(t, status)
    PROVE  t \in Testers /\ TestEnded(t, status, seen[t][at[t]] + 1)
<1>1. Closed(run[t], status)
  BY AtWork, RowClosed DEF TestFails, Recorded, Statuses, Results
<1> QED BY <1>1 DEF TestFails, Recorded, TestEnded, Closes, Running

\* Every step is of one of these kinds.
LEMMA Kind ==
    ASSUME TypeOK, PlaceInv, RowInv, [Next]_vars
    PROVE  Kinds
<1>1. ASSUME NEW p \in Processes, Work(p)
      PROVE  Kinds
  <2>0. (p \in Pulls \/ p \in Testers) /\ (p \in Testers => p \notin Pulls)
    BY CollectionNames DEF Processes
  <2> USE <2>0
  <2>p. ASSUME NEW status \in {"retry_wait", "dead"}, PullFails(p, status),
               pc[p] \in Running \cup {"analysing"}
        PROVE  Kinds
    BY <2>p, PullFailsAs DEF Kinds
  <2>t. ASSUME NEW status \in {"retry_wait", "dead"}, TestFails(p, status), pc[p] \in Running
        PROVE  Kinds
    <3>1. p \in Testers /\ TestEnded(p, status, seen[p][at[p]] + 1)
      BY <2>t, TestFailsAs
    <3>2. seen[p][at[p]] + 1 \in Nat
      BY <2>t DEF PlaceInv, TypeOK
    <3>3. status \in Results
      BY DEF Statuses, Results
    <3> QED BY <3>1, <3>2, <3>3 DEF Kinds
  <2>1. CASE Begin(p)
    <3>1. PICK s \in rest[p] : OpenRun(p, s) /\ rest' = [rest EXCEPT ![p] = @ \ {s}]
      BY <2>1 DEF Begin
    <3>2. pc[p] = "next" /\ s \in Sources /\ p \in Pulls
      BY <2>1, <3>1 DEF Begin, TypeOK, PlaceInv
    <3>3. Opens(p, s)
      BY <3>1, <3>2, RowOpened DEF OpenRun, Opens
    <3>4. Begins(p, s)
      BY <2>1, <3>1, <3>2, <3>3 DEF Begin, Begins
    <3> QED BY <3>2, <3>4 DEF Kinds
  <2>2. CASE FallBack(p)
    <3>1. GoesOn(p)
      BY <2>2 DEF FallBack, GoesOn, Running
    <3> QED BY <3>1 DEF Kinds
  <2>3. CASE FetchFails(p)
    <3>1. pc[p] \in Running /\ Fails(p, "retry_wait")
      BY <2>3 DEF FetchFails, Running
    <3> QED BY <3>1, <2>p, <2>t DEF Fails
  <2>4. CASE Unsafe(p)
    <3>1. pc[p] \in Running /\ Fails(p, "dead")
      BY <2>4 DEF Unsafe, Running
    <3> QED BY <3>1, <2>p, <2>t DEF Fails
  <2>5. CASE Fetched(p)
    <3>1. GoesOn(p)
      BY <2>5 DEF Fetched, GoesOn, Running
    <3> QED BY <3>1 DEF Kinds
  <2>6. CASE TestPasses(p)
    <3>1. p \in Testers /\ pc[p] \in Running
      BY <2>6 DEF TestPasses, Running
    <3>2. Closed(run[p], "succeeded")
      BY <2>6, <3>1, AtWork, RowClosed DEF TestPasses, Recorded, Statuses, Results
    <3>3. TestEnded(p, "succeeded", Cleared(p, at[p]))
      BY <2>6, <3>1, <3>2 DEF TestPasses, Recorded, TestEnded, Closes, Running
    <3>4. Cleared(p, at[p]) \in Nat /\ "succeeded" \in Results
      BY <3>1, AtWork DEF Statuses, Results
    <3> QED BY <3>1, <3>3, <3>4 DEF Kinds
  <2>7. CASE Store(p)
    <3>1. pc[p] \in Running /\ pc[p] = "enriching" /\ p \in Pulls
      BY <2>7 DEF Store, Running, PlaceInv
    <3>2. Closed(run[p], "succeeded")
      BY <2>7, <3>1, AtWork, RowClosed DEF Store, Recorded, Statuses, Results
    <3>3. Stored(p)
      BY <2>7, <3>1, <3>2 DEF Store, Recorded, Stored, Closes
    <3> QED BY <3>1, <3>3 DEF Kinds
  <2>8. CASE BadEntry(p)
    BY <2>8, <2>p DEF BadEntry, Running
  <2>9. CASE Analysed(p)
    BY <2>9 DEF Kinds
  <2>10. CASE AnalysisRaises(p)
    BY <2>10, <2>p DEF AnalysisRaises
  <2>11. CASE Finish(p)
    <3>1. p \in Pulls
      BY <2>11 DEF Finish, PlaceInv
    <3>2. CASE p = Scheduler
      <4>1. Mails
        BY <2>11, <3>2 DEF Finish, Mails
      <4> QED BY <4>1 DEF Kinds
    <3>3. CASE p # Scheduler
      <4>1. Ends(p)
        BY <2>11, <3>3 DEF Finish, Ends
      <4> QED BY <3>1, <4>1 DEF Kinds
    <3> QED BY <3>2, <3>3
  <2>12. CASE p = Scheduler /\ Mailed
    <3>1. Ends(p) /\ p \in Pulls
      BY <2>12 DEF Mailed, Ends, Pulls
    <3> QED BY <3>1 DEF Kinds
  <2>13. CASE Locked(p)
    BY <2>13 DEF Kinds
  <2>14. CASE Escapes(p)
    <3>1. /\ losses < MaxLosses /\ Leave(p)
          /\ UNCHANGED <<enabled, failures, queue, stopping, asks, edits, contended>>
          /\ pc[p] \in Running \cup {"analysing"}
      BY <2>14 DEF Escapes, Running
    <3>2. run[p] \in DOMAIN runs /\ run[p] # 0
      BY <3>1, AtWork, Rows
    <3>3. CASE runs[run[p]].status = "running"
      <4>1. pc[p] \in Running
        BY <3>1, <3>2, <3>3 DEF RowInv
      <4>2. runs' = [runs EXCEPT ![run[p]].status = "stuck"] /\ losses' = losses + 1
        BY <2>14, <3>3 DEF Escapes
      <4>3. Closed(run[p], "stuck")
        BY <3>2, <4>2, RowClosed DEF Statuses
      <4>4. Sticks(p)
        BY <3>1, <4>1, <4>2, <4>3 DEF Sticks
      <4> QED BY <4>4 DEF Kinds
    <3>4. CASE runs[run[p]].status # "running"
      <4>1. UNCHANGED <<runs, losses>>
        BY <2>14, <3>4 DEF Escapes
      <4>2. pc[p] \notin {"idle", "waiting", "exited"}
        BY <3>1 DEF Running
      <4>3. Locked(p)
        BY <3>1, <3>4, <4>1, <4>2 DEF Locked, database
      <4> QED BY <4>3 DEF Kinds
    <3> QED BY <3>3, <3>4
  <2> QED BY <1>1, <2>1, <2>2, <2>3, <2>4, <2>5, <2>6, <2>7, <2>8, <2>9, <2>10, <2>11, <2>12,
             <2>13, <2>14 DEF Work
<1>2. ASSUME NEW t \in Testers, BeginTest(t)
      PROVE  Kinds
  <2>1. PICK s \in Sources :
          /\ OpenRun(t, s)
          /\ contended' = contended \cup
                (IF \E p \in Processes : Loaded(p, s) THEN {s} ELSE {})
    BY <1>2 DEF BeginTest
  <2>2. Opens(t, s)
    BY <2>1, RowOpened DEF OpenRun, Opens
  <2>3. contended \subseteq Sources
    BY DEF TypeOK
  <2>4. BeginsTest(t, s)
    BY <1>2, <2>1, <2>2, <2>3 DEF BeginTest, BeginsTest
  <2> QED BY <2>4 DEF Kinds
<1> QED BY <1>1, <1>2 DEF Next, Kinds

-----------------------------------------------------------------------------
(***************************************************************************)
(* Steps                                                                   *)
(***************************************************************************)

\* The rows that are open, by their processes.
LEMMA OpenRows ==
    ASSUME TypeOK, RowInv
    PROVE  LET rows == {run[p] : p \in OpenRuns}
           IN  /\ IsFiniteSet(DOMAIN runs)
               /\ IsFiniteSet(rows) /\ rows \subseteq DOMAIN runs
               /\ IsFiniteSet(OpenRuns)
               /\ Cardinality(OpenRuns) = Cardinality(rows)
               /\ Cardinality(OpenRuns) \in Nat
<1> DEFINE rows == {run[p] : p \in OpenRuns}
           f == [p \in OpenRuns |-> run[p]]
<1>1. IsFiniteSet(DOMAIN runs)
  BY Rows, FS_Interval
<1>2. rows \subseteq DOMAIN runs
  BY DEF OpenRuns, RowInv
<1>3. IsFiniteSet(rows)
  BY <1>1, <1>2, FS_Subset
<1>4. f \in Injection(OpenRuns, rows)
  BY DEF Injection, IsInjective, OpenRuns, RowInv
<1>5. f \in Surjection(OpenRuns, rows)
  BY DEF Surjection
<1> HIDE DEF rows, f
<1>6. IsFiniteSet(OpenRuns) /\ Cardinality(OpenRuns) = Cardinality(rows)
  BY <1>3, <1>4, <1>5, FS_Injection
<1>7. Cardinality(OpenRuns) \in Nat
  BY <1>6, FS_CardinalityType
<1> QED BY <1>1, <1>2, <1>3, <1>6, <1>7 DEF rows

\* A process that takes up a source counts on from a number.
LEMMA CountIsRead ==
    ASSUME TypeOK, NEW p \in Processes, NEW s \in Sources, seen' = [seen EXCEPT ![p][s] = Read(p,
       s)]
    PROVE  /\ Read(p, s) \in Nat
           /\ seen' \in [Processes -> [Sources -> Nat \cup {Expired}]]
           /\ \A q \in Processes \ {p} : seen'[q] = seen[q]
           /\ \A r \in Sources \ {s} : seen'[p][r] = seen[p][r]
           /\ seen'[p][s] = Read(p, s)
<1>1. Read(p, s) \in Nat
  BY DEF TypeOK, Read
<1> QED BY <1>1 DEF TypeOK

\* A step within a fetch changes nothing but that.
LEMMA GoesOnAs ==
    ASSUME TypeOK, NEW p \in Processes, GoesOn(p)
    PROVE  /\ pc' \in [Processes -> {"idle", "waiting", "next", "primary", "fallback", "enriching",
                                     "analysing", "mailing", "exited"}]
           /\ pc[p] \in Running /\ pc'[p] \in Running
           /\ pc'[p] = "enriching" => p \in Pulls
           /\ \A r \in Processes \ {p} : pc'[r] = pc[r]
<1>1. PICK q \in Running : (q = "enriching" => p \in Pulls) /\ pc' = [pc EXCEPT ![p] = q]
  BY DEF GoesOn
<1>2. pc[p] \in Running
  BY DEF GoesOn
<1> QED BY <1>1, <1>2 DEF TypeOK, Running

\* The loaded sources are enabled ones.
LEMMA Loads ==
    ASSUME TypeOK, NEW p \in Pulls, Enter(p)
    PROVE  \E S \in SUBSET Sources :
              /\ rest' = [rest EXCEPT ![p] = S]
              /\ contended' = contended \cup {s \in S : \E t \in Testers : at[t] = s}
<1>1. PICK S \in Chosen(p) :
              /\ rest' = [rest EXCEPT ![p] = S]
              /\ contended' = contended \cup {s \in S : \E t \in Testers : at[t] = s}
  BY DEF Enter
<1>2. S \in SUBSET Sources
  BY DEF Chosen
<1> QED BY <1>1, <1>2


\* Every variable keeps its type.
LEMMA TypeStep ==
    ASSUME TypeOK, PlaceInv, RowInv, Kinds
    PROVE  TypeOK'
<1> USE CollectionNames, CollectionBounds
<1> USE DEF TypeOK, Processes, Pulls, database, process, history
<1>1. ASSUME NEW p \in Pulls, Queue(p)
      PROVE  TypeOK'
  BY <1>1, AtWork, Rows, AppendProperties, HeadTailProperties DEF Queue
<1>2. ASSUME NEW p \in Pulls, Enter(p)
      PROVE  TypeOK'
  <2>1. PICK S \in SUBSET Sources :
              /\ rest' = [rest EXCEPT ![p] = S]
              /\ contended' = contended \cup {s \in S : \E t \in Testers : at[t] = s}
    BY <1>2, Loads
  <2>2. /\ owner = Nobody /\ owner' = p
        /\ pc' = [pc EXCEPT ![p] = "next"]
        /\ queue # <<>> /\ queue' = Tail(queue)
        /\ seen' = [seen EXCEPT ![p] = failures]
        /\ UNCHANGED <<database, stopping, at, run, asks, edits, losses>>
    BY <1>2 DEF Enter
  <2> QED BY <2>1, <2>2, HeadTailProperties
<1>3. ASSUME NEW p \in Pulls, Stored(p)
      PROVE  TypeOK'
  BY <1>3, AtWork, Rows, AppendProperties, HeadTailProperties DEF Stored, Closes, Closed
<1>4. ASSUME NEW p \in Pulls, Ends(p)
      PROVE  TypeOK'
  BY <1>4, AtWork, Rows, AppendProperties, HeadTailProperties DEF Ends, Leave
<1>5. ASSUME NEW p \in Pulls, NEW s \in Sources, Begins(p, s)
      PROVE  TypeOK'
  <2>1. /\ Opened(s)
        /\ run' = [run EXCEPT ![p] = Len(runs) + 1]
        /\ at' = [at EXCEPT ![p] = s]
        /\ pc[p] = "next" /\ pc' = [pc EXCEPT ![p] = "primary"]
        /\ s \in rest[p] /\ rest' = [rest EXCEPT ![p] = @ \ {s}]
        /\ UNCHANGED <<enabled, failures, owner, queue, stopping, asks, contended, edits, losses>>
    BY <1>5 DEF Begins, Opens
  <2>2. seen' = [seen EXCEPT ![p][s] = Read(p, s)]
    BY <1>5 DEF Begins, Opens
  <2>3. /\ Read(p, s) \in Nat
        /\ seen' \in [Processes -> [Sources -> Nat \cup {Expired}]]
        /\ \A q \in Processes \ {p} : seen'[q] = seen[q]
        /\ \A r \in Sources \ {s} : seen'[p][r] = seen[p][r]
        /\ seen'[p][s] = Read(p, s)
    BY <2>2, CountIsRead
  <2> QED BY SMTT(20), <2>1, <2>3, Rows DEF Opened
<1>6. ASSUME NEW p \in Pulls, NEW status \in {"retry_wait", "dead"}, PullFailed(p, status)
      PROVE  TypeOK'
  BY <1>6, AtWork, Rows, AppendProperties, HeadTailProperties DEF PullFailed, Closes, Closed
<1>7. ASSUME NEW p \in Testers, NEW s \in Sources, BeginsTest(p, s)
      PROVE  TypeOK'
  <2>1. /\ Opened(s)
        /\ run' = [run EXCEPT ![p] = Len(runs) + 1]
        /\ at' = [at EXCEPT ![p] = s]
        /\ pc[p] = "idle" /\ pc' = [pc EXCEPT ![p] = "primary"]
        /\ asks < MaxAsks /\ asks' = asks + 1
        /\ contended \subseteq contended' /\ contended' \subseteq Sources
        /\ (\E q \in Processes : Loaded(q, s)) => s \in contended'
        /\ UNCHANGED <<enabled, failures, owner, queue, stopping, edits, losses, rest>>
    BY <1>7 DEF BeginsTest, Opens
  <2>2. seen' = [seen EXCEPT ![p][s] = Read(p, s)]
    BY <1>7 DEF BeginsTest, Opens
  <2>3. /\ Read(p, s) \in Nat
        /\ seen' \in [Processes -> [Sources -> Nat \cup {Expired}]]
        /\ \A q \in Processes \ {p} : seen'[q] = seen[q]
        /\ \A r \in Sources \ {s} : seen'[p][r] = seen[p][r]
        /\ seen'[p][s] = Read(p, s)
    BY <2>2, CountIsRead
  <2> QED BY <2>1, <2>3, Rows DEF Opened
<1>8. ASSUME NEW p \in Testers, NEW status \in Results, NEW count \in Nat,
             TestEnded(p, status, count)
      PROVE  TypeOK'
  BY <1>8, AtWork, Rows, AppendProperties, HeadTailProperties DEF TestEnded, Leave, Closes, Closed
<1>9. ASSUME NEW p \in Processes, GoesOn(p)
      PROVE  TypeOK'
  <2>1. /\ pc' \in [Processes -> {"idle", "waiting", "next", "primary", "fallback", "enriching",
                            "analysing", "mailing", "exited"}]
        /\ pc[p] \in Running /\ pc'[p] \in Running
        /\ pc'[p] = "enriching" => p \in Pulls
        /\ \A r \in Processes \ {p} : pc'[r] = pc[r]
    BY <1>9, GoesOnAs
  <2>2. UNCHANGED <<database, owner, queue, stopping, rest, at, run, seen, history>>
    BY <1>9 DEF GoesOn
  <2> QED BY <2>1, <2>2
<1>10. ASSUME NEW p \in Processes, Analysed(p)
      PROVE  TypeOK'
  BY <1>10, AtWork, Rows, AppendProperties, HeadTailProperties DEF Analysed
<1>11. ASSUME NEW p \in Processes, Locked(p)
      PROVE  TypeOK'
  BY <1>11, AtWork, Rows, AppendProperties, HeadTailProperties DEF Locked, Leave
<1>18. ASSUME NEW p \in Processes, Sticks(p)
      PROVE  TypeOK'
  BY <1>18, AtWork, Rows DEF Sticks, Leave, Closed
<1>12. CASE Mails
  BY <1>12, AtWork, Rows, AppendProperties, HeadTailProperties DEF Mails
<1>13. ASSUME NEW s \in Sources, Edit(s)
      PROVE  TypeOK'
  BY <1>13, AtWork, Rows, AppendProperties, HeadTailProperties DEF Edit
<1>14. CASE Stop
  BY <1>14, AtWork, Rows, AppendProperties, HeadTailProperties DEF Stop
<1>15. CASE Exit
  BY <1>15, AtWork, Rows, AppendProperties, HeadTailProperties DEF Exit
<1>16. CASE Restart
  <2>1. Cardinality(OpenRuns) \in Nat
    BY OpenRows
  <2>2. losses' \in 0 .. MaxLosses
    BY <1>16, <2>1 DEF Restart
  <2>3. enabled' \in [Sources -> BOOLEAN]
    BY <1>16 DEF Restart
  <2>4. stopping' \in BOOLEAN
    BY <1>16 DEF Restart
  <2>5. /\ seen' \in [Processes -> [Sources -> Nat \cup {Expired}]]
        /\ queue' \in Seq(Pulls)
    BY <1>16 DEF Restart
  <2> QED BY <1>16, <2>2, <2>3, <2>4, <2>5 DEF Restart
<1>17. CASE UNCHANGED vars
  BY <1>17, AtWork, Rows, AppendProperties, HeadTailProperties DEF vars
<1> HIDE DEF TypeOK, Processes, Pulls, database, process, history
<1> QED BY <1>1, <1>2, <1>3, <1>4, <1>5, <1>6, <1>7, <1>8, <1>9, <1>10, <1>11, <1>12, <1>13,
    <1>14, <1>15, <1>16, <1>17, <1>18 DEF Kinds

\* The place of a process says what it holds.
LEMMA PlaceStep ==
    ASSUME TypeOK, PlaceInv, RowInv, Kinds
    PROVE  PlaceInv'
<1> USE CollectionNames, CollectionBounds
<1> USE DEF TypeOK, PlaceInv, Processes, Pulls, Running, Resting, Holding, database, process,
    history
<1>1. ASSUME NEW p \in Pulls, Queue(p)
      PROVE  PlaceInv'
  BY <1>1 DEF Queue
<1>2. ASSUME NEW p \in Pulls, Enter(p)
      PROVE  PlaceInv'
  <2>1. PICK S \in SUBSET Sources :
              /\ rest' = [rest EXCEPT ![p] = S]
              /\ contended' = contended \cup {s \in S : \E t \in Testers : at[t] = s}
    BY <1>2, Loads
  <2>2. /\ owner = Nobody /\ owner' = p
        /\ pc' = [pc EXCEPT ![p] = "next"]
        /\ queue # <<>> /\ queue' = Tail(queue)
        /\ seen' = [seen EXCEPT ![p] = failures]
        /\ UNCHANGED <<database, stopping, at, run, asks, edits, losses>>
    BY <1>2 DEF Enter
  <2> QED BY <2>1, <2>2
<1>3. ASSUME NEW p \in Pulls, Stored(p)
      PROVE  PlaceInv'
  BY <1>3 DEF Stored, Closes, Closed
<1>4. ASSUME NEW p \in Pulls, Ends(p)
      PROVE  PlaceInv'
  BY <1>4 DEF Ends, Leave
<1>5. ASSUME NEW p \in Pulls, NEW s \in Sources, Begins(p, s)
      PROVE  PlaceInv'
  <2>1. /\ Opened(s)
        /\ run' = [run EXCEPT ![p] = Len(runs) + 1]
        /\ at' = [at EXCEPT ![p] = s]
        /\ pc[p] = "next" /\ pc' = [pc EXCEPT ![p] = "primary"]
        /\ s \in rest[p] /\ rest' = [rest EXCEPT ![p] = @ \ {s}]
        /\ UNCHANGED <<enabled, failures, owner, queue, stopping, asks, contended, edits, losses>>
    BY <1>5 DEF Begins, Opens
  <2>2. seen' = [seen EXCEPT ![p][s] = Read(p, s)]
    BY <1>5 DEF Begins, Opens
  <2>3. /\ Read(p, s) \in Nat
        /\ seen' \in [Processes -> [Sources -> Nat \cup {Expired}]]
        /\ \A q \in Processes \ {p} : seen'[q] = seen[q]
        /\ \A r \in Sources \ {s} : seen'[p][r] = seen[p][r]
        /\ seen'[p][s] = Read(p, s)
    BY <2>2, CountIsRead
  <2> QED BY <2>1, <2>3
<1>6. ASSUME NEW p \in Pulls, NEW status \in {"retry_wait", "dead"}, PullFailed(p, status)
      PROVE  PlaceInv'
  BY <1>6 DEF PullFailed, Closes, Closed
<1>7. ASSUME NEW p \in Testers, NEW s \in Sources, BeginsTest(p, s)
      PROVE  PlaceInv'
  <2>1. /\ Opened(s)
        /\ run' = [run EXCEPT ![p] = Len(runs) + 1]
        /\ at' = [at EXCEPT ![p] = s]
        /\ pc[p] = "idle" /\ pc' = [pc EXCEPT ![p] = "primary"]
        /\ asks < MaxAsks /\ asks' = asks + 1
        /\ contended \subseteq contended' /\ contended' \subseteq Sources
        /\ (\E q \in Processes : Loaded(q, s)) => s \in contended'
        /\ UNCHANGED <<enabled, failures, owner, queue, stopping, edits, losses, rest>>
    BY <1>7 DEF BeginsTest, Opens
  <2>2. seen' = [seen EXCEPT ![p][s] = Read(p, s)]
    BY <1>7 DEF BeginsTest, Opens
  <2>3. /\ Read(p, s) \in Nat
        /\ seen' \in [Processes -> [Sources -> Nat \cup {Expired}]]
        /\ \A q \in Processes \ {p} : seen'[q] = seen[q]
        /\ \A r \in Sources \ {s} : seen'[p][r] = seen[p][r]
        /\ seen'[p][s] = Read(p, s)
    BY <2>2, CountIsRead
  <2> QED BY <2>1, <2>3
<1>8. ASSUME NEW p \in Testers, NEW status \in Results, NEW count \in Nat,
             TestEnded(p, status, count)
      PROVE  PlaceInv'
  BY <1>8 DEF TestEnded, Leave, Closes, Closed
<1>9. ASSUME NEW p \in Processes, GoesOn(p)
      PROVE  PlaceInv'
  <2>1. /\ pc' \in [Processes -> {"idle", "waiting", "next", "primary", "fallback", "enriching",
                            "analysing", "mailing", "exited"}]
        /\ pc[p] \in Running /\ pc'[p] \in Running
        /\ pc'[p] = "enriching" => p \in Pulls
        /\ \A r \in Processes \ {p} : pc'[r] = pc[r]
    BY <1>9, GoesOnAs
  <2>2. UNCHANGED <<database, owner, queue, stopping, rest, at, run, seen, history>>
    BY <1>9 DEF GoesOn
  <2>3. \A q \in Pulls : pc'[q] \in Holding <=> owner' = q
    <3>1. ASSUME NEW q \in Pulls PROVE pc'[q] \in Holding <=> pc[q] \in Holding
      BY <2>1
    <3> QED BY <2>2, <3>1
  <2>4. \A t \in Testers : pc'[t] \in {"idle", "primary", "fallback"} /\ rest'[t] = {}
    <3>1. ASSUME NEW t \in Testers PROVE pc'[t] \in {"idle", "primary", "fallback"}
      <4>1. CASE t = p
        BY <2>1, <4>1
      <4>2. CASE t # p
        BY <2>1, <4>2
      <4> QED BY <4>1, <4>2
    <3> QED BY <2>2, <3>1
  <2>5. \A q \in Processes :
          /\ pc'[q] \in Resting <=> pc[q] \in Resting
          /\ pc'[q] \in Running \cup {"analysing"} <=> pc[q] \in Running \cup {"analysing"}
    BY <2>1
  <2>6. \A q \in Processes :
        /\ pc'[q] \in Resting => rest'[q] = {} /\ seen'[q] = [s \in Sources |-> Expired]
        /\ pc'[q] \in Running \cup {"analysing"} <=> at'[q] # NoSource
        /\ at'[q] # NoSource <=> run'[q] # 0
        /\ at'[q] # NoSource => seen'[q][at'[q]] # Expired
    BY <2>2, <2>5
  <2> QED BY <2>3, <2>4, <2>6
<1>10. ASSUME NEW p \in Processes, Analysed(p)
      PROVE  PlaceInv'
  BY <1>10 DEF Analysed
<1>11. ASSUME NEW p \in Processes, Locked(p)
      PROVE  PlaceInv'
  BY <1>11 DEF Locked, Leave
<1>18. ASSUME NEW p \in Processes, Sticks(p)
      PROVE  PlaceInv'
  BY <1>18, AtWork DEF Sticks, Leave, Closed
<1>12. CASE Mails
  BY <1>12 DEF Mails
<1>13. ASSUME NEW s \in Sources, Edit(s)
      PROVE  PlaceInv'
  BY <1>13 DEF Edit
<1>14. CASE Stop
  BY <1>14 DEF Stop
<1>15. CASE Exit
  BY <1>15 DEF Exit
<1>16. CASE Restart
  BY <1>16 DEF Restart
<1>17. CASE UNCHANGED vars
  BY <1>17 DEF vars
<1> HIDE DEF TypeOK, PlaceInv, Processes, Pulls, Running, Resting, Holding, database, process, history
<1> QED BY <1>1, <1>2, <1>3, <1>4, <1>5, <1>6, <1>7, <1>8, <1>9, <1>10, <1>11, <1>12, <1>13,
    <1>14, <1>15, <1>16, <1>17, <1>18 DEF Kinds

\* Rows stay those of their processes.
LEMMA RowStep ==
    ASSUME TypeOK, PlaceInv, RowInv, Kinds
    PROVE  RowInv'
<1> USE CollectionNames, CollectionBounds
<1> USE DEF TypeOK, PlaceInv, RowInv, Processes, Pulls, Running, Resting, Holding, database,
    process, history
<1>1. ASSUME NEW p \in Pulls, Queue(p)
      PROVE  RowInv'
  BY <1>1 DEF Queue
<1>2. ASSUME NEW p \in Pulls, Enter(p)
      PROVE  RowInv'
  <2>1. PICK S \in SUBSET Sources :
              /\ rest' = [rest EXCEPT ![p] = S]
              /\ contended' = contended \cup {s \in S : \E t \in Testers : at[t] = s}
    BY <1>2, Loads
  <2>2. /\ owner = Nobody /\ owner' = p
        /\ pc' = [pc EXCEPT ![p] = "next"]
        /\ queue # <<>> /\ queue' = Tail(queue)
        /\ seen' = [seen EXCEPT ![p] = failures]
        /\ UNCHANGED <<database, stopping, at, run, asks, edits, losses>>
    BY <1>2 DEF Enter
  <2> QED BY <2>1, <2>2
<1>3. ASSUME NEW p \in Pulls, Stored(p)
      PROVE  RowInv'
  BY <1>3 DEF Stored, Closes, Closed
<1>4. ASSUME NEW p \in Pulls, Ends(p)
      PROVE  RowInv'
  BY <1>4 DEF Ends, Leave
<1>5. ASSUME NEW p \in Pulls, NEW s \in Sources, Begins(p, s)
      PROVE  RowInv'
  <2>1. /\ Opened(s)
        /\ run' = [run EXCEPT ![p] = Len(runs) + 1]
        /\ at' = [at EXCEPT ![p] = s]
        /\ pc[p] = "next" /\ pc' = [pc EXCEPT ![p] = "primary"]
        /\ s \in rest[p] /\ rest' = [rest EXCEPT ![p] = @ \ {s}]
        /\ UNCHANGED <<enabled, failures, owner, queue, stopping, asks, contended, edits, losses>>
    BY <1>5 DEF Begins, Opens
  <2>2. seen' = [seen EXCEPT ![p][s] = Read(p, s)]
    BY <1>5 DEF Begins, Opens
  <2>3. /\ Read(p, s) \in Nat
        /\ seen' \in [Processes -> [Sources -> Nat \cup {Expired}]]
        /\ \A q \in Processes \ {p} : seen'[q] = seen[q]
        /\ \A r \in Sources \ {s} : seen'[p][r] = seen[p][r]
        /\ seen'[p][s] = Read(p, s)
    BY ZenonT(40), <2>2, CountIsRead
  <2> QED BY <2>1, <2>3 DEF Opened
<1>6. ASSUME NEW p \in Pulls, NEW status \in {"retry_wait", "dead"}, PullFailed(p, status)
      PROVE  RowInv'
  BY SMTT(20), <1>6 DEF PullFailed, Closes, Closed
<1>7. ASSUME NEW p \in Testers, NEW s \in Sources, BeginsTest(p, s)
      PROVE  RowInv'
  <2>1. /\ Opened(s)
        /\ run' = [run EXCEPT ![p] = Len(runs) + 1]
        /\ at' = [at EXCEPT ![p] = s]
        /\ pc[p] = "idle" /\ pc' = [pc EXCEPT ![p] = "primary"]
        /\ asks < MaxAsks /\ asks' = asks + 1
        /\ contended \subseteq contended' /\ contended' \subseteq Sources
        /\ (\E q \in Processes : Loaded(q, s)) => s \in contended'
        /\ UNCHANGED <<enabled, failures, owner, queue, stopping, edits, losses, rest>>
    BY <1>7 DEF BeginsTest, Opens
  <2>2. seen' = [seen EXCEPT ![p][s] = Read(p, s)]
    BY <1>7 DEF BeginsTest, Opens
  <2>3. /\ Read(p, s) \in Nat
        /\ seen' \in [Processes -> [Sources -> Nat \cup {Expired}]]
        /\ \A q \in Processes \ {p} : seen'[q] = seen[q]
        /\ \A r \in Sources \ {s} : seen'[p][r] = seen[p][r]
        /\ seen'[p][s] = Read(p, s)
    BY <2>2, CountIsRead
  <2> QED BY <2>1, <2>3 DEF Opened
<1>8. ASSUME NEW p \in Testers, NEW status \in Results, NEW count \in Nat,
             TestEnded(p, status, count)
      PROVE  RowInv'
  BY <1>8 DEF TestEnded, Leave, Closes, Closed
<1>9. ASSUME NEW p \in Processes, GoesOn(p)
      PROVE  RowInv'
  <2>1. /\ pc' \in [Processes -> {"idle", "waiting", "next", "primary", "fallback", "enriching",
                            "analysing", "mailing", "exited"}]
        /\ pc[p] \in Running /\ pc'[p] \in Running
        /\ pc'[p] = "enriching" => p \in Pulls
        /\ \A r \in Processes \ {p} : pc'[r] = pc[r]
    BY <1>9, GoesOnAs
  <2>2. UNCHANGED <<database, owner, queue, stopping, rest, at, run, seen, history>>
    BY <1>9 DEF GoesOn
  <2> QED BY <2>1, <2>2
<1>10. ASSUME NEW p \in Processes, Analysed(p)
      PROVE  RowInv'
  BY <1>10 DEF Analysed
<1>11. ASSUME NEW p \in Processes, Locked(p)
      PROVE  RowInv'
  BY <1>11 DEF Locked, Leave
<1>18. ASSUME NEW p \in Processes, Sticks(p)
      PROVE  RowInv'
  BY <1>18, AtWork DEF Sticks, Leave, Closed
<1>12. CASE Mails
  BY <1>12 DEF Mails
<1>13. ASSUME NEW s \in Sources, Edit(s)
      PROVE  RowInv'
  BY <1>13 DEF Edit
<1>14. CASE Stop
  BY <1>14 DEF Stop
<1>15. CASE Exit
  BY <1>15 DEF Exit
<1>16. CASE Restart
  BY <1>16 DEF Restart
<1>17. CASE UNCHANGED vars
  BY <1>17 DEF vars
<1> HIDE DEF TypeOK, PlaceInv, RowInv, Processes, Pulls, Running, Resting, Holding, database, process, history
<1> QED BY <1>1, <1>2, <1>3, <1>4, <1>5, <1>6, <1>7, <1>8, <1>9, <1>10, <1>11, <1>12, <1>13,
    <1>14, <1>15, <1>16, <1>17, <1>18 DEF Kinds

\* A source that is not contended stays with one process.
LEMMA SoleStep ==
    ASSUME TypeOK, PlaceInv, RowInv, SoleInv, Kinds
    PROVE  SoleInv'
<1> USE CollectionNames, CollectionBounds
<1> USE DEF TypeOK, PlaceInv, SoleInv, Loaded, Processes, Pulls, Running, Resting, Holding,
    database, process, history
<1>1. ASSUME NEW p \in Pulls, Queue(p)
      PROVE  SoleInv'
  BY <1>1 DEF Queue
<1>2. ASSUME NEW p \in Pulls, Enter(p)
      PROVE  SoleInv'
  <2>1. PICK S \in SUBSET Sources :
              /\ rest' = [rest EXCEPT ![p] = S]
              /\ contended' = contended \cup {s \in S : \E t \in Testers : at[t] = s}
    BY <1>2, Loads
  <2>2. /\ owner = Nobody /\ owner' = p
        /\ pc' = [pc EXCEPT ![p] = "next"]
        /\ queue # <<>> /\ queue' = Tail(queue)
        /\ seen' = [seen EXCEPT ![p] = failures]
        /\ UNCHANGED <<database, stopping, at, run, asks, edits, losses>>
    BY <1>2 DEF Enter
  <2>3. \A q \in Pulls : rest[q] = {} /\ at[q] = NoSource
    BY ZenonT(40), <2>2
  <2>4. ASSUME NEW q \in Processes, NEW s \in Sources \ contended', Loaded(q, s)'
        PROVE  \/ q = p /\ s \in S /\ \A t \in Testers : at[t] # s
               \/ q \in Testers /\ at[q] = s /\ Loaded(q, s)
    BY <2>1, <2>2, <2>3, <2>4
  <2> QED BY <2>1, <2>4
<1>3. ASSUME NEW p \in Pulls, Stored(p)
      PROVE  SoleInv'
  BY <1>3 DEF Stored, Closes, Closed
<1>4. ASSUME NEW p \in Pulls, Ends(p)
      PROVE  SoleInv'
  BY <1>4 DEF Ends, Leave
<1>5. ASSUME NEW p \in Pulls, NEW s \in Sources, Begins(p, s)
      PROVE  SoleInv'
  <2>1. /\ Opened(s)
        /\ run' = [run EXCEPT ![p] = Len(runs) + 1]
        /\ at' = [at EXCEPT ![p] = s]
        /\ pc[p] = "next" /\ pc' = [pc EXCEPT ![p] = "primary"]
        /\ s \in rest[p] /\ rest' = [rest EXCEPT ![p] = @ \ {s}]
        /\ UNCHANGED <<enabled, failures, owner, queue, stopping, asks, contended, edits, losses>>
    BY <1>5 DEF Begins, Opens
  <2>2. seen' = [seen EXCEPT ![p][s] = Read(p, s)]
    BY <1>5 DEF Begins, Opens
  <2>3. /\ Read(p, s) \in Nat
        /\ seen' \in [Processes -> [Sources -> Nat \cup {Expired}]]
        /\ \A q \in Processes \ {p} : seen'[q] = seen[q]
        /\ \A r \in Sources \ {s} : seen'[p][r] = seen[p][r]
        /\ seen'[p][s] = Read(p, s)
    BY <2>2, CountIsRead
  <2> QED BY <2>1, <2>3 DEF Opened
<1>6. ASSUME NEW p \in Pulls, NEW status \in {"retry_wait", "dead"}, PullFailed(p, status)
      PROVE  SoleInv'
  BY <1>6 DEF PullFailed, Closes, Closed
<1>7. ASSUME NEW p \in Testers, NEW s \in Sources, BeginsTest(p, s)
      PROVE  SoleInv'
  <2>1. /\ Opened(s)
        /\ run' = [run EXCEPT ![p] = Len(runs) + 1]
        /\ at' = [at EXCEPT ![p] = s]
        /\ pc[p] = "idle" /\ pc' = [pc EXCEPT ![p] = "primary"]
        /\ asks < MaxAsks /\ asks' = asks + 1
        /\ contended \subseteq contended' /\ contended' \subseteq Sources
        /\ (\E q \in Processes : Loaded(q, s)) => s \in contended'
        /\ UNCHANGED <<enabled, failures, owner, queue, stopping, edits, losses, rest>>
    BY <1>7 DEF BeginsTest, Opens
  <2>2. seen' = [seen EXCEPT ![p][s] = Read(p, s)]
    BY <1>7 DEF BeginsTest, Opens
  <2>3. /\ Read(p, s) \in Nat
        /\ seen' \in [Processes -> [Sources -> Nat \cup {Expired}]]
        /\ \A q \in Processes \ {p} : seen'[q] = seen[q]
        /\ \A r \in Sources \ {s} : seen'[p][r] = seen[p][r]
        /\ seen'[p][s] = Read(p, s)
    BY <2>2, CountIsRead
  <2> QED BY <2>1, <2>3 DEF Opened
<1>8. ASSUME NEW p \in Testers, NEW status \in Results, NEW count \in Nat,
             TestEnded(p, status, count)
      PROVE  SoleInv'
  BY <1>8 DEF TestEnded, Leave, Closes, Closed
<1>9. ASSUME NEW p \in Processes, GoesOn(p)
      PROVE  SoleInv'
  <2>1. /\ pc' \in [Processes -> {"idle", "waiting", "next", "primary", "fallback", "enriching",
                            "analysing", "mailing", "exited"}]
        /\ pc[p] \in Running /\ pc'[p] \in Running
        /\ pc'[p] = "enriching" => p \in Pulls
        /\ \A r \in Processes \ {p} : pc'[r] = pc[r]
    BY <1>9, GoesOnAs
  <2>2. UNCHANGED <<database, owner, queue, stopping, rest, at, run, seen, history>>
    BY <1>9 DEF GoesOn
  <2> QED BY <2>1, <2>2
<1>10. ASSUME NEW p \in Processes, Analysed(p)
      PROVE  SoleInv'
  BY <1>10 DEF Analysed
<1>11. ASSUME NEW p \in Processes, Locked(p)
      PROVE  SoleInv'
  BY <1>11 DEF Locked, Leave
<1>18. ASSUME NEW p \in Processes, Sticks(p)
      PROVE  SoleInv'
  BY <1>18, AtWork DEF Sticks, Leave, Closed
<1>12. CASE Mails
  BY <1>12 DEF Mails
<1>13. ASSUME NEW s \in Sources, Edit(s)
      PROVE  SoleInv'
  BY <1>13 DEF Edit
<1>14. CASE Stop
  BY <1>14 DEF Stop
<1>15. CASE Exit
  BY <1>15 DEF Exit
<1>16. CASE Restart
  BY <1>16 DEF Restart
<1>17. CASE UNCHANGED vars
  BY <1>17 DEF vars
<1> HIDE DEF TypeOK, PlaceInv, SoleInv, Loaded, Processes, Pulls, Running, Resting, Holding, database, process, history
<1> QED BY <1>1, <1>2, <1>3, <1>4, <1>5, <1>6, <1>7, <1>8, <1>9, <1>10, <1>11, <1>12, <1>13,
    <1>14, <1>15, <1>16, <1>17, <1>18 DEF Kinds

\* What is closed is the row of a source, of one process.
LEMMA ClosesOne ==
    ASSUME TypeOK, PlaceInv, RowInv, NEW p \in Processes, NEW status, NEW count,
           Closes(p, status, count)
    PROVE  \E s \in Sources, i \in DOMAIN runs :
              /\ at[p] = s /\ run[p] = i /\ i # 0
              /\ runs[i].source = s
              /\ \A q \in Processes \ {p} : run[q] # i
              /\ Closed(i, status)
              /\ failures' = [failures EXCEPT ![s] = count]
              /\ contended' = contended /\ losses' = losses
<1>1. pc[p] \in Running \cup {"analysing"}
  BY DEF Closes
<1>2. at[p] \in Sources /\ run[p] \in DOMAIN runs
  BY <1>1, AtWork
<1>3. run[p] # 0
  BY <1>2, Rows
<1>4. runs[run[p]].source = at[p] /\ \A q \in Processes \ {p} : run[q] # run[p]
  BY <1>3 DEF RowInv
<1> QED BY <1>2, <1>3, <1>4 DEF Closes, history

\* A run that its process closes is not lost.
LEMMA CloseLosesNone ==
    ASSUME TypeOK, NEW p \in Processes, NEW i \in DOMAIN runs, run[p] = i,
           NEW status, status \notin {"running", "stuck"}, Closed(i, status),
           \A q \in Processes \ {p} : run[q] # i /\ run'[q] = run[q],
           run'[p] \in {0, i}
    PROVE  Lost' = Lost
<1>1. \A j \in DOMAIN runs : j # 0
  BY Rows
<1>2. ASSUME NEW j \in DOMAIN runs
      PROVE  j \in Lost' <=> j \in Lost
  <2>1. CASE j = i
    BY <2>1 DEF Lost, Closed
  <2>2. CASE j # i
    <3>1. runs'[j] = runs[j]
      BY <2>2 DEF Closed
    <3>2. (\A q \in Processes : run'[q] # j) <=> (\A q \in Processes : run[q] # j)
      BY <1>1, <2>2
    <3> QED BY <3>1, <3>2 DEF Lost, Closed
  <2> QED BY <2>1, <2>2
<1>3. Lost' \subseteq DOMAIN runs /\ Lost \subseteq DOMAIN runs
  BY DEF Lost, Closed
<1> QED BY <1>2, <1>3

\* A step that leaves the rows and their processes alone loses none.
LEMMA NoneLost ==
    ASSUME LossInv, Lost' = Lost, losses' = losses
    PROVE  LossInv'
BY DEF LossInv

\* What touches neither runs nor their processes loses nothing.
LEMMA SameLost ==
    ASSUME runs' = runs, \A q \in Processes : run'[q] = run[q]
    PROVE  Lost' = Lost
BY DEF Lost

\* Two finite sets that share nothing count as their sum.
LEMMA CountOfBoth ==
    ASSUME NEW S, NEW T, IsFiniteSet(S), IsFiniteSet(T), S \cap T = {}
    PROVE  Cardinality(S \cup T) = Cardinality(S) + Cardinality(T)
<1>1. Cardinality(S \cup T) = Cardinality(S) + Cardinality(T) - Cardinality(S \cap T)
  BY FS_Union
<1>2. Cardinality(S \cap T) = 0
  BY FS_EmptySet
<1>3. Cardinality(S) \in Nat /\ Cardinality(T) \in Nat
  BY FS_CardinalityType
<1> QED BY <1>1, <1>2, <1>3

\* The rows that are open are the lost ones and those of a process.
LEMMA OpenOrLost ==
    ASSUME TypeOK, RowInv, UNCHANGED runs, run' = [p \in Processes |-> 0]
    PROVE  LET rows == {run[p] : p \in OpenRuns}
           IN  Lost' = Lost \cup rows /\ Lost \cap rows = {}
<1> DEFINE rows == {run[p] : p \in OpenRuns}
<1>1. \A i \in DOMAIN runs : i # 0
  BY Rows
<1>2. Lost' = {i \in DOMAIN runs : runs[i].status \in {"running", "stuck"}}
  BY <1>1 DEF Lost
<1>3. \A i \in rows : i \in DOMAIN runs /\ runs[i].status = "running"
  BY DEF OpenRuns, RowInv
<1>4. ASSUME NEW i \in DOMAIN runs, runs[i].status \in {"running", "stuck"}
      PROVE  i \in Lost \/ i \in rows
  <2>1. CASE \A p \in Processes : run[p] # i
    BY <1>4, <2>1 DEF Lost
  <2>2. CASE \E p \in Processes : run[p] = i
    <3>1. PICK p \in Processes : run[p] = i
      BY <2>2
    <3>2. runs[run[p]].status = "running"
      BY <1>1, <1>4, <3>1 DEF RowInv
    <3> QED BY <1>1, <3>1, <3>2 DEF OpenRuns
  <2> QED BY <2>1, <2>2
<1>5. Lost \cap rows = {}
  BY DEF Lost, OpenRuns
<1>6. Lost' = Lost \cup rows
  BY <1>2, <1>3, <1>4 DEF Lost
<1> QED BY <1>5, <1>6

\* A restart loses all runs that were open with a process.
LEMMA AllLost ==
    ASSUME TypeOK, RowInv, UNCHANGED runs, run' = [p \in Processes |-> 0]
    PROVE  Cardinality(Lost') = Cardinality(Lost) + Cardinality(OpenRuns)
<1> DEFINE rows == {run[p] : p \in OpenRuns}
<1>1. Lost' = Lost \cup rows /\ Lost \cap rows = {}
  BY OpenOrLost
<1>2. IsFiniteSet(rows) /\ Cardinality(OpenRuns) = Cardinality(rows)
  BY OpenRows
<1>3. IsFiniteSet(Lost)
  BY OpenRows, FS_Subset DEF Lost
<1> HIDE DEF rows
<1>4. Cardinality(Lost \cup rows) = Cardinality(Lost) + Cardinality(rows)
  BY <1>1, <1>2, <1>3, CountOfBoth
<1> QED BY <1>1, <1>2, <1>4

\* A run that an exception leaves open is lost.
LEMMA StickLosesOne ==
    ASSUME TypeOK, RowInv, NEW p \in Processes, run[p] \in DOMAIN runs, run[p] # 0,
           Closed(run[p], "stuck"), run' = [run EXCEPT ![p] = 0]
    PROVE  Lost' = Lost \cup {run[p]} /\ run[p] \notin Lost
<1>1. \A j \in DOMAIN runs : j # 0
  BY Rows
<1>2. \A q \in Processes \ {p} : run[q] # run[p] /\ run'[q] = run[q]
  BY DEF RowInv, TypeOK
<1>3. run'[p] = 0
  BY DEF TypeOK
<1>4. ASSUME NEW j \in DOMAIN runs
      PROVE  j \in Lost' <=> j \in Lost \/ j = run[p]
  <2>1. CASE j = run[p]
    BY <1>1, <1>2, <1>3, <2>1 DEF Lost, Closed
  <2>2. CASE j # run[p]
    <3>1. runs'[j] = runs[j]
      BY <2>2 DEF Closed
    <3>2. (\A q \in Processes : run'[q] # j) <=> (\A q \in Processes : run[q] # j)
      BY <1>1, <1>2, <1>3, <2>2
    <3> QED BY <2>2, <3>1, <3>2 DEF Lost, Closed
  <2> QED BY <2>1, <2>2
<1>5. Lost' \subseteq DOMAIN runs /\ Lost \subseteq DOMAIN runs /\ run[p] \notin Lost
  BY DEF Lost, Closed
<1> QED BY <1>4, <1>5

\* Every row that is left open is counted.
LEMMA LossStep ==
    ASSUME TypeOK, PlaceInv, RowInv, LossInv, Kinds
    PROVE  LossInv'
<1> USE CollectionNames
<1> USE DEF TypeOK, PlaceInv, RowInv, Lost, Processes, Running, Resting, Holding, database,
    process, history
<1>1. ASSUME NEW p \in Pulls, Queue(p)
      PROVE  LossInv'
  <2>1. Lost' = Lost /\ losses' = losses
    BY <1>1 DEF Queue
  <2> QED BY <2>1, NoneLost
<1>2. ASSUME NEW p \in Pulls, Enter(p)
      PROVE  LossInv'
  <2>1. Lost' = Lost /\ losses' = losses
    BY <1>2 DEF Enter
  <2> QED BY <2>1, NoneLost
<1>3. ASSUME NEW p \in Pulls, Stored(p)
      PROVE  LossInv'
  <2>1. Closes(p, "succeeded", Cleared(p, at[p]))
    BY <1>3 DEF Stored
  <2>2. PICK s \in Sources, i \in DOMAIN runs :
          /\ run[p] = i /\ Closed(i, "succeeded") /\ losses' = losses
          /\ \A q \in Processes \ {p} : run[q] # i
    BY <2>1, ClosesOne
  <2>3. /\ \A q \in Processes \ {p} : run[q] # i /\ run'[q] = run[q]
        /\ run'[p] \in {0, i}
    BY <1>3, <2>2 DEF Stored, Leave
  <2>a. p \in Processes /\ "succeeded" \notin {"running", "stuck"}
    BY DEF Pulls
  <2> HIDE DEF Lost
  <2>4. Lost' = Lost
    BY <2>2, <2>3, <2>a, CloseLosesNone
  <2> QED BY <2>2, <2>4, NoneLost
<1>4. ASSUME NEW p \in Pulls, Ends(p)
      PROVE  LossInv'
  <2>1. run[p] = 0
    BY <1>4 DEF Ends, Pulls
  <2>2. \A q \in Processes : run'[q] = run[q]
    BY <1>4, <2>1 DEF Ends, Leave, Pulls
  <2>3. runs' = runs /\ losses' = losses
    BY <1>4 DEF Ends
  <2>4. Lost' = Lost
    BY <2>2, <2>3, SameLost
  <2> QED BY <2>3, <2>4, NoneLost
<1>5. ASSUME NEW p \in Pulls, NEW s \in Sources, Begins(p, s)
      PROVE  LossInv'
  <2>1. /\ Opened(s) /\ run' = [run EXCEPT ![p] = Len(runs) + 1] /\ losses' = losses
        /\ pc[p] = "next" /\ p \in Processes
    BY <1>5 DEF Begins, Opens, Pulls
  <2>2. run[p] = 0
    BY <2>1
  <2>3. Lost' = Lost
    BY <2>1, <2>2, Rows DEF Opened
  <2> QED BY <2>1, <2>3, NoneLost
<1>6. ASSUME NEW p \in Pulls, NEW status \in {"retry_wait", "dead"}, PullFailed(p, status)
      PROVE  LossInv'
  <2>1. Closes(p, status, failures[at[p]] + 1)
    BY <1>6 DEF PullFailed
  <2>2. PICK s \in Sources, i \in DOMAIN runs :
          /\ run[p] = i /\ Closed(i, status) /\ losses' = losses
          /\ \A q \in Processes \ {p} : run[q] # i
    BY <2>1, ClosesOne
  <2>3. /\ \A q \in Processes \ {p} : run[q] # i /\ run'[q] = run[q]
        /\ run'[p] \in {0, i}
    BY <1>6, <2>2 DEF PullFailed, Leave
  <2>a. p \in Processes /\ status \notin {"running", "stuck"}
    BY DEF Results, Pulls
  <2> HIDE DEF Lost
  <2>4. Lost' = Lost
    BY <2>2, <2>3, <2>a, CloseLosesNone
  <2> QED BY <2>2, <2>4, NoneLost
<1>7. ASSUME NEW p \in Testers, NEW s \in Sources, BeginsTest(p, s)
      PROVE  LossInv'
  <2>1. Lost' = Lost /\ losses' = losses
    BY SMTT(20), <1>7, Rows DEF BeginsTest, Opens, Opened
  <2> QED BY <2>1, NoneLost
<1>8. ASSUME NEW p \in Testers, NEW status \in Results, NEW count \in Nat,
             TestEnded(p, status, count)
      PROVE  LossInv'
  <2>1. Closes(p, status, count)
    BY <1>8 DEF TestEnded
  <2>2. PICK s \in Sources, i \in DOMAIN runs :
          /\ run[p] = i /\ Closed(i, status) /\ losses' = losses
          /\ \A q \in Processes \ {p} : run[q] # i
    BY <2>1, ClosesOne
  <2>3. /\ \A q \in Processes \ {p} : run[q] # i /\ run'[q] = run[q]
        /\ run'[p] \in {0, i}
    BY <1>8, <2>2 DEF TestEnded, Leave
  <2>a. p \in Processes /\ status \notin {"running", "stuck"}
    BY DEF Results, Pulls
  <2> HIDE DEF Lost
  <2>4. Lost' = Lost
    BY ZenonT(40), <2>2, <2>3, <2>a, CloseLosesNone
  <2> QED BY <2>2, <2>4, NoneLost
<1>9. ASSUME NEW p \in Processes, GoesOn(p)
      PROVE  LossInv'
  <2>1. Lost' = Lost /\ losses' = losses
    BY <1>9 DEF GoesOn
  <2> QED BY <2>1, NoneLost
<1>10. ASSUME NEW p \in Processes, Analysed(p)
      PROVE  LossInv'
  <2>1. Lost' = Lost /\ losses' = losses
    BY <1>10 DEF Analysed
  <2> QED BY <2>1, NoneLost
<1>11. ASSUME NEW p \in Processes, Locked(p)
      PROVE  LossInv'
  <2>1. /\ run' = [run EXCEPT ![p] = 0] /\ UNCHANGED runs
        /\ losses' = IF run[p] # 0 /\ runs[run[p]].status = "running" THEN losses + 1 ELSE losses
    BY <1>11 DEF Locked, Leave
  <2>2. CASE run[p] # 0 /\ runs[run[p]].status = "running"
    <3>1. Lost' = Lost \cup {run[p]} /\ run[p] \notin Lost
      BY <2>1, <2>2
    <3>2. IsFiniteSet(Lost)
      BY OpenRows, FS_Subset
    <3>3. Cardinality(Lost \cup {run[p]}) = Cardinality(Lost) + 1
      BY <3>1, <3>2, FS_AddElement
    <3> QED BY <2>1, <2>2, <3>1, <3>3 DEF LossInv
  <2>3. CASE ~(run[p] # 0 /\ runs[run[p]].status = "running")
    <3>1. Lost' = Lost
      BY <2>1, <2>3
    <3> QED BY <2>1, <2>3, <3>1, NoneLost
  <2> QED BY <2>2, <2>3
<1>18. ASSUME NEW p \in Processes, Sticks(p)
      PROVE  LossInv'
  <2>1. /\ Closed(run[p], "stuck") /\ run' = [run EXCEPT ![p] = 0]
        /\ losses' = losses + 1 /\ pc[p] \in Running
    BY <1>18 DEF Sticks, Leave
  <2>2. run[p] \in DOMAIN runs /\ run[p] # 0
    BY <2>1, AtWork, Rows
  <2> HIDE DEF Running, Lost
  <2>3. Lost' = Lost \cup {run[p]} /\ run[p] \notin Lost
    BY <2>1, <2>2, StickLosesOne
  <2>4. IsFiniteSet(Lost)
    BY OpenRows, FS_Subset DEF Lost
  <2>5. Cardinality(Lost \cup {run[p]}) = Cardinality(Lost) + 1
    BY <2>3, <2>4, FS_AddElement
  <2> QED BY <2>1, <2>3, <2>5 DEF LossInv
<1>12. CASE Mails
  <2>1. Lost' = Lost /\ losses' = losses
    BY <1>12 DEF Mails
  <2> QED BY <2>1, NoneLost
<1>13. ASSUME NEW s \in Sources, Edit(s)
      PROVE  LossInv'
  <2>1. Lost' = Lost /\ losses' = losses
    BY <1>13 DEF Edit
  <2> QED BY <2>1, NoneLost
<1>14. CASE Stop
  <2>1. Lost' = Lost /\ losses' = losses
    BY <1>14 DEF Stop
  <2> QED BY <2>1, NoneLost
<1>15. CASE Exit
  <2>1. Lost' = Lost /\ losses' = losses
    BY <1>15 DEF Exit
  <2> QED BY <2>1, NoneLost
<1>16. CASE Restart
  <2>1. /\ run' = [p \in Processes |-> 0] /\ UNCHANGED runs
        /\ losses' = losses + Cardinality(OpenRuns)
    BY <1>16 DEF Restart
  <2>2. Cardinality(Lost') = Cardinality(Lost) + Cardinality(OpenRuns)
    BY <2>1, AllLost
  <2> HIDE DEF Lost
  <2> QED BY <2>1, <2>2 DEF LossInv
<1>17. CASE UNCHANGED vars
  <2>1. Lost' = Lost /\ losses' = losses
    BY <1>17 DEF vars
  <2> QED BY <2>1, NoneLost
<1> HIDE DEF TypeOK, PlaceInv, RowInv, Lost, Processes, Running, Resting, Holding, database, process, history
<1> QED BY <1>1, <1>2, <1>3, <1>4, <1>5, <1>6, <1>7, <1>8, <1>9, <1>10, <1>11, <1>12, <1>13,
    <1>14, <1>15, <1>16, <1>17, <1>18 DEF Kinds

\* The last run of a source, before and after a step.
LEMMA LastOpened ==
    ASSUME TypeOK, NEW s \in Sources, Opened(s), NEW r \in Sources
    PROVE  LastSucceeded(r)' <=> LastSucceeded(r)
<1>1. Ended(r)' = Ended(r)
  BY Rows DEF Opened, Ended
<1>2. \A i \in Ended(r) : runs'[i] = runs[i]
  BY DEF Opened, Ended
<1> QED BY <1>1, <1>2 DEF LastSucceeded

\* Closing a run of one source is nothing to the health of another.
LEMMA LastOfOther ==
    ASSUME TypeOK, NEW i \in DOMAIN runs, NEW status, Closed(i, status), NEW r \in Sources,
           runs[i].source # r
    PROVE  LastSucceeded(r)' <=> LastSucceeded(r)
<1>1. Ended(r)' = Ended(r)
  BY DEF Closed, Ended
<1>2. \A j \in Ended(r) : runs'[j] = runs[j]
  BY DEF Closed, Ended
<1> QED BY <1>1, <1>2 DEF LastSucceeded

\* Closing the last run of a source decides whether it succeeded.
LEMMA LastClosed ==
    ASSUME TypeOK, NEW i \in DOMAIN runs, NEW status \in Results, Closed(i, status),
           NEW s \in Sources, s = runs[i].source, \A j \in DOMAIN runs : runs[j].source = s => j <= i
    PROVE  LastSucceeded(s)' <=> status = "succeeded"
<1>1. i \in Ended(s)' /\ runs'[i].status = status
  BY DEF Closed, Ended, Results
<1>2. \A j \in Ended(s)' : j <= i /\ j \in DOMAIN runs
  BY DEF Closed, Ended
<1>3. \A j, k \in DOMAIN runs : j <= k /\ k <= j => j = k
  BY Rows
<1> QED BY <1>1, <1>2, <1>3 DEF LastSucceeded

\* A run that an exception leaves open says nothing of the health of its source.
LEMMA LastStuck ==
    ASSUME TypeOK, NEW i \in DOMAIN runs, runs[i].status = "running", Closed(i, "stuck"),
           NEW r \in Sources
    PROVE  LastSucceeded(r)' <=> LastSucceeded(r)
<1>1. Ended(r)' = Ended(r)
  BY DEF Closed, Ended
<1>2. \A j \in Ended(r) : runs'[j] = runs[j]
  BY DEF Closed, Ended
<1> QED BY <1>1, <1>2 DEF LastSucceeded

\* A count that is cleared is zero, unless a stale one may have been read.
LEMMA ClearedIsZero ==
    ASSUME TypeOK, FreshInv, NEW p \in Processes, at[p] \in Sources \ contended
    PROVE  Cleared(p, at[p]) = 0
BY CollectionBounds DEF TypeOK, FreshInv, Loaded, Cleared

\* Who works alone on a source knows its count and its last row.
LEMMA FreshStep ==
    ASSUME TypeOK, PlaceInv, RowInv, SoleInv, FreshInv, Kinds
    PROVE  FreshInv'
<1> USE CollectionNames, CollectionBounds
<1> USE DEF TypeOK, PlaceInv, RowInv, SoleInv, FreshInv, Loaded, Processes, Pulls, Running,
    Resting, Holding, database, process, history
<1>1. ASSUME NEW p \in Pulls, Queue(p)
      PROVE  FreshInv'
  BY <1>1 DEF Queue
<1>2. ASSUME NEW p \in Pulls, Enter(p)
      PROVE  FreshInv'
  <2>1. PICK S \in SUBSET Sources :
              /\ rest' = [rest EXCEPT ![p] = S]
              /\ contended' = contended \cup {s \in S : \E t \in Testers : at[t] = s}
    BY <1>2, Loads
  <2>2. /\ owner = Nobody /\ owner' = p
        /\ pc' = [pc EXCEPT ![p] = "next"]
        /\ queue # <<>> /\ queue' = Tail(queue)
        /\ seen' = [seen EXCEPT ![p] = failures]
        /\ UNCHANGED <<database, stopping, at, run, asks, edits, losses>>
    BY <1>2 DEF Enter
  <2> QED BY <2>1, <2>2
<1>3. ASSUME NEW p \in Pulls, Stored(p)
      PROVE  FreshInv'
  <2>1. Closes(p, "succeeded", Cleared(p, at[p]))
    BY <1>3 DEF Stored
  <2>2. PICK s \in Sources, i \in DOMAIN runs :
          /\ at[p] = s /\ run[p] = i /\ Closed(i, "succeeded") /\ contended' = contended
          /\ failures' = [failures EXCEPT ![s] = Cleared(p, at[p])]
    BY <2>1, ClosesOne
  <2>3. ASSUME NEW r \in Sources \ contended', Loaded(p, r)'
        PROVE  seen'[p][r] \in {Expired, failures'[r]}
    <3>1. CASE r = s
      <4>1. Cleared(p, s) = 0
        BY <2>2, <3>1, ClearedIsZero
      <4>2. seen'[p][s] = 0
        BY <1>3, <2>2 DEF Stored, Pulls
      <4> QED BY <2>2, <3>1, <4>1, <4>2
    <3>2. CASE r # s
      BY <1>3, <2>2, <2>3, <3>2 DEF Stored, Pulls
    <3> QED BY <3>1, <3>2
  <2>4. ASSUME NEW q \in Processes \ {p}
        PROVE  /\ rest'[q] = rest[q] /\ at'[q] = at[q] /\ run'[q] = run[q] /\ seen'[q] = seen[q]
               /\ s \notin contended => ~Loaded(q, s)
    <3>1. rest'[q] = rest[q] /\ at'[q] = at[q] /\ run'[q] = run[q] /\ seen'[q] = seen[q]
      BY <1>3 DEF Stored, Leave, Pulls
    <3>2. s \notin contended => ~Loaded(q, s)
      BY <2>2
    <3> QED BY <3>1, <3>2
  <2>5. ASSUME NEW q \in Processes \ {p}, NEW r \in Sources \ contended', Loaded(q, r)'
        PROVE  seen'[q][r] \in {Expired, failures'[r]}
    <3>1. r # s /\ Loaded(q, r)
      BY <2>2, <2>4, <2>5
    <3>2. failures'[r] = failures[r] /\ seen'[q][r] = seen[q][r]
      BY <2>2, <2>4, <3>1
    <3> QED BY <2>2, <3>1, <3>2
  <2>6. ASSUME NEW q \in Processes, NEW r \in Sources \ contended', at'[q] = r,
               NEW j \in DOMAIN runs', runs'[j].source = r
        PROVE  j <= run'[q]
    <3>1. j \in DOMAIN runs /\ runs[j].source = r
      BY <2>2, <2>6 DEF Closed
    <3>2. at[q] = r /\ run'[q] = run[q]
      BY <1>3, <2>4, <2>6 DEF Stored, Leave, Pulls
    <3> QED BY <2>2, <3>1, <3>2
  <2> QED BY ZenonT(40), <2>3, <2>5, <2>6
<1>4. ASSUME NEW p \in Pulls, Ends(p)
      PROVE  FreshInv'
  BY <1>4 DEF Ends, Leave
<1>5. ASSUME NEW p \in Pulls, NEW s \in Sources, Begins(p, s)
      PROVE  FreshInv'
  <2>1. /\ Opened(s)
        /\ run' = [run EXCEPT ![p] = Len(runs) + 1]
        /\ at' = [at EXCEPT ![p] = s]
        /\ pc[p] = "next" /\ pc' = [pc EXCEPT ![p] = "primary"]
        /\ s \in rest[p] /\ rest' = [rest EXCEPT ![p] = @ \ {s}]
        /\ UNCHANGED <<enabled, failures, owner, queue, stopping, asks, contended, edits, losses>>
    BY <1>5 DEF Begins, Opens
  <2>2. seen' = [seen EXCEPT ![p][s] = Read(p, s)]
    BY <1>5 DEF Begins, Opens
  <2>3. /\ Read(p, s) \in Nat
        /\ seen' \in [Processes -> [Sources -> Nat \cup {Expired}]]
        /\ \A q \in Processes \ {p} : seen'[q] = seen[q]
        /\ \A r \in Sources \ {s} : seen'[p][r] = seen[p][r]
        /\ seen'[p][s] = Read(p, s)
    BY ZenonT(40), <2>2, CountIsRead
  <2> QED BY SMTT(20), <2>1, <2>3, Rows DEF Opened, Read
<1>6. ASSUME NEW p \in Pulls, NEW status \in {"retry_wait", "dead"}, PullFailed(p, status)
      PROVE  FreshInv'
  <2>1. Closes(p, status, failures[at[p]] + 1)
    BY <1>6 DEF PullFailed
  <2>2. PICK s \in Sources, i \in DOMAIN runs :
          /\ at[p] = s /\ run[p] = i /\ Closed(i, status) /\ contended' = contended
          /\ failures' = [failures EXCEPT ![s] = failures[at[p]] + 1]
    BY <2>1, ClosesOne
  <2>3. ASSUME NEW r \in Sources \ contended', Loaded(p, r)'
        PROVE  seen'[p][r] \in {Expired, failures'[r]}
    BY <1>6 DEF PullFailed, Pulls
  <2>4. ASSUME NEW q \in Processes \ {p}
        PROVE  /\ rest'[q] = rest[q] /\ at'[q] = at[q] /\ run'[q] = run[q] /\ seen'[q] = seen[q]
               /\ s \notin contended => ~Loaded(q, s)
    <3>1. rest'[q] = rest[q] /\ at'[q] = at[q] /\ run'[q] = run[q] /\ seen'[q] = seen[q]
      BY <1>6 DEF PullFailed, Leave, Pulls
    <3>2. s \notin contended => ~Loaded(q, s)
      BY <2>2
    <3> QED BY <3>1, <3>2
  <2>5. ASSUME NEW q \in Processes \ {p}, NEW r \in Sources \ contended', Loaded(q, r)'
        PROVE  seen'[q][r] \in {Expired, failures'[r]}
    <3>1. r # s /\ Loaded(q, r)
      BY <2>2, <2>4, <2>5
    <3>2. failures'[r] = failures[r] /\ seen'[q][r] = seen[q][r]
      BY <2>2, <2>4, <3>1
    <3> QED BY <2>2, <3>1, <3>2
  <2>6. ASSUME NEW q \in Processes, NEW r \in Sources \ contended', at'[q] = r,
               NEW j \in DOMAIN runs', runs'[j].source = r
        PROVE  j <= run'[q]
    <3>1. j \in DOMAIN runs /\ runs[j].source = r
      BY <2>2, <2>6 DEF Closed
    <3>2. at[q] = r /\ run'[q] = run[q]
      BY <1>6, <2>4, <2>6 DEF PullFailed, Leave, Pulls
    <3> QED BY <2>2, <3>1, <3>2
  <2> QED BY ZenonT(40), <2>3, <2>5, <2>6
<1>7. ASSUME NEW p \in Testers, NEW s \in Sources, BeginsTest(p, s)
      PROVE  FreshInv'
  <2>1. /\ Opened(s)
        /\ run' = [run EXCEPT ![p] = Len(runs) + 1]
        /\ at' = [at EXCEPT ![p] = s]
        /\ pc[p] = "idle" /\ pc' = [pc EXCEPT ![p] = "primary"]
        /\ asks < MaxAsks /\ asks' = asks + 1
        /\ contended \subseteq contended' /\ contended' \subseteq Sources
        /\ (\E q \in Processes : Loaded(q, s)) => s \in contended'
        /\ UNCHANGED <<enabled, failures, owner, queue, stopping, edits, losses, rest>>
    BY <1>7 DEF BeginsTest, Opens
  <2>2. seen' = [seen EXCEPT ![p][s] = Read(p, s)]
    BY <1>7 DEF BeginsTest, Opens
  <2>3. /\ Read(p, s) \in Nat
        /\ seen' \in [Processes -> [Sources -> Nat \cup {Expired}]]
        /\ \A q \in Processes \ {p} : seen'[q] = seen[q]
        /\ \A r \in Sources \ {s} : seen'[p][r] = seen[p][r]
        /\ seen'[p][s] = Read(p, s)
    BY <2>2, CountIsRead
  <2> QED BY SMTT(20), <2>1, <2>3, Rows DEF Opened, Read
<1>8. ASSUME NEW p \in Testers, NEW status \in Results, NEW count \in Nat,
             TestEnded(p, status, count)
      PROVE  FreshInv'
  <2>1. Closes(p, status, count)
    BY <1>8 DEF TestEnded
  <2>2. PICK s \in Sources, i \in DOMAIN runs :
          /\ at[p] = s /\ run[p] = i /\ Closed(i, status) /\ contended' = contended
          /\ failures' = [failures EXCEPT ![s] = count]
    BY <2>1, ClosesOne
  <2>3. ASSUME NEW r \in Sources \ contended', Loaded(p, r)'
        PROVE  seen'[p][r] \in {Expired, failures'[r]}
    BY <1>8 DEF TestEnded, Leave
  <2>4. ASSUME NEW q \in Processes \ {p}
        PROVE  /\ rest'[q] = rest[q] /\ at'[q] = at[q] /\ run'[q] = run[q] /\ seen'[q] = seen[q]
               /\ s \notin contended => ~Loaded(q, s)
    <3>1. rest'[q] = rest[q] /\ at'[q] = at[q] /\ run'[q] = run[q] /\ seen'[q] = seen[q]
      BY <1>8 DEF TestEnded, Leave, Pulls
    <3>2. s \notin contended => ~Loaded(q, s)
      BY <2>2
    <3> QED BY <3>1, <3>2
  <2>5. ASSUME NEW q \in Processes \ {p}, NEW r \in Sources \ contended', Loaded(q, r)'
        PROVE  seen'[q][r] \in {Expired, failures'[r]}
    <3>1. r # s /\ Loaded(q, r)
      BY <2>2, <2>4, <2>5
    <3>2. failures'[r] = failures[r] /\ seen'[q][r] = seen[q][r]
      BY <2>2, <2>4, <3>1
    <3> QED BY <2>2, <3>1, <3>2
  <2>6. ASSUME NEW q \in Processes, NEW r \in Sources \ contended', at'[q] = r,
               NEW j \in DOMAIN runs', runs'[j].source = r
        PROVE  j <= run'[q]
    <3>1. j \in DOMAIN runs /\ runs[j].source = r
      BY <2>2, <2>6 DEF Closed
    <3>2. at[q] = r /\ run'[q] = run[q]
      BY <1>8, <2>4, <2>6 DEF TestEnded, Leave, Pulls
    <3> QED BY <2>2, <3>1, <3>2
  <2> QED BY ZenonT(40), <2>3, <2>5, <2>6
<1>9. ASSUME NEW p \in Processes, GoesOn(p)
      PROVE  FreshInv'
  <2>1. /\ pc' \in [Processes -> {"idle", "waiting", "next", "primary", "fallback", "enriching",
                            "analysing", "mailing", "exited"}]
        /\ pc[p] \in Running /\ pc'[p] \in Running
        /\ pc'[p] = "enriching" => p \in Pulls
        /\ \A r \in Processes \ {p} : pc'[r] = pc[r]
    BY <1>9, GoesOnAs
  <2>2. UNCHANGED <<database, owner, queue, stopping, rest, at, run, seen, history>>
    BY <1>9 DEF GoesOn
  <2> QED BY <2>1, <2>2
<1>10. ASSUME NEW p \in Processes, Analysed(p)
      PROVE  FreshInv'
  BY <1>10 DEF Analysed
<1>11. ASSUME NEW p \in Processes, Locked(p)
      PROVE  FreshInv'
  BY <1>11 DEF Locked, Leave
<1>18. ASSUME NEW p \in Processes, Sticks(p)
      PROVE  FreshInv'
  <2>1. /\ failures' = failures /\ contended' = contended
        /\ DOMAIN runs' = DOMAIN runs /\ \A j \in DOMAIN runs : runs'[j].source = runs[j].source
    BY <1>18 DEF Sticks, Closed
  <2>2. /\ rest' = [rest EXCEPT ![p] = {}] /\ at' = [at EXCEPT ![p] = NoSource]
        /\ run' = [run EXCEPT ![p] = 0]
        /\ seen' = [seen EXCEPT ![p] = [s \in Sources |-> Expired]]
    BY <1>18 DEF Sticks, Leave
  <2>3. ASSUME NEW q \in Processes, NEW r \in Sources, Loaded(q, r)'
        PROVE  q # p /\ Loaded(q, r) /\ seen'[q] = seen[q]
    BY <2>2, <2>3
  <2>4. ASSUME NEW q \in Processes, NEW r \in Sources, at'[q] = r
        PROVE  at[q] = r /\ run'[q] = run[q]
    BY <2>2, <2>4
  <2>5. ASSUME NEW s \in Sources \ contended', NEW q \in Processes, Loaded(q, s)'
        PROVE  seen'[q][s] \in {Expired, failures'[s]}
    <3>1. Loaded(q, s) /\ seen'[q] = seen[q] /\ s \notin contended
      BY <2>1, <2>3, <2>5
    <3>2. seen[q][s] \in {Expired, failures[s]}
      BY <3>1
    <3> QED BY <2>1, <3>1, <3>2
  <2>6. ASSUME NEW s \in Sources \ contended', NEW q \in Processes, at'[q] = s,
               NEW i \in DOMAIN runs', runs'[i].source = s
        PROVE  i <= run'[q]
    <3>1. at[q] = s /\ run'[q] = run[q] /\ s \notin contended
      BY <2>1, <2>4, <2>6
    <3>2. i \in DOMAIN runs /\ runs[i].source = s
      BY <2>1, <2>6
    <3> QED BY <3>1, <3>2
  <2> QED BY ZenonT(40), <2>5, <2>6
<1>12. CASE Mails
  BY <1>12 DEF Mails
<1>13. ASSUME NEW s \in Sources, Edit(s)
      PROVE  FreshInv'
  BY <1>13 DEF Edit
<1>14. CASE Stop
  BY <1>14 DEF Stop
<1>15. CASE Exit
  BY <1>15 DEF Exit
<1>16. CASE Restart
  BY <1>16 DEF Restart
<1>17. CASE UNCHANGED vars
  BY <1>17 DEF vars
<1> HIDE DEF TypeOK, PlaceInv, RowInv, SoleInv, FreshInv, Loaded, Processes, Pulls, Running, Resting, Holding, database, process, history
<1> QED BY <1>1, <1>2, <1>3, <1>4, <1>5, <1>6, <1>7, <1>8, <1>9, <1>10, <1>11, <1>12, <1>13,
    <1>14, <1>15, <1>16, <1>17, <1>18 DEF Kinds

\* The health of a source is of its last run.
LEMMA HealthStep ==
    ASSUME TypeOK, PlaceInv, RowInv, SoleInv, FreshInv, HealthInv, Kinds
    PROVE  HealthInv'
<1>a. ASSUME UNCHANGED <<failures, runs>>, contended \subseteq contended'
      PROVE  HealthInv'
  BY <1>a DEF HealthInv, LastSucceeded, Ended
<1> USE CollectionNames, CollectionBounds
<1>1. ASSUME NEW p \in Pulls, Queue(p)
      PROVE  HealthInv'
  BY <1>1, <1>a DEF Queue, database, process, history
<1>2. ASSUME NEW p \in Pulls, Enter(p)
      PROVE  HealthInv'
  BY <1>2, <1>a DEF Enter, database, process, history
<1>3. ASSUME NEW p \in Pulls, Stored(p)
      PROVE  HealthInv'
  <2>1. Closes(p, "succeeded", Cleared(p, at[p]))
    BY <1>3 DEF Stored
  <2>2. PICK s \in Sources, i \in DOMAIN runs :
          /\ at[p] = s /\ run[p] = i /\ runs[i].source = s /\ Closed(i, "succeeded")
          /\ failures' = [failures EXCEPT ![s] = Cleared(p, at[p])] /\ contended' = contended
    BY <2>1, ClosesOne DEF Processes, Pulls
  <2>3. ASSUME s \notin contended
        PROVE  failures'[s] = 0 <=> LastSucceeded(s)'
    <3>1. \A j \in DOMAIN runs : runs[j].source = s => j <= i
      BY <2>2, <2>3 DEF FreshInv, Processes, Pulls
    <3>2. LastSucceeded(s)' <=> "succeeded" = "succeeded"
      BY <2>2, <3>1, LastClosed DEF Results
    <3>3. Cleared(p, at[p]) = 0 <=> "succeeded" = "succeeded"
      BY <2>2, <2>3, ClearedIsZero DEF Processes, Pulls
    <3> QED BY <2>2, <3>2, <3>3 DEF TypeOK
  <2>4. ASSUME NEW r \in Sources \ contended, r # s
        PROVE  failures'[r] = 0 <=> LastSucceeded(r)'
    <3>1. LastSucceeded(r)' <=> LastSucceeded(r)
      BY <2>2, <2>4, LastOfOther
    <3> QED BY <2>2, <2>4, <3>1 DEF TypeOK, HealthInv
  <2> QED BY <2>2, <2>3, <2>4 DEF HealthInv
<1>4. ASSUME NEW p \in Pulls, Ends(p)
      PROVE  HealthInv'
  BY <1>4, <1>a DEF Ends, Leave, database, process, history
<1>5. ASSUME NEW p \in Pulls, NEW s \in Sources, Begins(p, s)
      PROVE  HealthInv'
  <2>1. UNCHANGED failures /\ Opened(s) /\ contended \subseteq contended'
    BY <1>5 DEF Begins, Opens
  <2> QED BY <2>1, LastOpened DEF HealthInv
<1>6. ASSUME NEW p \in Pulls, NEW status \in {"retry_wait", "dead"}, PullFailed(p, status)
      PROVE  HealthInv'
  <2>1. Closes(p, status, failures[at[p]] + 1)
    BY <1>6 DEF PullFailed
  <2>2. PICK s \in Sources, i \in DOMAIN runs :
          /\ at[p] = s /\ run[p] = i /\ runs[i].source = s /\ Closed(i, status)
          /\ failures' = [failures EXCEPT ![s] = failures[at[p]] + 1] /\ contended' = contended
    BY <2>1, ClosesOne DEF Processes, Pulls
  <2>3. ASSUME s \notin contended
        PROVE  failures'[s] = 0 <=> LastSucceeded(s)'
    <3>1. \A j \in DOMAIN runs : runs[j].source = s => j <= i
      BY <2>2, <2>3 DEF FreshInv, Processes, Pulls
    <3>2. LastSucceeded(s)' <=> status = "succeeded"
      BY <2>2, <3>1, LastClosed DEF Results
    <3>3. failures[at[p]] + 1 = 0 <=> status = "succeeded"
      BY <2>2 DEF TypeOK
    <3> QED BY <2>2, <3>2, <3>3 DEF TypeOK
  <2>4. ASSUME NEW r \in Sources \ contended, r # s
        PROVE  failures'[r] = 0 <=> LastSucceeded(r)'
    <3>1. LastSucceeded(r)' <=> LastSucceeded(r)
      BY <2>2, <2>4, LastOfOther
    <3> QED BY <2>2, <2>4, <3>1 DEF TypeOK, HealthInv
  <2> QED BY <2>2, <2>3, <2>4 DEF HealthInv
<1>7. ASSUME NEW p \in Testers, NEW s \in Sources, BeginsTest(p, s)
      PROVE  HealthInv'
  <2>1. UNCHANGED failures /\ Opened(s) /\ contended \subseteq contended'
    BY <1>7 DEF BeginsTest, Opens
  <2> QED BY <2>1, LastOpened DEF HealthInv
<1>8. ASSUME NEW p \in Testers, NEW status \in Results, NEW count \in Nat,
             TestEnded(p, status, count)
      PROVE  HealthInv'
  <2>1. Closes(p, status, count)
    BY <1>8 DEF TestEnded
  <2>2. PICK s \in Sources, i \in DOMAIN runs :
          /\ at[p] = s /\ run[p] = i /\ runs[i].source = s /\ Closed(i, status)
          /\ failures' = [failures EXCEPT ![s] = count] /\ contended' = contended
    BY <2>1, ClosesOne DEF Processes, Pulls
  <2>3. ASSUME s \notin contended
        PROVE  failures'[s] = 0 <=> LastSucceeded(s)'
    <3>1. \A j \in DOMAIN runs : runs[j].source = s => j <= i
      BY <2>2, <2>3 DEF FreshInv, Processes, Pulls
    <3>2. LastSucceeded(s)' <=> status = "succeeded"
      BY <2>2, <3>1, LastClosed DEF Results
    <3>3. count = 0 <=> status = "succeeded"
      <4>1. CASE status # "succeeded" /\ count = seen[p][at[p]] + 1
        <5>1. seen[p][s] \in Nat
          <6>1. p \in Processes /\ at[p] # NoSource
            BY <2>2, CollectionNames DEF Processes
          <6> QED BY <2>2, <6>1 DEF TypeOK, PlaceInv
        <5> QED BY <2>2, <4>1, <5>1
      <4>2. CASE status = "succeeded" /\ count = Cleared(p, at[p])
        BY <2>2, <2>3, <4>2, ClearedIsZero DEF Processes
      <4> QED BY <1>8, <4>1, <4>2 DEF TestEnded
    <3> QED BY <2>2, <3>2, <3>3 DEF TypeOK
  <2>4. ASSUME NEW r \in Sources \ contended, r # s
        PROVE  failures'[r] = 0 <=> LastSucceeded(r)'
    <3>1. LastSucceeded(r)' <=> LastSucceeded(r)
      BY <2>2, <2>4, LastOfOther
    <3> QED BY <2>2, <2>4, <3>1 DEF TypeOK, HealthInv
  <2> QED BY <2>2, <2>3, <2>4 DEF HealthInv
<1>9. ASSUME NEW p \in Processes, GoesOn(p)
      PROVE  HealthInv'
  BY <1>9, <1>a DEF GoesOn, database, process, history
<1>10. ASSUME NEW p \in Processes, Analysed(p)
      PROVE  HealthInv'
  BY <1>10, <1>a DEF Analysed, database, process, history
<1>11. ASSUME NEW p \in Processes, Locked(p)
      PROVE  HealthInv'
  BY <1>11, <1>a DEF Locked, Leave, database, process, history
<1>18. ASSUME NEW p \in Processes, Sticks(p)
      PROVE  HealthInv'
  <2>1. Closed(run[p], "stuck") /\ failures' = failures /\ contended' = contended
    BY <1>18 DEF Sticks
  <2>2. run[p] \in DOMAIN runs /\ runs[run[p]].status = "running"
    <3>1. run[p] \in DOMAIN runs /\ run[p] # 0
      BY <1>18, AtWork, Rows DEF Sticks
    <3> QED BY <1>18, <3>1 DEF Sticks, RowInv, Running
  <2>3. \A r \in Sources : LastSucceeded(r)' <=> LastSucceeded(r)
    BY <2>1, <2>2, LastStuck
  <2> QED BY <2>1, <2>3 DEF HealthInv
<1>12. CASE Mails
  BY <1>12, <1>a DEF Mails, database, process, history
<1>13. ASSUME NEW s \in Sources, Edit(s)
      PROVE  HealthInv'
  BY <1>13, <1>a DEF Edit, database, process, history
<1>14. CASE Stop
  BY <1>14, <1>a DEF Stop, database, process, history
<1>15. CASE Exit
  BY <1>15, <1>a DEF Exit, database, process, history
<1>16. CASE Restart
  BY <1>16, <1>a DEF Restart, database, process, history
<1>17. CASE UNCHANGED vars
  BY <1>17, <1>a DEF vars
<1> QED BY <1>1, <1>2, <1>3, <1>4, <1>5, <1>6, <1>7, <1>8, <1>9, <1>10, <1>11, <1>12, <1>13,
    <1>14, <1>15, <1>16, <1>17, <1>18 DEF Kinds

-----------------------------------------------------------------------------
(***************************************************************************)
(* The invariant is inductive                                              *)
(***************************************************************************)
LEMMA BaseInit ==
    ASSUME Init
    PROVE  CInv
<1> USE CollectionNames, CollectionBounds
<1>1. /\ runs \in Seq(RunRow) /\ Len(runs) = 0
      /\ queue \in Seq(Pulls)
  BY EmptySeq DEF Init
<1>2. DOMAIN runs = {}
  BY <1>1, LenProperties
<1>3. TypeOK
  <2>1. /\ enabled \in [Sources -> BOOLEAN] /\ failures \in [Sources -> Nat]
        /\ owner \in Pulls \cup {Nobody} /\ stopping \in BOOLEAN /\ contended \subseteq Sources
    BY DEF Init
  <2>2. pc \in [Processes -> {"idle", "waiting", "next", "primary", "fallback", "enriching",
                              "analysing", "mailing", "exited"}]
    BY DEF Init
  <2>3. rest \in [Processes -> SUBSET Sources] /\ at \in [Processes -> Sources \cup {NoSource}]
    BY DEF Init
  <2>4. run \in [Processes -> Nat]
    BY DEF Init
  <2>5. seen \in [Processes -> [Sources -> Nat \cup {Expired}]]
    BY DEF Init
  <2>6. asks \in 0 .. MaxAsks /\ edits \in 0 .. MaxEdits /\ losses \in 0 .. MaxLosses
    BY DEF Init
  <2> QED BY <1>1, <2>1, <2>2, <2>3, <2>4, <2>5, <2>6 DEF TypeOK
<1>4. PlaceInv
  BY DEF Init, PlaceInv, Processes, Pulls, Running, Resting, Holding
<1>5. RowInv /\ SoleInv /\ FreshInv
  BY DEF Init, RowInv, SoleInv, FreshInv, Loaded
<1>6. LossInv
  <2>1. Lost = {}
    BY <1>2 DEF Lost
  <2> QED BY <2>1, FS_EmptySet DEF LossInv, Init
<1>7. HealthInv
  <2>1. \A s \in Sources : Ended(s) = {}
    BY <1>2 DEF Ended
  <2> QED BY <2>1 DEF HealthInv, LastSucceeded, Init
<1> QED BY <1>3, <1>4, <1>5, <1>6, <1>7 DEF CInv

\* Every step keeps all parts of the invariant.
LEMMA Preserved ==
    ASSUME CInv, [Next]_vars
    PROVE  CInv'
<1>1. TypeOK /\ PlaceInv /\ RowInv /\ LossInv /\ SoleInv /\ FreshInv /\ HealthInv
  BY DEF CInv
<1>2. Kinds
  BY <1>1, Kind
<1>3. TypeOK' /\ PlaceInv' /\ RowInv'
  BY <1>1, <1>2, TypeStep, PlaceStep, RowStep
<1>4. LossInv' /\ SoleInv'
  BY <1>1, <1>2, LossStep, SoleStep
<1>5. FreshInv' /\ HealthInv'
  BY <1>1, <1>2, FreshStep, HealthStep
<1> QED BY <1>3, <1>4, <1>5 DEF CInv

-----------------------------------------------------------------------------
(***************************************************************************)
(* Theorems                                                                *)
(***************************************************************************)
\* The parts of the invariant hold of every state the collection reaches.
THEOREM Invariant == Spec => []CInv
<1>1. Init => CInv
  BY BaseInit
<1>2. CInv /\ [Next]_vars => CInv'
  BY Preserved
<1> QED BY <1>1, <1>2, PTL DEF Spec

\* Every variable keeps its type.
THEOREM TypeCorrect == Spec => []TypeOK
<1>1. CInv => TypeOK
  BY DEF CInv
<1> QED BY <1>1, Invariant, PTL

\* Of the SourceRun rows nobody works on any more, only those stay open that a crash, a
\* locked database or an exception lost that passes the handlers of pull_sources and
\* test_source: every failure these take, and every success, closes its row.
THEOREM NoRowIsForgotten == Spec => []OnlyLostRunsStayOpen
<1>1. CInv => OnlyLostRunsStayOpen
  BY DEF CInv, LossInv, Lost, OnlyLostRunsStayOpen
<1> QED BY <1>1, Invariant, PTL

\* A source is healthy exactly if its last run succeeded, unless it was tested while
\* somebody had it loaded.
THEOREM HealthIsTrue == Spec => []HealthIsOfLastRun
<1>1. CInv => HealthIsOfLastRun
  BY DEF CInv, HealthInv, HealthIsOfLastRun
<1> QED BY <1>1, Invariant, PTL
===============================================================================
