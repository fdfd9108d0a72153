------------------------------ MODULE Collection ------------------------------
(***************************************************************************)
(* Collection of the sources: pull_sources and test_source of services.py, *)
(* the scheduler of scheduler.py and the requests of main.py that run      *)
(* them, and the health they keep of every source.                         *)
(*                                                                         *)
(* All of them are coroutines of one event loop.  Pulls take turns by      *)
(* collection_lock, a first-come asyncio.Lock; source tests do not.  A     *)
(* pull works on the sources its session loaded at its start (sessions do  *)
(* not expire at a commit) until a rollback expires them.                  *)
(*                                                                         *)
(* Abstracted: what a fetch returns is whether it succeeded; the articles  *)
(* and their analysis are in Chains and Analysis, mailing in               *)
(* Notifications.  Sources are pulled in any order.                        *)
(***************************************************************************)
EXTENDS Integers, FiniteSets, Sequences

CONSTANTS
    Sources,     \* sources a pull may collect
    Catalog,     \* those of config/sources.yaml, which enables them
    Fallbacks,   \* those that have a fallback_url
    Scheduler,   \* the collection loop
    Requests,    \* POST /ingestion/pull
    Testers,     \* POST /sources/{id}/test
    Nobody,      \* collection_lock is free
    NoSource,    \* the process works on no source
    Expired,     \* the session has to load the source again
    MaxAsks,     \* bound: pulls and tests asked for
    MaxEdits,    \* bound: changes of "enabled"
    MaxLosses    \* bound: runs lost

Pulls == {Scheduler} \cup Requests
Processes == Pulls \cup Testers

ASSUME CollectionNames ==
    /\ Scheduler \notin Requests
    /\ Pulls \cap Testers = {}
    /\ Nobody \notin Processes
    /\ NoSource \notin Sources
    /\ Catalog \subseteq Sources
    /\ Fallbacks \subseteq Sources

ASSUME CollectionBounds ==
    /\ MaxAsks \in Nat
    /\ MaxEdits \in Nat
    /\ MaxLosses \in Nat
    /\ IsFiniteSet(Sources)
    /\ Expired \notin Nat

\* status is "stuck" for a row whose status is "running" although ended_at is set.
RunRow == [source : Sources,
           status : {"running", "succeeded", "retry_wait", "dead", "stuck"}]

VARIABLES
    (* committed rows *)
    enabled,   \* enabled[s]
    failures,  \* failures[s]: consecutive_failures
    runs,      \* SourceRun rows, oldest first
    (* the event loop *)
    owner,     \* who holds collection_lock
    queue,     \* who waits for it, in the order of arrival
    stopping,  \* the service was told to stop
    pc,        \* pc[p]: where the process is
    rest,      \* rest[p]: sources the pull has not begun
    at,        \* at[p]: the source it works on
    run,       \* run[p]: the SourceRun row it has open, 0 if none
    seen,      \* seen[p][s]: consecutive_failures as its session has it
    (* history *)
    asks,      \* pulls and tests asked for so far
    edits,     \* changes of "enabled" so far
    losses,    \* runs lost so far: to a crash, to a locked database, to an exception
               \* that no handler takes
    contended  \* sources tested while another process had them loaded

database == <<enabled, failures, runs>>
process == <<pc, rest, at, run, seen>>
history == <<asks, edits, losses, contended>>
vars == <<enabled, failures, runs, owner, queue, stopping, pc, rest, at, run, seen,
          asks, edits, losses, contended>>

Init ==
    /\ enabled = [s \in Sources |-> TRUE]
    /\ failures = [s \in Sources |-> 0]
    /\ runs = <<>>
    /\ owner = Nobody
    /\ queue = <<>>
    /\ stopping = FALSE
    /\ pc = [p \in Processes |-> "idle"]
    /\ rest = [p \in Processes |-> {}]
    /\ at = [p \in Processes |-> NoSource]
    /\ run = [p \in Processes |-> 0]
    /\ seen = [p \in Processes |-> [s \in Sources |-> Expired]]
    /\ asks = 0
    /\ edits = 0
    /\ losses = 0
    /\ contended = {}

\* The process has a row of the source in its session that it has yet to write.
Loaded(p, s) == s \in rest[p] \/ at[p] = s

\* consecutive_failures of the source the process works on, as it reads it.
Read(p, s) == IF seen[p][s] = Expired THEN failures[s] ELSE seen[p][s]
-----------------------------------------------------------------------------
(***************************************************************************)
(* collection_lock                                                         *)
(***************************************************************************)
\* The scheduler's interval is over, or a request comes in.
Queue(p) ==
    /\ pc[p] = "idle"
    /\ ~stopping
    /\ asks < MaxAsks
    /\ asks' = asks + 1
    /\ pc' = [pc EXCEPT ![p] = "waiting"]
    /\ queue' = Append(queue, p)
    /\ UNCHANGED <<database, owner, stopping, rest, at, run, seen, edits, losses, contended>>

\* The scheduler pulls all enabled sources, a request the ones it names.
Chosen(p) == {S \in SUBSET {s \in Sources : enabled[s]} :
                 p = Scheduler => S = {s \in Sources : enabled[s]}}

\* Mutant: a pull does not wait for the one before it.
EnterAnyTime(p) ==
    /\ pc[p] = "waiting"
    /\ pc' = [pc EXCEPT ![p] = "next"]
    /\ queue' = SelectSeq(queue, LAMBDA q : q # p)
    /\ owner' = p
    /\ \E S \in Chosen(p) :
        /\ rest' = [rest EXCEPT ![p] = S]
        /\ contended' = contended \cup {s \in S : \E t \in Testers : at[t] = s}
    /\ seen' = [seen EXCEPT ![p] = failures]
    /\ UNCHANGED <<database, stopping, at, run, asks, edits, losses>>

\* The lock is taken and the sources are loaded.
Enter(p) ==
    /\ queue # <<>>
    /\ Head(queue) = p
    /\ owner = Nobody
    /\ pc' = [pc EXCEPT ![p] = "next"]
    /\ queue' = Tail(queue)
    /\ owner' = p
    /\ \E S \in Chosen(p) :
        /\ rest' = [rest EXCEPT ![p] = S]
        /\ contended' = contended \cup {s \in S : \E t \in Testers : at[t] = s}
    /\ seen' = [seen EXCEPT ![p] = failures]
    /\ UNCHANGED <<database, stopping, at, run, asks, edits, losses>>

\* Mutant: an exception leaves the lock taken.
LeaveLocked(p) ==
    /\ pc' = [pc EXCEPT ![p] = "idle"]
    /\ rest' = [rest EXCEPT ![p] = {}]
    /\ at' = [at EXCEPT ![p] = NoSource]
    /\ run' = [run EXCEPT ![p] = 0]
    /\ seen' = [seen EXCEPT ![p] = [s \in Sources |-> Expired]]
    /\ UNCHANGED owner

\* The session is closed and the lock released, after an exception too.
Leave(p) ==
    /\ pc' = [pc EXCEPT ![p] = "idle"]
    /\ rest' = [rest EXCEPT ![p] = {}]
    /\ at' = [at EXCEPT ![p] = NoSource]
    /\ run' = [run EXCEPT ![p] = 0]
    /\ seen' = [seen EXCEPT ![p] = [s \in Sources |-> Expired]]
    /\ owner' = IF owner = p THEN Nobody ELSE owner
-----------------------------------------------------------------------------
(***************************************************************************)
(* The fetch: _fetch_source_entries                                        *)
(***************************************************************************)
\* A SourceRun row is committed as running before the first await.
OpenRun(p, s) ==
    /\ runs' = Append(runs, [source |-> s, status |-> "running"])
    /\ run' = [run EXCEPT ![p] = Len(runs) + 1]
    /\ at' = [at EXCEPT ![p] = s]
    /\ seen' = [seen EXCEPT ![p][s] = Read(p, s)]
    /\ pc' = [pc EXCEPT ![p] = "primary"]
    /\ UNCHANGED <<enabled, failures, owner, queue, stopping, edits, losses>>

\* The next source of a pull, whether or not it still is enabled.
Begin(p) ==
    /\ pc[p] = "next"
    /\ \E s \in rest[p] :
        /\ OpenRun(p, s)
        /\ rest' = [rest EXCEPT ![p] = @ \ {s}]
    /\ UNCHANGED <<asks, contended>>

\* A test loads its source and, unlike a pull, waits for nobody.
BeginTest(t) ==
    /\ pc[t] = "idle"
    /\ ~stopping
    /\ asks < MaxAsks
    /\ asks' = asks + 1
    /\ \E s \in Sources :
        /\ OpenRun(t, s)
        /\ contended' = contended \cup
              (IF \E p \in Processes : Loaded(p, s) THEN {s} ELSE {})
    /\ UNCHANGED rest

\* The run ends with a status and leaves a count of failures.
Recorded(p, status, count) ==
    /\ runs' = [runs EXCEPT ![run[p]].status = status]
    /\ failures' = [failures EXCEPT ![at[p]] = count]

\* pull_sources rolls back, which expires all its sources, and counts from the row.
PullFails(p, status) ==
    /\ p \in Pulls
    /\ Recorded(p, status, failures[at[p]] + 1)
    /\ pc' = [pc EXCEPT ![p] = "next"]
    /\ at' = [at EXCEPT ![p] = NoSource]
    /\ run' = [run EXCEPT ![p] = 0]
    /\ seen' = [seen EXCEPT ![p] = [s \in Sources |-> Expired]]
    /\ UNCHANGED <<enabled, owner, queue, stopping, rest, history>>

\* test_source does not: it counts from what it loaded before the fetch.
TestFails(t, status) ==
    /\ t \in Testers
    /\ Recorded(t, status, seen[t][at[t]] + 1)
    /\ Leave(t)
    /\ UNCHANGED <<enabled, queue, stopping, history>>

Fails(p, status) == PullFails(p, status) \/ TestFails(p, status)

\* A fetch that fails, unless at an unsafe URL, is tried again at the fallback.
FallBack(p) ==
    /\ pc[p] = "primary"
    /\ at[p] \in Fallbacks
    /\ pc' = [pc EXCEPT ![p] = "fallback"]
    /\ UNCHANGED <<database, owner, queue, stopping, rest, at, run, seen, history>>

FetchFails(p) ==
    \/ pc[p] = "primary" /\ at[p] \notin Fallbacks /\ Fails(p, "retry_wait")
    \/ pc[p] = "fallback" /\ Fails(p, "retry_wait")

\* Mutant: the error code is stored as the status.
UnsafeForbidden(p) ==
    /\ pc[p] \in {"primary", "fallback"}
    /\ Fails(p, "SOURCE_FORBIDDEN")

Unsafe(p) ==
    /\ pc[p] \in {"primary", "fallback"}
    /\ Fails(p, "dead")

\* A pull goes on to enrich its entries; one that cannot be is kept as it is.
Fetched(p) ==
    /\ p \in Pulls
    /\ pc[p] \in {"primary", "fallback"}
    /\ pc' = [pc EXCEPT ![p] = "enriching"]
    /\ UNCHANGED <<database, owner, queue, stopping, rest, at, run, seen, history>>

\* Only a change of what the session read is written: 0 over a loaded 0 is none.
Cleared(p, s) == IF seen[p][s] = 0 THEN failures[s] ELSE 0

TestPasses(t) ==
    /\ t \in Testers
    /\ pc[t] \in {"primary", "fallback"}
    /\ Recorded(t, "succeeded", Cleared(t, at[t]))
    /\ Leave(t)
    /\ UNCHANGED <<enabled, queue, stopping, history>>
-----------------------------------------------------------------------------
(***************************************************************************)
(* The rest of pull_sources                                                *)
(***************************************************************************)
\* Mutant: the row is committed only at the end of the analysis.
StoreUnrecorded(p) ==
    /\ pc[p] = "enriching"
    /\ failures' = [failures EXCEPT ![at[p]] = Cleared(p, at[p])]
    /\ seen' = [seen EXCEPT ![p][at[p]] = 0]
    /\ pc' = [pc EXCEPT ![p] = "analysing"]
    /\ UNCHANGED <<enabled, runs, owner, queue, stopping, rest, at, run, history>>

\* All entries are ingested and committed with the run's success.
Store(p) ==
    /\ pc[p] = "enriching"
    /\ Recorded(p, "succeeded", Cleared(p, at[p]))
    /\ seen' = [seen EXCEPT ![p][at[p]] = 0]
    /\ pc' = [pc EXCEPT ![p] = "analysing"]
    /\ UNCHANGED <<enabled, owner, queue, stopping, rest, at, run, history>>

\* ingest_article refuses one entry: none of them is kept.
BadEntry(p) ==
    /\ pc[p] = "enriching"
    /\ PullFails(p, "retry_wait")

\* The touched events were analysed; a failed model call has rolled back, and with
\* that expired the session's sources.
Analysed(p) ==
    /\ pc[p] = "analysing"
    /\ pc' = [pc EXCEPT ![p] = "next"]
    /\ at' = [at EXCEPT ![p] = NoSource]
    /\ run' = [run EXCEPT ![p] = 0]
    /\ \/ UNCHANGED seen
       \/ seen' = [seen EXCEPT ![p] = [s \in Sources |-> Expired]]
    /\ UNCHANGED <<database, owner, queue, stopping, rest, history>>

\* A ValueError of the analysis makes a failure of the run that had succeeded.
AnalysisRaises(p) ==
    /\ pc[p] = "analysing"
    /\ PullFails(p, "retry_wait")

\* The pull is over; the scheduler dispatches the mails with the lock held.
Finish(p) ==
    /\ pc[p] = "next"
    /\ rest[p] = {}
    /\ IF p = Scheduler
       THEN /\ pc' = [pc EXCEPT ![p] = "mailing"]
            /\ UNCHANGED <<owner, rest, at, run, seen>>
       ELSE Leave(p)
    /\ UNCHANGED <<database, queue, stopping, history>>

Mailed ==
    /\ pc[Scheduler] = "mailing"
    /\ Leave(Scheduler)
    /\ UNCHANGED <<database, queue, stopping, history>>

\* "database is locked": no handler, so the process ends and its row stays open.
\* The scheduler logs it and goes on with its next cycle.
Locked(p) ==
    /\ pc[p] \notin {"idle", "waiting", "exited"}
    /\ losses < MaxLosses
    /\ losses' = IF run[p] # 0 /\ runs[run[p]].status = "running" THEN losses + 1 ELSE losses
    /\ Leave(p)
    /\ UNCHANGED <<database, queue, stopping, asks, edits, contended>>

\* An exception that is no UnsafeUrlError, HTTPError or ValueError, as of a date out of
\* range or a URL httpx cannot parse: no status is written, no failure counted, neither
\* the fallback nor the next source tried; only ended_at is set on the way out.
Escapes(p) ==
    /\ pc[p] \in {"primary", "fallback", "enriching", "analysing"}
    /\ losses < MaxLosses
    /\ IF runs[run[p]].status = "running"
       THEN /\ runs' = [runs EXCEPT ![run[p]].status = "stuck"]
            /\ losses' = losses + 1
       ELSE UNCHANGED <<runs, losses>>
    /\ Leave(p)
    /\ UNCHANGED <<enabled, failures, queue, stopping, asks, edits, contended>>
-----------------------------------------------------------------------------
(***************************************************************************)
(* The operator and the service                                            *)
(***************************************************************************)
\* update_source
Edit(s) ==
    /\ edits < MaxEdits
    /\ enabled' = [enabled EXCEPT ![s] = ~@]
    /\ edits' = edits + 1
    /\ UNCHANGED <<failures, runs, owner, queue, stopping, process, asks, losses, contended>>

\* The lifespan of the application ends: scheduler_stop is set.
Stop ==
    /\ ~stopping
    /\ stopping' = TRUE
    /\ UNCHANGED <<database, owner, queue, process, history>>

\* The loop sees the stop event when its cycle is over.
Exit ==
    /\ stopping
    /\ pc[Scheduler] = "idle"
    /\ pc' = [pc EXCEPT ![Scheduler] = "exited"]
    /\ UNCHANGED <<database, owner, queue, stopping, rest, at, run, seen, history>>

OpenRuns == {p \in Processes : run[p] # 0 /\ runs[run[p]].status = "running"}

\* The process dies, or ends, and starts again: bootstrap_catalog sets all columns
\* of the bundled sources that config/sources.yaml has, "enabled" among them.
Restart ==
    /\ losses + Cardinality(OpenRuns) <= MaxLosses
    /\ losses' = losses + Cardinality(OpenRuns)
    /\ enabled' = [s \in Sources |-> enabled[s] \/ s \in Catalog]
    /\ owner' = Nobody
    /\ queue' = <<>>
    /\ stopping' = FALSE
    /\ pc' = [p \in Processes |-> "idle"]
    /\ rest' = [p \in Processes |-> {}]
    /\ at' = [p \in Processes |-> NoSource]
    /\ run' = [p \in Processes |-> 0]
    /\ seen' = [p \in Processes |-> [s \in Sources |-> Expired]]
    /\ UNCHANGED <<failures, runs, asks, edits, contended>>
-----------------------------------------------------------------------------
\* What a process does on its own once it has begun.
Work(p) ==
    \/ Begin(p)
    \/ FallBack(p)
    \/ FetchFails(p)
    \/ Unsafe(p)
    \/ Fetched(p)
    \/ TestPasses(p)
    \/ Store(p)
    \/ BadEntry(p)
    \/ Analysed(p)
    \/ AnalysisRaises(p)
    \/ Finish(p)
    \/ p = Scheduler /\ Mailed
    \/ Locked(p)
    \/ Escapes(p)

Next ==
    \/ \E p \in Pulls : Queue(p) \/ Enter(p)
    \/ \E t \in Testers : BeginTest(t)
    \/ \E p \in Processes : Work(p)
    \/ \E s \in Sources : Edit(s)
    \/ Stop
    \/ Exit
    \/ Restart

Spec == Init /\ [][Next]_vars

(***************************************************************************)
(* Fairness.  Fetches, analyses and mails end, because their clients have  *)
(* timeouts; the loop resumes what is ready, wakes the first waiter of a   *)
(* released lock, and the scheduler looks at its stop event.               *)
(***************************************************************************)
Fairness ==
    /\ \A p \in Pulls : WF_vars(Enter(p))
    /\ \A p \in Processes : WF_vars(Work(p))
    /\ WF_vars(Exit)

FairSpec == Spec /\ Fairness
-----------------------------------------------------------------------------
(***************************************************************************)
(* Properties                                                              *)
(***************************************************************************)
\* Every variable keeps its type.
TypeOK ==
    /\ enabled \in [Sources -> BOOLEAN]
    /\ failures \in [Sources -> Nat]
    /\ runs \in Seq(RunRow)
    /\ owner \in Pulls \cup {Nobody}
    /\ queue \in Seq(Pulls)
    /\ stopping \in BOOLEAN
    /\ pc \in [Processes -> {"idle", "waiting", "next", "primary", "fallback", "enriching",
                             "analysing", "mailing", "exited"}]
    /\ rest \in [Processes -> SUBSET Sources]
    /\ at \in [Processes -> Sources \cup {NoSource}]
    /\ run \in [Processes -> Nat]
    /\ seen \in [Processes -> [Sources -> Nat \cup {Expired}]]
    /\ asks \in 0 .. MaxAsks
    /\ edits \in 0 .. MaxEdits
    /\ losses \in 0 .. MaxLosses
    /\ contended \subseteq Sources

\* The runs of a source that have a result, and the last of them.
Ended(s) == {i \in DOMAIN runs : runs[i].source = s /\ runs[i].status \notin {"running", "stuck"}}
LastSucceeded(s) ==
    \A i \in Ended(s) : (\A j \in Ended(s) : j <= i) => runs[i].status = "succeeded"

\* A source is shown as healthy (no consecutive failures) exactly if its last run
\* with a result succeeded, whatever was lost in between, unless it was ever tested while a pull
\* or another test had it loaded: then a stale count may have been written.
HealthIsOfLastRun ==
    \A s \in Sources \ contended :
        (\A p \in Processes : at[p] # s) => (failures[s] = 0 <=> LastSucceeded(s))

\* Every SourceRun row that no process works on any more has its result, except one for
\* each run lost to a crash, a locked database or an exception that passes the handlers
\* of pull_sources and test_source: those say "running" for ever.
OnlyLostRunsStayOpen ==
    Cardinality({i \in DOMAIN runs :
        /\ runs[i].status \in {"running", "stuck"}
        /\ \A p \in Processes : run[p] # i}) = losses

\* Every pull and test that was asked for ends; none waits for ever for the lock.
CollectionEnds ==
    \A p \in Processes : pc[p] # "idle" ~> pc[p] \in {"idle", "exited"}

\* A service that was told to stop ends its scheduler, unless it dies first.
SchedulerStops == stopping ~> pc[Scheduler] = "exited" \/ ~stopping
=============================================================================
