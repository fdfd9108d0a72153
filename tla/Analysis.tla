------------------------------ MODULE Analysis ------------------------------
(***************************************************************************)
(* The analysis pipeline of apps/analysis_api/news_claws/services.py: how  *)
(* an event cluster whose articles changed gets a new report version,      *)
(* through the deterministic analyser or a paid model call.                *)
(*                                                                         *)
(* Requests and the collection scheduler are coroutines of one event loop, *)
(* the tasks of this module.  A task runs without interruption until it    *)
(* awaits the model; the sync endpoints run in a thread pool beside it and *)
(* meet it only at SQLite's single write lock.  The first UPDATE of the    *)
(* analysis (_prepare_event_analysis) takes that lock and the task keeps   *)
(* it while it awaits the model.  A statement that cannot get the lock     *)
(* blocks its whole thread for busy_timeout and then raises "database is   *)
(* locked", which no caller catches.                                       *)
(*                                                                         *)
(* A start of the service may first ingest and analyse the bundled demo    *)
(* articles (seed_demo), with the deterministic analyser in every mode.    *)
(*                                                                         *)
(* Abstracted: the text of an article is its revision number, clustering   *)
(* picks any event it may pick, and usage is counted in units of money.    *)
(***************************************************************************)
EXTENDS Integers, Sequences, FiniteSets

CONSTANTS
    Events,          \* event cluster ids
    Articles,        \* articles, by (source_id, canonical_url)
    DemoArticles,    \* those of config/demo_articles.yaml, of demo sources
    Nowhere,         \* an article has no membership
    Modes,           \* values LLM_PROVIDER may take at a start of the service
    Tasks,           \* coroutines on the event loop
    NoTask,          \* the write lock is free
    Thread,          \* the write lock is held by a thread-pool request
    NoWork,          \* a task has no analysis under way
    PerEventBudget,  \* settings.llm_per_event_budget
    DailyBudget,     \* settings.daily_llm_budget
    MaxCallCost,     \* most that one model call is charged
    MaxRevision,     \* bound: versions of an article
    MaxDay,          \* bound: last day of the model
    MaxCrashes       \* bound: restarts of the service

Deterministic == "deterministic"
OpenAI == "openai-compatible"

ASSUME ModesAssumption == Modes \subseteq {Deterministic, OpenAI} /\ Modes # {}

ASSUME NamesAssumption ==
    /\ DemoArticles \subseteq Articles
    /\ Nowhere \notin Events
    /\ NoTask \notin Tasks
    /\ Thread \notin Tasks
    /\ Thread # NoTask

ASSUME BudgetAssumption ==
    /\ PerEventBudget \in Nat
    /\ DailyBudget \in Nat
    /\ MaxCallCost \in Nat
    /\ MaxRevision \in Nat \ {0}
    /\ MaxDay \in Nat
    /\ MaxCrashes \in Nat

Days == 0 .. MaxDay
Revisions == 0 .. MaxRevision

\* What _event_input_hash hashes: the event's articles with their latest versions.
\* Revision 0 stands for an article that is not in the event.
Contents == [Articles -> Revisions]
Hashes == Contents \X Modes
NoHash == <<[a \in Articles |-> 0], "none">>

JobStatus == {"none", "running", "succeeded", "retry_wait", "dead"}
Kinds == {"seed", "pull", "request", "retry"}

\* The local state of analyze_event_configured between its database commits.
WorkItem ==
    [event    : Events,                   \* the event analysed
     hash     : Hashes,                   \* input_hash, read before the job commit
     replaced : SUBSET Events,            \* rows replaced in the open transaction
     attempt  : {1, 2},                   \* the call, or its one repair
     cost     : Nat,                      \* usage the provider has reported so far
     left     : Nat,                      \* remaining_budget when the call began
     day      : Days,                     \* created_at of the prepared AnalysisRun
     charge   : Nat,                      \* cost _record_llm_failure will store
     verdict  : {"none", "retry_wait", "dead"}]

VARIABLES
    (* the environment *)
    mode,     \* LLM_PROVIDER of the running service
    day,      \* the UTC day
    crashes,  \* restarts so far
    (* committed rows of the database *)
    home,     \* home[a]: the event the article is in (EventArticle)
    revision, \* revision[a]: its latest ArticleVersion, 0 if it was never seen
    state,    \* state[e]: EventCluster.state, "absent" if there is no such row
    demo,     \* events with EventCluster.is_demo
    reports,  \* reports[e]: input hashes of the report versions, oldest first
    current,  \* current[e]: input hash of the current claims and impacts
    job,      \* job[e][h]: status of the PipelineJob with that idempotency key
    spent,    \* spent[d]: sum of AnalysisRun.cost of the day
    (* the running service *)
    writer,   \* who holds SQLite's write lock
    pc,       \* pc[t]: where the task is
    todo,     \* todo[t]: events the request still has to analyse
    kind,     \* kind[t]: what the request is
    work,     \* work[t]: the analysis under way
    (* history, which no action reads *)
    cut,      \* jobs whose analysis was cut off since it last began
    torn      \* events with claims of an analysis that ended without a report

environment == <<mode, day, crashes>>
clusters == <<home, revision, state, demo>>
results == <<reports, current, job, spent>>
tasks == <<pc, todo, kind, work>>
history == <<cut, torn>>
vars == <<mode, day, crashes, home, revision, state, demo, reports, current, job, spent,
          writer, pc, todo, kind, work, cut, torn>>
-----------------------------------------------------------------------------
Init ==
    /\ mode \in Modes
    /\ day = 0
    /\ crashes = 0
    /\ home = [a \in Articles |-> Nowhere]
    /\ revision = [a \in Articles |-> 0]
    /\ state = [e \in Events |-> "absent"]
    /\ demo = {}
    /\ reports = [e \in Events |-> <<>>]
    /\ current = [e \in Events |-> NoHash]
    /\ job = [e \in Events |-> [h \in Hashes |-> "none"]]
    /\ spent = [d \in Days |-> 0]
    /\ writer = NoTask
    /\ pc = [t \in Tasks |-> "idle"]
    /\ todo = [t \in Tasks |-> {}]
    /\ kind = [t \in Tasks |-> "pull"]
    /\ work = [t \in Tasks |-> NoWork]
    /\ cut = {}
    /\ torn = {}

(***************************************************************************)
(* Helpers                                                                 *)
(***************************************************************************)
Content(e) == [a \in Articles |-> IF home[a] = e THEN revision[a] ELSE 0]
HasArticles(e) == \E a \in Articles : home[a] = e

\* _analysis_input_hash: content and provider; the model name is fixed with it.
Hash(e) == <<Content(e), mode>>

LatestReported(e) ==
    IF reports[e] = <<>> THEN {} ELSE {reports[e][Len(reports[e])]}

\* The hashes some report of the event has, whatever its version.
Reported(e) == {reports[e][i] : i \in DOMAIN reports[e]}

\* existing_report: some version of the event has the input's hash.
Analysed(e) == Hash(e) \in Reported(e)

\* persist_report: a new version unless the latest one has this hash already.
WithReport(e, h) ==
    IF h \in LatestReported(e) THEN reports[e] ELSE Append(reports[e], h)

\* Between two awaits a task has the event loop to itself.
OnLoop(t) == pc[t] \in {"next", "prepare", "record"}
LoopFree == \A t \in Tasks : ~OnLoop(t)

\* Mutant: the write lock is not needed, or not held across the call.
LockIgnored == TRUE

\* A statement that writes can begin its transaction.
LockFree == writer = NoTask

\* The same for a task that may still be in the transaction of its call.
LockFor(t) == writer \in {NoTask, t}

\* What a commit of the task's session makes of the claims and impacts.
Committed(t) ==
    [e \in Events |-> IF e \in work[t].replaced THEN work[t].hash ELSE current[e]]

\* The request calls the model; the seed of a start never does.
ByModel(t) == mode = OpenAI /\ kind[t] # "seed"

Seeding == \E t \in Tasks : kind[t] = "seed"

\* The job is committed as running and its analysis not over.
Working(t) == pc[t] \in {"prepare", "calling", "record"}

\* The jobs of the given tasks' analyses.
JobsOf(ts) == {<<work[t].event, work[t].hash>> : t \in {u \in ts : Working(u)}}

Least(a, b) == IF a <= b THEN a ELSE b
\* Mutant: what the day has spent already is left out.
RemainingPerEvent == PerEventBudget

\* _remaining_llm_budget
Remaining ==
    IF spent[day] >= DailyBudget
    THEN 0
    ELSE Least(PerEventBudget, DailyBudget - spent[day])

\* Mutant: dead jobs are run again by every request.
NeverRefused(t, e) == FALSE

\* A dead job is skipped unless the operator asked for the analysis.
Refused(t, e) == job[e][Hash(e)] = "dead" /\ kind[t] # "retry"

NewWork(e) ==
    [event |-> e, hash |-> Hash(e), replaced |-> {}, attempt |-> 1, cost |-> 0,
     left |-> 0, day |-> day, charge |-> 0, verdict |-> "none"]

\* The event is done, whatever its outcome; the request goes on to the next one.
EventDone(t, e) ==
    /\ pc' = [pc EXCEPT ![t] = "next"]
    /\ todo' = [todo EXCEPT ![t] = @ \ {e}]
    /\ work' = [work EXCEPT ![t] = NoWork]
    /\ UNCHANGED kind

\* An exception no caller handles ends the request; its session rolls back.
Abort(t) ==
    /\ pc' = [pc EXCEPT ![t] = "idle"]
    /\ todo' = [todo EXCEPT ![t] = {}]
    /\ kind' = [kind EXCEPT ![t] = "pull"]
    /\ work' = [work EXCEPT ![t] = NoWork]
    /\ cut' = cut \cup JobsOf({t})
-----------------------------------------------------------------------------
(***************************************************************************)
(* Requests that commit a change of events and then analyse them.  When    *)
(* the lock is taken they fail before any change, which is a stutter here. *)
(***************************************************************************)
\* Mutant: a mutation commits while another task holds the lock.
MayCommitAnyTime(t) == pc[t] = "idle" /\ LoopFree

MayCommit(t) == pc[t] = "idle" /\ LoopFree /\ LockFree

Submit(t, k, events) ==
    /\ pc' = [pc EXCEPT ![t] = "next"]
    /\ todo' = [todo EXCEPT ![t] = events]
    /\ kind' = [kind EXCEPT ![t] = k]
    /\ UNCHANGED <<environment, results, writer, work, history>>

\* A known article keeps its event; a new one joins an active event, which is not
\* of the demo, or opens one.
MayJoin(a, e) ==
    IF home[a] = Nowhere
    THEN state[e] \in {"absent", "active"} /\ e \notin demo
    ELSE e = home[a]

\* A version hash seen before, the latest or an older one, adds no version.
MayBecome(a, r) ==
    \/ r = revision[a] /\ r > 0
    \/ r = revision[a] + 1

\* The rows after the entries of a batch were ingested, and one commit.
Ingested(batch, place, version) ==
    /\ home' = [a \in Articles |-> IF a \in batch THEN place[a] ELSE home[a]]
    /\ revision' = [a \in Articles |-> IF a \in batch THEN version[a] ELSE revision[a]]
    /\ state' = [e \in Events |->
          IF state[e] = "absent" /\ \E a \in batch : place[a] = e
          THEN "active" ELSE state[e]]

\* ingest_article for every entry of a source's pull, or for a manual URL.  Neither
\* is ever of a demo source.
Ingest(t) ==
    /\ MayCommit(t)
    /\ \E batch \in SUBSET (Articles \ DemoArticles) \ {{}} :
       \E place \in [batch -> Events] :
       \E version \in [batch -> 1 .. MaxRevision] :
       \E k \in {"pull", "request"} :
        /\ k = "request" => \E a \in batch : batch = {a}
        /\ \A a \in batch : MayJoin(a, place[a]) /\ MayBecome(a, version[a])
        /\ Ingested(batch, place, version)
        /\ Submit(t, k, {place[a] : a \in batch})
    /\ UNCHANGED demo

\* merge_events: the target, any event, takes the articles of the sources.  An id
\* list that repeats the target makes it a source of itself: its memberships, and
\* those the ids before the repetition (lost) have moved to it, are deleted.
Merge(t) ==
    /\ MayCommit(t)
    /\ \E target \in Events : \E sources \in SUBSET Events \ {{}} : \E lost \in SUBSET sources :
        /\ \A e \in sources \cup {target} : state[e] # "absent"
        /\ IF target \in sources THEN target \in lost ELSE lost = {}
        /\ home' = [a \in Articles |-> IF home[a] \in lost THEN Nowhere
                                       ELSE IF home[a] \in sources THEN target
                                       ELSE home[a]]
        /\ state' = [e \in Events |-> IF e \in sources THEN "merged" ELSE state[e]]
        /\ Submit(t, "request", {target})
    /\ UNCHANGED <<revision, demo>>

\* split_event: some, not all, articles of the event move to a new event.
Split(t) ==
    /\ MayCommit(t)
    /\ \E source, new \in Events : \E selected \in SUBSET Articles \ {{}} :
        /\ state[source] # "absent"
        /\ state[new] = "absent"
        /\ \A a \in selected : home[a] = source
        /\ \E a \in Articles \ selected : home[a] = source
        /\ home' = [a \in Articles |-> IF a \in selected THEN new ELSE home[a]]
        /\ state' = [state EXCEPT ![new] = "active"]
        /\ demo' = IF source \in demo THEN demo \cup {new} ELSE demo
        /\ Submit(t, "request", {source, new})
    /\ UNCHANGED revision

\* reanalyze_event: nothing to commit, any id; force_retry reopens a dead job.
Reanalyze(t) ==
    /\ pc[t] = "idle"
    /\ LoopFree
    /\ \E e \in Events : Submit(t, "retry", {e})
    /\ UNCHANGED clusters
-----------------------------------------------------------------------------
(***************************************************************************)
(* analyze_event_configured, up to the model call                          *)
(***************************************************************************)
\* The request has analysed all its events.
Finish(t) ==
    /\ pc[t] = "next"
    /\ todo[t] = {}
    /\ Abort(t)
    /\ UNCHANGED <<environment, clusters, results, writer, torn>>

\* A report for this very input exists: it is returned, nothing is computed.
ReuseReport(t, e) ==
    /\ pc[t] = "next"
    /\ e \in todo[t]
    /\ Analysed(e)
    /\ EventDone(t, e)
    /\ UNCHANGED <<environment, clusters, results, writer, history>>

\* analyze_event: claims, impacts, report and notifications in one transaction.
AnalyzeDeterministic(t, e) ==
    /\ pc[t] = "next"
    /\ e \in todo[t]
    /\ ~ByModel(t)
    /\ ~Analysed(e)
    /\ HasArticles(e)
    /\ LockFree
    /\ reports' = [reports EXCEPT ![e] = WithReport(e, Hash(e))]
    /\ current' = [current EXCEPT ![e] = Hash(e)]
    /\ torn' = torn \ {e}
    /\ EventDone(t, e)
    /\ UNCHANGED <<environment, clusters, job, spent, writer, cut>>

\* "Cannot analyze an event with no articles": a ValueError before any write.
DeterministicRefusesEmpty(t, e) ==
    /\ pc[t] = "next"
    /\ e \in todo[t]
    /\ ~ByModel(t)
    /\ ~Analysed(e)
    /\ ~HasArticles(e)
    /\ Abort(t)
    /\ UNCHANGED <<environment, clusters, results, writer, torn>>

\* LLM_JOB_DEAD: every caller but reanalyze_event notes it and goes on.
SkipDeadJob(t, e) ==
    /\ pc[t] = "next"
    /\ e \in todo[t]
    /\ ByModel(t)
    /\ ~Analysed(e)
    /\ Refused(t, e)
    /\ EventDone(t, e)
    /\ UNCHANGED <<environment, clusters, results, writer, history>>

\* The job is committed as running; a job that already is needs no write.
StartJob(t, e) ==
    /\ pc[t] = "next"
    /\ e \in todo[t]
    /\ ByModel(t)
    /\ ~Analysed(e)
    /\ ~Refused(t, e)
    /\ job[e][Hash(e)] = "running" \/ LockFree
    /\ job' = [job EXCEPT ![e] = [@ EXCEPT ![Hash(e)] = "running"]]
    /\ pc' = [pc EXCEPT ![t] = "prepare"]
    /\ work' = [work EXCEPT ![t] = NewWork(e)]
    /\ cut' = cut \ {<<e, Hash(e)>>}
    /\ UNCHANGED <<environment, clusters, reports, current, spent, writer, todo, kind, torn>>

\* The prepared rows stay uncommitted, and the lock taken, while the call runs.
Prepare(t) ==
    /\ pc[t] = "prepare"
    /\ HasArticles(work[t].event)
    /\ LockFree
    /\ Remaining > 0
    /\ writer' = t
    /\ pc' = [pc EXCEPT ![t] = "calling"]
    /\ work' = [work EXCEPT ![t] = [@ EXCEPT !.replaced = {work[t].event},
                                          !.left = Remaining, !.day = day]]
    /\ UNCHANGED <<environment, clusters, results, todo, kind, history>>

\* BUDGET_EXCEEDED before the call: the prepared rows are rolled back at once.
OutOfBudget(t) ==
    /\ pc[t] = "prepare"
    /\ HasArticles(work[t].event)
    /\ LockFree
    /\ Remaining = 0
    /\ pc' = [pc EXCEPT ![t] = "record"]
    /\ work' = [work EXCEPT ![t] = [@ EXCEPT !.verdict = "dead"]]
    /\ UNCHANGED <<environment, clusters, results, writer, todo, kind, history>>

\* The same ValueError as above, but after the job was committed as running.
PrepareRefusesEmpty(t) ==
    /\ pc[t] = "prepare"
    /\ ~HasArticles(work[t].event)
    /\ Abort(t)
    /\ UNCHANGED <<environment, clusters, results, writer, torn>>
-----------------------------------------------------------------------------
(***************************************************************************)
(* complete_model_analysis and what its outcome makes of the job.  Each    *)
(* action resumes a task whose call has returned; the loop must be free.   *)
(***************************************************************************)
Returned(t) == pc[t] = "calling" /\ LoopFree

\* Mutant: the prepared transaction is left open.
FailCallWithoutRollback(t, verdict, cost, charge) ==
    /\ pc' = [pc EXCEPT ![t] = "record"]
    /\ work' = [work EXCEPT ![t] =
                  [@ EXCEPT !.verdict = verdict, !.cost = cost, !.charge = charge]]
    /\ UNCHANGED <<environment, clusters, results, writer, todo, kind, history>>

\* Rolled back, the lock released; the failure is recorded in a new transaction.
FailCall(t, verdict, cost, charge) ==
    /\ writer' = NoTask
    /\ pc' = [pc EXCEPT ![t] = "record"]
    /\ work' = [work EXCEPT ![t] =
                  [@ EXCEPT !.replaced = {}, !.verdict = verdict,
                            !.cost = cost, !.charge = charge]]
    /\ UNCHANGED <<environment, clusters, results, todo, kind, history>>

\* LLMProviderError or httpx.HTTPError, from either call: no cost is recorded.
ProviderFails(t) ==
    /\ Returned(t)
    /\ FailCall(t, "retry_wait", work[t].cost, 0)

\* The reported usage exceeds the budget: checked before the content is parsed.
OverBudget(t) ==
    /\ Returned(t)
    /\ \E c \in 0 .. MaxCallCost :
        /\ work[t].cost + c > work[t].left
        /\ FailCall(t, "dead", work[t].cost + c, work[t].cost + c)

\* EVIDENCE_ID_INVALID from either call, or a second answer that breaks the schema.
ContractFails(t) ==
    /\ Returned(t)
    /\ \E c \in 0 .. MaxCallCost :
        /\ work[t].cost + c <= work[t].left
        /\ FailCall(t, "dead", work[t].cost + c, work[t].cost + c)

\* The first answer breaks the schema: one repair call, the lock still held.
Repair(t) ==
    /\ Returned(t)
    /\ work[t].attempt = 1
    /\ \E c \in 0 .. MaxCallCost :
        /\ work[t].cost + c <= work[t].left
        /\ work' = [work EXCEPT ![t] =
                      [@ EXCEPT !.attempt = 2, !.cost = work[t].cost + c]]
    /\ UNCHANGED <<environment, clusters, results, writer, pc, todo, kind, history>>

\* A valid answer: impacts, cost, report, notifications and job in one commit.
Publish(t) ==
    /\ Returned(t)
    /\ \E c \in 0 .. MaxCallCost :
        /\ work[t].cost + c <= work[t].left
        /\ spent' = [spent EXCEPT ![work[t].day] = @ + work[t].cost + c]
    /\ reports' = [reports EXCEPT ![work[t].event] =
                     WithReport(work[t].event, work[t].hash)]
    /\ current' = Committed(t)
    /\ job' = [job EXCEPT ![work[t].event] = [@ EXCEPT ![work[t].hash] = "succeeded"]]
    /\ torn' = torn \ {work[t].event}
    /\ writer' = NoTask
    /\ EventDone(t, work[t].event)
    /\ UNCHANGED <<environment, clusters, cut>>

\* The answer fits ModelAnalysisOutput, whose horizon and mechanism are free
\* strings, but not ReportContract: a ValueError no handler of the call catches.  A
\* pull rolls back and marks its source, every other request's session is closed.
Unreportable(t) ==
    /\ Returned(t)
    /\ writer' = NoTask
    /\ Abort(t)
    /\ UNCHANGED <<environment, clusters, results, torn>>

\* An exception of the call that no handler names (an answer whose message is no
\* object, llm.py:95) leaves the pull through its finally, which commits: the claims
\* and impacts of the preparation become current, without a report.
Escapes(t) ==
    /\ Returned(t)
    /\ kind[t] = "pull"
    /\ current' = Committed(t)
    /\ torn' = torn \cup {work[t].event}
    /\ writer' = NoTask
    /\ Abort(t)
    /\ UNCHANGED <<environment, clusters, reports, job, spent>>

\* Mutant: the failure is recorded as a run, the job is left as it was.
RecordFailureUnjudged(t) ==
    /\ pc[t] = "record"
    /\ LockFor(t)
    /\ current' = Committed(t)
    /\ spent' = [spent EXCEPT ![day] = @ + work[t].charge]
    /\ writer' = NoTask
    /\ EventDone(t, work[t].event)
    /\ UNCHANGED <<environment, clusters, reports, job, history>>

\* _record_llm_failure: the job's verdict and an AnalysisRun dated today, and with
\* them whatever the session still has to commit.
RecordFailure(t) ==
    /\ pc[t] = "record"
    /\ LockFor(t)
    /\ current' = Committed(t)
    /\ job' = [job EXCEPT ![work[t].event] =
                 [@ EXCEPT ![work[t].hash] = work[t].verdict]]
    /\ spent' = [spent EXCEPT ![day] = @ + work[t].charge]
    /\ writer' = NoTask
    /\ EventDone(t, work[t].event)
    /\ UNCHANGED <<environment, clusters, reports, history>>
-----------------------------------------------------------------------------
(***************************************************************************)
(* "database is locked": the loop is blocked for busy_timeout, then the    *)
(* statement fails.  If another task holds the lock this is the only way   *)
(* on, since its answer cannot be handled while the loop is blocked.       *)
(***************************************************************************)
NeedsLock(t, e) ==
    /\ ~Analysed(e)
    /\ \/ ~ByModel(t) /\ HasArticles(e)
       \/ ByModel(t) /\ ~Refused(t, e) /\ job[e][Hash(e)] # "running"

WaitsForLock(t) ==
    \/ pc[t] = "record"
    \/ pc[t] = "prepare" /\ HasArticles(work[t].event)
    \/ pc[t] = "next" /\ \E e \in todo[t] : NeedsLock(t, e)

\* Mutant: no busy_timeout, the statement tries again until it gets the lock.
LockWaitsForever(t) ==
    /\ WaitsForLock(t)
    /\ ~LockFor(t)
    /\ UNCHANGED vars

LockTimeout(t) ==
    /\ WaitsForLock(t)
    /\ ~LockFor(t)
    /\ Abort(t)
    /\ UNCHANGED <<environment, clusters, results, writer, torn>>

\* A thread-pool request (event lock, feedback, subscriptions, dispatch) writes.
ThreadBegins ==
    /\ LockFree
    /\ ~Seeding
    /\ writer' = Thread
    /\ UNCHANGED <<environment, clusters, results, tasks, history>>

ThreadEnds ==
    /\ writer = Thread
    /\ writer' = NoTask
    /\ UNCHANGED <<environment, clusters, results, tasks, history>>

NewDay ==
    /\ day < MaxDay
    /\ day' = day + 1
    /\ UNCHANGED <<mode, crashes, clusters, results, writer, tasks, history>>

\* SEED_DEMO is off, or some event of the demo exists.
NothingToSeed ==
    /\ pc' = [t \in Tasks |-> "idle"]
    /\ todo' = [t \in Tasks |-> {}]
    /\ kind' = [t \in Tasks |-> "pull"]
    /\ UNCHANGED clusters

\* seed_demo: the demo articles open events of their own, in one commit; then they
\* are analysed one after the other before the first request is served.
Seed(t) ==
    /\ demo = {}
    /\ DemoArticles # {}
    /\ \E place \in [DemoArticles -> Events] :
        LET seeded == {place[a] : a \in DemoArticles}
        IN  /\ \A e \in seeded : state[e] = "absent"
            /\ Ingested(DemoArticles, place, [a \in DemoArticles |-> 1])
            /\ demo' = seeded
            /\ pc' = [u \in Tasks |-> IF u = t THEN "next" ELSE "idle"]
            /\ todo' = [u \in Tasks |-> IF u = t THEN seeded ELSE {}]
            /\ kind' = [u \in Tasks |-> IF u = t THEN "seed" ELSE "pull"]

\* The process dies and is started again, perhaps with another provider.
Restart ==
    /\ crashes < MaxCrashes
    /\ crashes' = crashes + 1
    /\ mode' \in Modes
    /\ writer' = NoTask
    /\ work' = [t \in Tasks |-> NoWork]
    /\ cut' = cut \cup JobsOf(Tasks)
    /\ NothingToSeed \/ \E t \in Tasks : Seed(t)
    /\ UNCHANGED <<day, results, torn>>
-----------------------------------------------------------------------------
Request(t) == Ingest(t) \/ Merge(t) \/ Split(t) \/ Reanalyze(t)

\* What a task does on the loop between two awaits.
Advance(t) ==
    \/ Finish(t)
    \/ \E e \in Events :
        \/ ReuseReport(t, e)
        \/ AnalyzeDeterministic(t, e)
        \/ DeterministicRefusesEmpty(t, e)
        \/ SkipDeadJob(t, e)
        \/ StartJob(t, e)
    \/ Prepare(t)
    \/ OutOfBudget(t)
    \/ PrepareRefusesEmpty(t)
    \/ RecordFailure(t)
    \/ LockTimeout(t)

\* What a task does when its model call returns.
Resume(t) ==
    \/ ProviderFails(t)
    \/ OverBudget(t)
    \/ ContractFails(t)
    \/ Repair(t)
    \/ Publish(t)
    \/ Unreportable(t)
    \/ Escapes(t)

Next ==
    \/ \E t \in Tasks : Request(t) \/ Advance(t) \/ Resume(t)
    \/ ThreadBegins
    \/ ThreadEnds
    \/ NewDay
    \/ Restart

Spec == Init /\ [][Next]_vars

(***************************************************************************)
(* Fairness.  A task that has the loop runs on, because every lock wait    *)
(* ends at busy_timeout; thread-pool requests end; a call returns, because *)
(* httpx bounds it by llm_timeout_seconds, and its task resumes although   *)
(* other requests keep taking the loop, because the loop's ready queue is  *)
(* first in, first out (strong fairness).  Nothing obliges anybody to send *)
(* requests, to write from a thread, to restart, or the day to end.        *)
(***************************************************************************)
Fairness ==
    /\ \A t \in Tasks : WF_vars(Advance(t)) /\ SF_vars(Resume(t))
    /\ WF_vars(ThreadEnds)

FairSpec == Spec /\ Fairness
-----------------------------------------------------------------------------
(***************************************************************************)
(* Properties                                                              *)
(***************************************************************************)
\* Every variable keeps its type; the models' one type invariant.
TypeOK ==
    /\ mode \in Modes
    /\ day \in Days
    /\ crashes \in 0 .. MaxCrashes
    /\ home \in [Articles -> Events \cup {Nowhere}]
    /\ revision \in [Articles -> Revisions]
    /\ state \in [Events -> {"absent", "active", "merged"}]
    /\ demo \subseteq Events
    /\ reports \in [Events -> Seq(Hashes)]
    /\ current \in [Events -> Hashes \cup {NoHash}]
    /\ job \in [Events -> [Hashes -> JobStatus]]
    /\ spent \in [Days -> Nat]
    /\ writer \in Tasks \cup {NoTask, Thread}
    /\ pc \in [Tasks -> {"idle", "next", "prepare", "calling", "record"}]
    /\ todo \in [Tasks -> SUBSET Events]
    /\ kind \in [Tasks -> Kinds]
    /\ work \in [Tasks -> WorkItem \cup {NoWork}]
    /\ cut \subseteq Events \X Hashes
    /\ torn \subseteq Events

\* What event_detail shows is one analysis: the newest report version of an event
\* and its current claims and impacts were computed from the same input.  A failed
\* call has replaced those rows before it was made and no later commit of its session
\* may publish them; the one commit that does is that of a pull which an exception
\* leaves during the call (Escapes), until the event is analysed again.
ReadersSeeOneAnalysis ==
    \A e \in Events \ torn :
        current[e] = IF reports[e] = <<>> THEN NoHash ELSE reports[e][Len(reports[e])]

\* No evidence state of an event is analysed into two report versions, even by two
\* requests that both found no report for it (analyze_event_configured reads first
\* and writes after the call).
OneReportPerInput ==
    \A e \in Events : \A i, j \in DOMAIN reports[e] :
        reports[e][i] = reports[e][j] => i = j

\* Never two model calls in flight: the budget is read before a call and charged
\* after it, so concurrent calls would both spend what one of them may.
OneCallAtATime ==
    \A t, u \in Tasks : pc[t] = "calling" /\ pc[u] = "calling" => t = u

\* A day's recorded cost passes the daily budget by at most one call, counting the
\* repair call, failed calls, and calls that began before midnight.
BudgetBound ==
    \A d \in Days : spent[d] <= DailyBudget + MaxCallCost

\* Job rows and report versions agree: a job is "succeeded" only if its input has a
\* report, and every report of a model's input was settled through its job, except
\* those a start wrote for the demo, which never get one.  So a settled analysis is
\* never reopened or paid for again, and no verdict overwrites another's.
JobsMatchReports ==
    \A e \in Events : \A h \in Hashes :
        /\ job[e][h] = "succeeded" => h \in Reported(e) /\ h[2] = OpenAI
        /\ h \in Reported(e) /\ h[2] = OpenAI =>
              job[e][h] = "succeeded" \/ (job[e][h] = "none" /\ e \in demo)

\* A job row says "running" only while a task works on it, or after its analysis was
\* cut off: by a crash, "database is locked", an event that lost its articles, or an
\* exception nobody handles.  Every other way out of an analysis settles the job.
OnlyCutJobsStayRunning ==
    \A e \in Events : \A h \in Hashes :
        job[e][h] = "running" => <<e, h>> \in cut \cup JobsOf(Tasks)

\* Only an explicit reanalysis of the event takes a job out of "dead".
DeadNeedsOperator ==
    [][\A e \in Events : \A h \in Hashes :
          job[e][h] = "dead" /\ job'[e][h] # "dead"
          => \E t \in Tasks : kind[t] = "retry" /\ e \in todo[t]]_vars

\* The report versions implement the ledger the readers are promised: each is
\* computed from the evidence present when it is committed, once, and stays.
Ledger == INSTANCE ReportLedger
              WITH evidence <- [e \in Events |-> Hash(e)], ledger <- reports
ImplementsLedger == Ledger!Spec

\* Every request ends: the loop is never stuck behind the write lock of a task
\* that itself needs the loop to go on.
RequestsEnd == \A t \in Tasks : pc[t] # "idle" ~> pc[t] = "idle"

(***************************************************************************)
(* What the documents say and the code does not do                         *)
(***************************************************************************)
\* docs/RELEASE_ACCEPTANCE_MATRIX.md:63: "report versions follow changed event
\* evidence".  When an event has been analysed, its latest report is of its input.
ReportFollowsEvidence ==
    [][\A t \in Tasks : \A e \in todo[t] :
          e \notin todo'[t] /\ pc'[t] = "next" /\ Analysed(e)'
          => Hash(e)' \in LatestReported(e)']_vars
-----------------------------------------------------------------------------
(***************************************************************************)
(* The inductive invariant behind the safety properties                    *)
(***************************************************************************)
\* The write lock is held across an await only by the task whose call is out.
LockInv == \A t \in Tasks : writer = t <=> pc[t] = "calling"

\* Claims and impacts are replaced in the transaction of the call, nowhere else.
RowsInv ==
    \A t \in Tasks : Working(t) =>
        work[t].replaced = IF pc[t] = "calling" THEN {work[t].event} ELSE {}

\* A start that seeds has the loop, and its events have no job.
SeedInv ==
    \A t \in Tasks : kind[t] = "seed" =>
        /\ pc[t] = "next"
        /\ todo[t] \subseteq demo
        /\ \A e \in todo[t] : job[e][Hash(e)] = "none"

\* Before it, neither the events nor the jobs know the articles of the demo.
UnseededInv ==
    demo = {} => \A a \in DemoArticles :
        /\ home[a] = Nowhere
        /\ \A e \in Events, h \in Hashes : job[e][h] # "none" => h[1][a] = 0

\* One task at a time is between two awaits.
LoopInv == \A t, u \in Tasks : OnLoop(t) /\ OnLoop(u) => t = u

\* The input a task read still is the event's input, is not reported yet, and no
\* other task has settled its job.
InputInv ==
    \A t \in Tasks : Working(t) =>
        /\ work[t] \in WorkItem
        /\ work[t].hash = Hash(work[t].event)
        /\ work[t].hash \notin Reported(work[t].event)
        /\ job[work[t].event][work[t].hash] = "running"
        /\ mode = OpenAI

\* What a call may still add to a day fits the bound.
CostInv ==
    \A t \in Tasks :
        /\ pc[t] = "prepare" => work[t].cost = 0 /\ work[t].charge = 0
        /\ pc[t] = "calling" =>
              /\ work[t].cost <= work[t].left
              /\ work[t].left <= DailyBudget
              /\ work[t].day <= day
              /\ spent[work[t].day] + work[t].left <= DailyBudget
              /\ \A d \in Days : d > work[t].day => spent[d] = 0
        /\ pc[t] = "record" =>
              /\ work[t].verdict \in {"retry_wait", "dead"}
              /\ spent[day] + work[t].charge <= DailyBudget + MaxCallCost

FutureUnspent == \A d \in Days : d > day => spent[d] = 0

IInv ==
    /\ TypeOK
    /\ LockInv
    /\ LoopInv
    /\ InputInv
    /\ RowsInv
    /\ SeedInv
    /\ UnseededInv
    /\ CostInv
    /\ FutureUnspent
    /\ BudgetBound
    /\ ReadersSeeOneAnalysis
    /\ OneReportPerInput
    /\ JobsMatchReports
    /\ OnlyCutJobsStayRunning
=============================================================================
