---------------------------- MODULE Notifications ----------------------------
(***************************************************************************)
(* The e-mail queue of apps/analysis_api/news_claws/notifications.py.      *)
(* Every report version queues one notification per matching subscription, *)
(* in the transaction that commits the report.  A dispatch takes a batch,  *)
(* mails it and commits what became of it at the end; it runs in a thread  *)
(* of the scheduler and in a thread of every POST /notifications/dispatch. *)
(*                                                                         *)
(* A dispatch works on rows it read at its start.  It takes SQLite's write *)
(* lock late: by autoflush, at the first report it loads after it marked a *)
(* notification, or by its commit; and then mails on with the lock held.   *)
(* If it cannot get the lock within busy_timeout all its marks are lost,   *)
(* the mails are not.                                                      *)
(*                                                                         *)
(* Abstracted: which subscriptions a report matches is any set of enabled  *)
(* ones; the clock is "today" and who has reached the digest hour.         *)
(***************************************************************************)
EXTENDS Integers, FiniteSets, SequencesExt

CONSTANTS
    Reports,      \* report versions
    Addresses,    \* e-mail addresses, by target_hash
    Subscribers,  \* subscription rows
    NoSubscription, \* a row that was not created, an address nobody enabled has
    Dispatchers,  \* threads that may run a dispatch
    NoRun,        \* the thread runs none
    Free,         \* the write lock is free
    Elsewhere,    \* it is held by another request or an analysis
    BatchSize,    \* settings.notification_batch_size
    MaxAttempts,  \* MAX_NOTIFICATION_ATTEMPTS
    MaxEdits,     \* bound: changes of subscriptions
    MaxLosses,    \* bound: lost outcomes of mails
    MaxOverlaps   \* bound: dispatches begun while another was under way

ASSUME NotificationNames ==
    /\ NoSubscription \notin Subscribers
    /\ Free \notin Dispatchers
    /\ Elsewhere \notin Dispatchers
    /\ Free # Elsewhere

ASSUME NotificationBounds ==
    /\ BatchSize \in Nat \ {0}
    /\ MaxAttempts \in Nat \ {0}
    /\ MaxEdits \in Nat
    /\ MaxLosses \in Nat
    /\ MaxOverlaps \in Nat
    /\ IsFiniteSet(Subscribers)
    /\ IsFiniteSet(Dispatchers)

\* idempotency_key: one notification per report and address.
Notes == Reports \X Addresses
To(n) == n[2]

Subscription ==
    [email : Addresses, enabled : BOOLEAN, frequency : {"immediate", "daily"}]

\* What a dispatch does with the notifications of an address: the subscription
\* and whether it mails each, one digest, or nothing before the digest is due.
Route == [who : Subscribers, how : {"each", "digest", "later"}]

Row == [status : {"none", "pending", "retry_wait", "sent", "dead"},
        attempts : 0 .. MaxAttempts]

VARIABLES
    (* committed rows *)
    queue,     \* notifications, oldest first
    row,       \* row[n]: status and attempts of the notification
    sub,       \* sub[s]: the subscription
    sentToday, \* sentToday[s]: last_sent_at is of today
    (* running service *)
    writer,    \* who holds the write lock
    run,       \* run[d]: the dispatch under way in thread d
    (* environment *)
    reached,   \* subscriptions whose digest hour has come today
    edits,     \* changes of subscriptions so far
    losses,    \* lost outcomes: dispatches ended by a crash or a lock timeout, and mails
               \* taken by the server whose sender raised all the same
    overlaps,  \* dispatches begun while another was under way, so far
    mailed,    \* mailed[n]: mails the SMTP server has accepted for n
    digests    \* digests[s]: digests of today it has accepted for s

rows == <<queue, row, sub, sentToday>>
world == <<reached, edits, losses, overlaps>>
mails == <<mailed, digests>>
vars == <<queue, row, sub, sentToday, writer, run, reached, edits, losses, overlaps,
          mailed, digests>>

\* A dispatch: what it read at its start and what it has marked since.
Run ==
    [batch   : SUBSET Notes,                   \* the notifications it selected
     rest    : SUBSET Notes,                   \* those not handled yet
     seen    : [Notes -> Row],                 \* the rows as it read them
     route   : [Addresses -> Route \cup {NoSubscription}],
     today   : BOOLEAN,                        \* current_time is of today
     sent    : SUBSET Notes,                   \* marked by _mark_sent
     failed  : SUBSET Notes,                   \* marked by _mark_failure
     stamped : SUBSET Subscribers]             \* last_sent_at was set

ASSUME NotificationRecords ==
    /\ NoRun \notin Run
    /\ NoSubscription \notin Subscription \cup Route
-----------------------------------------------------------------------------
Init ==
    /\ queue = <<>>
    /\ row = [n \in Notes |-> [status |-> "none", attempts |-> 0]]
    /\ sub = [s \in Subscribers |-> NoSubscription]
    /\ sentToday = [s \in Subscribers |-> FALSE]
    /\ writer = Free
    /\ run = [d \in Dispatchers |-> NoRun]
    /\ reached = {}
    /\ edits = 0
    /\ losses = 0
    /\ overlaps = 0
    /\ mailed = [n \in Notes |-> 0]
    /\ digests = [s \in Subscribers |-> 0]

LockFree == writer = Free
Enabled(s) == sub[s] # NoSubscription /\ sub[s].enabled

\* Mutant: dead notifications are tried again.
OpenOrDead(n) == row[n].status \in {"pending", "retry_wait", "dead"}
\* Mutant: sent notifications are mailed again.
OpenOrSent(n) == row[n].status \in {"pending", "retry_wait", "sent"}

\* A dispatch selects it.
Open(n) == row[n].status \in {"pending", "retry_wait"}

\* created_at
Age(n) == CHOOSE i \in DOMAIN queue : queue[i] = n

\* The oldest open notifications, at most a batch of them.
Batch ==
    LET open == {n \in ToSet(queue) : Open(n)}
    IN  {n \in open : Cardinality({m \in open : Age(m) < Age(n)}) < BatchSize}

\* grouped: address by address, in the order of their oldest notification.
Since(d, a) == Min({Age(n) : n \in {m \in run[d].batch : To(m) = a}})
Turn(d, n) ==
    /\ n \in run[d].rest
    /\ \A m \in run[d].rest :
        IF To(m) = To(n) THEN Age(n) <= Age(m) ELSE Since(d, To(n)) < Since(d, To(m))

\* _daily_is_due decides between a digest and nothing.
RouteOf(s) ==
    [who |-> s,
     how |-> IF sub[s].frequency = "immediate" THEN "each"
             ELSE IF s \in reached /\ ~sentToday[s] THEN "digest"
             ELSE "later"]

\* The enabled subscription of the address; e-mail addresses are unique.
RouteTo(a) ==
    IF \E s \in Subscribers : Enabled(s) /\ sub[s].email = a
    THEN RouteOf(CHOOSE s \in Subscribers : Enabled(s) /\ sub[s].email = a)
    ELSE NoSubscription
-----------------------------------------------------------------------------
(***************************************************************************)
(* Requests of others                                                      *)
(***************************************************************************)
\* persist_report and queue_report_notifications: each report once, one
\* notification per matching enabled subscription.
Publish(r) ==
    /\ LockFree
    /\ \A a \in Addresses : row[<<r, a>>].status = "none"
    /\ \E matching \in SUBSET {s \in Subscribers : Enabled(s)} \ {{}} :
       \E order \in SetToSeqs({<<r, sub[s].email>> : s \in matching}) :
        /\ queue' = queue \o order
        /\ row' = [n \in Notes |->
              IF n \in ToSet(order) THEN [row[n] EXCEPT !.status = "pending"] ELSE row[n]]
    /\ UNCHANGED <<sub, sentToday, writer, run, world, mails>>

\* create_subscription, update_subscription, api_disable_subscription: only the
\* columns given change, and last_sent_at never is one of them.
EditSubscription(s) ==
    /\ LockFree
    /\ edits < MaxEdits
    /\ \E new \in Subscription :
        /\ \A t \in Subscribers \ {s} : sub[t] # NoSubscription => sub[t].email # new.email
        /\ new # sub[s]
        /\ sub' = [sub EXCEPT ![s] = new]
    /\ edits' = edits + 1
    /\ UNCHANGED <<queue, row, sentToday, writer, run, reached, losses, overlaps, mails>>

\* An analysis or another request holds the write lock for a while.
ElsewhereBegins ==
    /\ LockFree
    /\ writer' = Elsewhere
    /\ UNCHANGED <<rows, run, world, mails>>

ElsewhereEnds ==
    /\ writer = Elsewhere
    /\ writer' = Free
    /\ UNCHANGED <<rows, run, world, mails>>

\* digest_hour_utc of the subscription has come.
HourStrikes(s) ==
    /\ s \notin reached
    /\ reached' = reached \cup {s}
    /\ UNCHANGED <<rows, writer, run, edits, losses, overlaps, mails>>

\* Midnight: what was today is an earlier day, also in a dispatch under way.
NewDay ==
    /\ reached = Subscribers
    /\ reached' = {}
    /\ sentToday' = [s \in Subscribers |-> FALSE]
    /\ digests' = [s \in Subscribers |-> 0]
    /\ run' = [d \in Dispatchers |->
          IF run[d] = NoRun THEN NoRun ELSE [run[d] EXCEPT !.today = FALSE]]
    /\ UNCHANGED <<queue, row, sub, writer, edits, losses, overlaps, mailed>>
-----------------------------------------------------------------------------
(***************************************************************************)
(* dispatch_pending_notifications                                          *)
(***************************************************************************)
Begin(d) ==
    /\ run[d] = NoRun
    /\ Batch # {}
    /\ run' = [run EXCEPT ![d] =
          [batch |-> Batch, rest |-> Batch, seen |-> row,
           route |-> [a \in Addresses |-> RouteTo(a)],
           today |-> TRUE, sent |-> {}, failed |-> {}, stamped |-> {}]]
    /\ overlaps' = IF \A e \in Dispatchers : run[e] = NoRun THEN overlaps ELSE overlaps + 1
    /\ overlaps' <= MaxOverlaps
    /\ UNCHANGED <<rows, writer, reached, edits, losses, mails>>

\* The dispatch of d handles the notifications of address a next, as its route says.
AtAddress(d, a) ==
    /\ run[d] # NoRun
    /\ \E n \in run[d].rest : Turn(d, n) /\ To(n) = a
AtRoute(d, a, how) ==
    /\ AtAddress(d, a)
    /\ run[d].route[a] # NoSubscription
    /\ run[d].route[a].how = how

GroupOf(d, a) == {n \in run[d].rest : To(n) = a}
Without(d, a) == run[d].rest \ GroupOf(d, a)

Dirty(d) == run[d].sent \cup run[d].failed # {}
\* Loading reports flushes the marks made so far, for which the lock must be ours,
\* unless the session still has those reports from notifications it has handled.
MayLoad(d, notes) ==
    \/ Dirty(d) => writer = d
    \/ \A n \in notes : \E m \in run[d].sent \cup run[d].failed : m[1] = n[1]

\* "Subscription is unavailable or disabled": an attempt of each that failed.
Unroutable(d, a) ==
    /\ AtAddress(d, a)
    /\ run[d].route[a] = NoSubscription
    /\ run' = [run EXCEPT ![d] =
          [@ EXCEPT !.rest = Without(d, a), !.failed = run[d].failed \cup GroupOf(d, a)]]
    /\ UNCHANGED <<rows, writer, world, mails>>

Defer(d, a) ==
    /\ AtRoute(d, a, "later")
    /\ run' = [run EXCEPT ![d] = [@ EXCEPT !.rest = Without(d, a)]]
    /\ UNCHANGED <<rows, writer, world, mails>>

\* Mutant: last_sent_at is left alone.
AcceptedUnstamped(d, a, notes, rest) ==
    /\ run' = [run EXCEPT ![d] =
          [@ EXCEPT !.rest = rest, !.sent = run[d].sent \cup notes]]
    /\ mailed' = [n \in Notes |-> IF n \in notes THEN mailed[n] + 1 ELSE mailed[n]]
    /\ UNCHANGED losses

\* The SMTP server takes the mail: _mark_sent and last_sent_at.
Accepted(d, a, notes, rest) ==
    /\ run' = [run EXCEPT ![d] =
          [@ EXCEPT !.rest = rest, !.sent = run[d].sent \cup notes,
                    !.stamped = run[d].stamped \cup {run[d].route[a].who}]]
    /\ mailed' = [n \in Notes |-> IF n \in notes THEN mailed[n] + 1 ELSE mailed[n]]
    /\ UNCHANGED losses

\* Mutant: the notifications are marked as sent before the mail is.
RejectedButSent(d, notes, rest) ==
    /\ run' = [run EXCEPT ![d] =
          [@ EXCEPT !.rest = rest, !.sent = run[d].sent \cup notes]]
    /\ UNCHANGED <<mails, losses>>

\* _mark_failure: the sender has raised.
Failed(d, notes, rest) ==
    run' = [run EXCEPT ![d] =
          [@ EXCEPT !.rest = rest, !.failed = run[d].failed \cup notes]]

\* It raised before the server took the mail.
Rejected(d, notes, rest) ==
    /\ Failed(d, notes, rest)
    /\ UNCHANGED <<mails, losses>>

\* It raised after that: no reply to DATA within the timeout, or a QUIT refused.
AcceptedUnheard(d, notes, rest) ==
    /\ losses < MaxLosses
    /\ losses' = losses + 1
    /\ Failed(d, notes, rest)
    /\ mailed' = [n \in Notes |-> IF n \in notes THEN mailed[n] + 1 ELSE mailed[n]]

\* A digest the server takes, if the day it is of is still today.
DigestOf(s, today) == [digests EXCEPT ![s] = IF today THEN @ + 1 ELSE @]

\* One digest of all the notifications of the address in the batch.
SendDigest(d, a) ==
    /\ AtRoute(d, a, "digest")
    /\ MayLoad(d, GroupOf(d, a))
    /\ \/ /\ \/ Accepted(d, a, GroupOf(d, a), Without(d, a))
             \/ AcceptedUnheard(d, GroupOf(d, a), Without(d, a))
          /\ digests' = DigestOf(run[d].route[a].who, run[d].today)
       \/ Rejected(d, GroupOf(d, a), Without(d, a))
    /\ UNCHANGED <<rows, writer, reached, edits, overlaps>>

\* One mail of the next notification.
SendOne(d, a) ==
    /\ AtRoute(d, a, "each")
    /\ \E n \in run[d].rest :
        /\ Turn(d, n)
        /\ MayLoad(d, {n})
        /\ \/ /\ \/ Accepted(d, a, {n}, run[d].rest \ {n})
                 \/ AcceptedUnheard(d, {n}, run[d].rest \ {n})
              /\ UNCHANGED digests
           \/ Rejected(d, {n}, run[d].rest \ {n})
    /\ UNCHANGED <<rows, writer, reached, edits, overlaps>>

\* The next report to load, or the commit, needs the lock for the marks.
NeedsLock(d) ==
    /\ run[d] # NoRun
    /\ Dirty(d)
    /\ writer # d
    /\ \/ run[d].rest = {}
       \/ \E a \in Addresses : AtRoute(d, a, "digest") \/ AtRoute(d, a, "each")

Flush(d) ==
    /\ NeedsLock(d)
    /\ LockFree
    /\ writer' = d
    /\ UNCHANGED <<rows, run, world, mails>>

\* "database is locked": the session is rolled back, all marks are lost.
LockTimeout(d) ==
    /\ NeedsLock(d)
    /\ ~LockFree
    /\ losses < MaxLosses
    /\ losses' = losses + 1
    /\ run' = [run EXCEPT ![d] = NoRun]
    /\ UNCHANGED <<rows, writer, reached, edits, overlaps, mails>>

\* Mutant: one attempt too many before a notification is dead.
MarkedLate(d, n) ==
    LET seen == run[d].seen[n]
        tries == seen.attempts + 1
        new == IF n \in run[d].sent THEN "sent"
               ELSE IF tries > MaxAttempts THEN "dead"
               ELSE "retry_wait"
    IN  [status |-> IF new = seen.status THEN row[n].status ELSE new, attempts |-> tries]

\* Mutant: failed attempts are not counted.
MarkedUncounted(d, n) ==
    [status |-> IF n \in run[d].sent THEN "sent" ELSE "retry_wait",
     attempts |-> run[d].seen[n].attempts]

\* The row the session writes for a marked notification: only columns that differ
\* from the row it read.
Marked(d, n) ==
    LET seen == run[d].seen[n]
        tries == seen.attempts + 1
        new == IF n \in run[d].sent THEN "sent"
               ELSE IF tries >= MaxAttempts THEN "dead"
               ELSE "retry_wait"
    IN  [status |-> IF new = seen.status THEN row[n].status ELSE new, attempts |-> tries]

Commit(d) ==
    /\ run[d] # NoRun
    /\ run[d].rest = {}
    /\ Dirty(d) => writer = d
    /\ row' = [n \in Notes |->
          IF n \in run[d].sent \cup run[d].failed THEN Marked(d, n) ELSE row[n]]
    /\ sentToday' = [s \in Subscribers |->
          IF s \in run[d].stamped THEN run[d].today ELSE sentToday[s]]
    /\ writer' = IF writer = d THEN Free ELSE writer
    /\ run' = [run EXCEPT ![d] = NoRun]
    /\ UNCHANGED <<queue, sub, world, mails>>

\* The process dies in the middle of a dispatch and is started again.
Crash ==
    /\ losses < MaxLosses
    /\ \E d \in Dispatchers : run[d] # NoRun
    /\ losses' = losses + 1
    /\ run' = [d \in Dispatchers |-> NoRun]
    /\ writer' = Free
    /\ UNCHANGED <<rows, reached, edits, overlaps, mails>>
-----------------------------------------------------------------------------
Work(d) ==
    \/ \E a \in Addresses : Unroutable(d, a) \/ Defer(d, a) \/ SendDigest(d, a) \/ SendOne(d, a)
    \/ Flush(d)
    \/ LockTimeout(d)
    \/ Commit(d)

Next ==
    \/ \E r \in Reports : Publish(r)
    \/ \E s \in Subscribers : EditSubscription(s) \/ HourStrikes(s)
    \/ \E d \in Dispatchers : Begin(d) \/ Work(d)
    \/ ElsewhereBegins
    \/ ElsewhereEnds
    \/ NewDay
    \/ Crash

Spec == Init /\ [][Next]_vars

(***************************************************************************)
(* Fairness.  The scheduler dispatches after every collection cycle, so    *)
(* dispatches begin again and again.  A dispatch runs to its end, since    *)
(* smtplib has a timeout, and gets the lock in the end, since losses are   *)
(* bounded here; others release the lock; time passes.                     *)
(*                                                                         *)
(* What no scheduling of the code guarantees is assumed apart: as long as  *)
(* something is queued, some dispatches begin after the last digest hour   *)
(* of a day.  It takes cycles shorter than what that hour leaves of the    *)
(* day (SCHEDULER_INTERVAL_SECONDS is 900 by default, 86400 at most).      *)
(***************************************************************************)
Fairness ==
    /\ \A d \in Dispatchers : WF_vars(Begin(d)) /\ WF_vars(Work(d)) /\ SF_vars(Flush(d))
    /\ WF_vars(ElsewhereEnds)
    /\ \A s \in Subscribers : WF_vars(HourStrikes(s))
    /\ WF_vars(NewDay)

BeginLate == reached = Subscribers /\ \E d \in Dispatchers : Begin(d)
CyclesFitTheDay == []<>(Batch = {}) \/ []<><<BeginLate>>_vars

FairSpec == Spec /\ Fairness /\ CyclesFitTheDay
-----------------------------------------------------------------------------
(***************************************************************************)
(* Properties                                                              *)
(***************************************************************************)
\* Every variable keeps its type.
TypeOK ==
    /\ queue \in Seq(Notes)
    /\ row \in [Notes -> Row]
    /\ sub \in [Subscribers -> Subscription \cup {NoSubscription}]
    /\ sentToday \in [Subscribers -> BOOLEAN]
    /\ writer \in Dispatchers \cup {Free, Elsewhere}
    /\ run \in [Dispatchers -> Run \cup {NoRun}]
    /\ reached \in SUBSET Subscribers
    /\ edits \in 0 .. MaxEdits
    /\ losses \in 0 .. MaxLosses
    /\ overlaps \in 0 .. MaxOverlaps
    /\ mailed \in [Notes -> Nat]
    /\ digests \in [Subscribers -> Nat]

\* A notification is recorded as sent only if the SMTP server took a mail of it,
\* whatever dispatches overlap, fail or are lost.
SentWasMailed ==
    \A n \in Notes : row[n].status = "sent" => mailed[n] > 0

\* Every duplicate of a mail is paid for: by a lost outcome, that is a dispatch cut
\* off between the mail and the commit of its marks or a sender that raised although
\* the server had taken the mail, or by a dispatch that began while another was under
\* way and worked on the same rows.
DuplicatesNeedLoss ==
    \A n \in Notes : mailed[n] <= 1 + losses + overlaps

\* A subscription gets one digest a day, whatever its backlog and its edits, and one
\* more only for a lost outcome (the sender of a digest that arrived may raise) or for
\* a dispatch that overlapped another.
OneDigestPerDay ==
    \A s \in Subscribers : digests[s] <= 1 + losses + overlaps

\* One dispatcher: what is sent or given up is never mailed or changed again.
SettledIsFinal ==
    [][\A n \in Notes :
          row[n].status \in {"sent", "dead"} =>
             row'[n] = row[n] /\ mailed'[n] = mailed[n]]_vars

\* Every queued notification is sent or given up in the end: deferred digests at
\* the head of the queue do not keep the batch full for ever.
EveryoneIsSettled ==
    \A n \in Notes : Open(n) ~> row[n].status \in {"sent", "dead"}
=============================================================================
