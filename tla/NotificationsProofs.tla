------------------------- MODULE NotificationsProofs -------------------------
(***************************************************************************)
(* Proofs about Notifications, for any reports, addresses, subscriptions,  *)
(* dispatchers and bounds.                                                 *)
(***************************************************************************)
EXTENDS Notifications, SequenceTheorems, FiniteSetTheorems, TLAPS

(***************************************************************************)
(* The invariant                                                           *)
(***************************************************************************)
Settled == {"sent", "dead"}

\* Dispatches under way.
Active == {d \in Dispatchers : run[d] # NoRun}

\* What a dispatch handles is of the batch it selected, each notification once.
RunInv ==
    \A d \in Active :
        /\ run[d].rest \cup run[d].sent \cup run[d].failed \subseteq run[d].batch
        /\ run[d].rest \cap (run[d].sent \cup run[d].failed) = {}
        /\ \A n \in run[d].batch :
            /\ run[d].seen[n].status \in {"pending", "retry_wait"}
            /\ run[d].seen[n].attempts < MaxAttempts
        /\ \A n \in run[d].sent : mailed[n] > 0

\* Every address it mails has a subscription of its own, which gets one digest.
RouteInv ==
    \A d \in Active : \A a \in Addresses : run[d].route[a] # NoSubscription =>
        /\ \A b \in Addresses :
            run[d].route[b] # NoSubscription /\ run[d].route[b].who = run[d].route[a].who => a = b
        /\ run[d].route[a].how = "digest" /\ run[d].route[a].who \in run[d].stamped
              => \A n \in run[d].rest : To(n) # a

RowInv ==
    \A n \in Notes :
        /\ row[n].status \notin Settled => row[n].attempts < MaxAttempts
        /\ row[n].status = "sent" => mailed[n] > 0

\* All dispatches but one have begun while another was under way.
ActiveInv == Cardinality(Active) <= 1 + overlaps

\* A mail of n is owed to the dispatches that found n open and have not mailed it, or
\* to the next one, if there is none and n is still open.  What is mailed or owed is
\* within what losses and overlaps account for.
Finders(n) == {d \in Active : run[d].seen[n].status \notin Settled}
Mailers(n) == {d \in Finders(n) : n \notin run[d].sent}
Waits(n) == Finders(n) = {} /\ row[n].status \notin Settled

One(condition) == IF condition THEN 1 ELSE 0
Owed(n) == Cardinality(Mailers(n)) + One(Waits(n))

MailInv == \A n \in Notes : mailed[n] + Owed(n) <= 1 + losses + overlaps

\* So with the digests of s today: a dispatch of an earlier day counts too, since its
\* commit may set last_sent_at back.
Digests(d, s) ==
    \E a \in Addresses : /\ run[d].route[a] # NoSubscription
                         /\ run[d].route[a].who = s
                         /\ run[d].route[a].how = "digest"
Concerned(s) == {d \in Active : ~run[d].today \/ Digests(d, s)}
Senders(s) == {d \in Active : ~run[d].today \/ (Digests(d, s) /\ s \notin run[d].stamped)}
IsDue(s) == Concerned(s) = {} /\ ~sentToday[s]
OwedToday(s) == Cardinality(Senders(s)) + One(IsDue(s))

DayInv == \A s \in Subscribers : digests[s] + OwedToday(s) <= 1 + losses + overlaps

NInv == TypeOK /\ RunInv /\ RouteInv /\ RowInv /\ ActiveInv /\ MailInv /\ DayInv
-----------------------------------------------------------------------------
(***************************************************************************)
(* Finite sets, and the accounts kept of them                              *)
(***************************************************************************)
LEMMA ActiveIsFinite == IsFiniteSet(Active) /\ Cardinality(Active) \in Nat
<1>1. IsFiniteSet(Active)
  BY NotificationBounds, FS_Subset DEF Active
<1> QED BY <1>1, FS_CardinalityType

\* One member more or less.
LEMMA Join ==
    ASSUME NEW S, IsFiniteSet(S), NEW d, d \notin S
    PROVE  Cardinality(S \cup {d}) = Cardinality(S) + 1 /\ Cardinality(S) \in Nat
BY FS_AddElement, FS_CardinalityType

\* A finite set without one of its members counts one less.
LEMMA Part ==
    ASSUME NEW S, IsFiniteSet(S), NEW d
    PROVE  /\ Cardinality(S) \in Nat /\ Cardinality(S \ {d}) \in Nat
           /\ d \in S => Cardinality(S \ {d}) = Cardinality(S) - 1
           /\ d \notin S => S \ {d} = S
<1>1. Cardinality(S) \in Nat
  BY FS_CardinalityType
<1>2. /\ IsFiniteSet(S \ {d})
      /\ Cardinality(S \ {d}) = IF d \in S THEN Cardinality(S) - 1 ELSE Cardinality(S)
  BY FS_RemoveElement
<1>3. Cardinality(S \ {d}) \in Nat
  BY <1>2, FS_CardinalityType
<1> QED BY <1>1, <1>2, <1>3

\* A subset of a finite set counts no more.
LEMMA Fewer ==
    ASSUME NEW S, IsFiniteSet(S), NEW T, T \subseteq S
    PROVE  Cardinality(T) \in Nat /\ Cardinality(S) \in Nat /\ Cardinality(T) <= Cardinality(S)
BY FS_Subset, FS_CardinalityType

\* The accounts are of finite sets.
LEMMA Accounts ==
    ASSUME NEW n \in Notes, NEW s \in Subscribers
    PROVE  /\ IsFiniteSet(Mailers(n)) /\ Cardinality(Mailers(n)) \in Nat
           /\ IsFiniteSet(Senders(s)) /\ Cardinality(Senders(s)) \in Nat
           /\ One(Waits(n)) \in {0, 1} /\ One(IsDue(s)) \in {0, 1}
<1>1. Mailers(n) \subseteq Active /\ Senders(s) \subseteq Active
  BY DEF Mailers, Finders, Senders
<1>2. IsFiniteSet(Mailers(n)) /\ IsFiniteSet(Senders(s))
  BY <1>1, ActiveIsFinite, FS_Subset
<1>3. Cardinality(Mailers(n)) \in Nat /\ Cardinality(Senders(s)) \in Nat
  BY <1>2, FS_CardinalityType
<1> QED BY <1>2, <1>3 DEF One
-----------------------------------------------------------------------------
(***************************************************************************)
(* The kinds of steps                                                      *)
(***************************************************************************)
\* No dispatch is concerned; a notification may be queued.
Quiet ==
    /\ UNCHANGED <<run, mailed, digests, sentToday, losses, overlaps>>
    /\ \A n \in Notes :
        \/ row'[n] = row[n]
        \/ /\ row[n].status = "none" /\ row'[n].status = "pending"
           /\ row'[n].attempts = row[n].attempts

\* Dispatch d goes on: it marks some of the rest and stamps some subscriptions, ...
RunGoes(d, accepted, stamps) ==
    /\ run' \in [Dispatchers -> Run \cup {NoRun}]
    /\ \A e \in Dispatchers \ {d} : run'[e] = run[e]
    /\ run'[d] # NoRun
    /\ run'[d].batch = run[d].batch
    /\ run'[d].seen = run[d].seen
    /\ run'[d].route = run[d].route
    /\ run'[d].today = run[d].today
    /\ run'[d].rest \subseteq run[d].rest
    /\ run'[d].sent = run[d].sent \cup accepted
    /\ run'[d].failed \subseteq run[d].failed \cup run[d].rest
    /\ run'[d].rest \cap run'[d].sent = {} /\ run'[d].rest \cap run'[d].failed = {}
    /\ run'[d].stamped = run[d].stamped \cup stamps
    /\ accepted \subseteq run[d].rest

\* ... those it marks as sent are mailed, ...
Goes(d, accepted, stamps) ==
    /\ RunGoes(d, accepted, stamps)
    /\ mailed' = [n \in Notes |-> IF n \in accepted THEN mailed[n] + 1 ELSE mailed[n]]
    /\ UNCHANGED <<queue, row, sub, sentToday, writer, reached, edits, losses, overlaps>>

\* ... in single mails, ...
Mails(d, accepted, stamps) ==
    /\ Goes(d, accepted, stamps)
    /\ \A s \in stamps : \E a \in Addresses :
        /\ run[d].route[a] # NoSubscription
        /\ run[d].route[a].who = s
        /\ run[d].route[a].how # "digest"
    /\ UNCHANGED digests

\* ... or in the digest of address a.
SendsDigest(d, a) ==
    /\ \E n \in run[d].rest : To(n) = a
    /\ run[d].route[a] # NoSubscription
    /\ run[d].route[a].how = "digest"
    /\ Goes(d, GroupOf(d, a), {run[d].route[a].who})
    /\ \A n \in run'[d].rest : To(n) # a
    /\ digests' = [digests EXCEPT ![run[d].route[a].who] = IF run[d].today THEN @ + 1 ELSE @]

\* Mails that arrived are marked as failed: a lost outcome.
Unheard(d) ==
    /\ RunGoes(d, {}, {})
    /\ mailed' \in [Notes -> Nat]
    /\ \A n \in Notes : mailed'[n] = mailed[n] \/ (n \in run[d].rest /\ mailed'[n] = mailed[n] + 1)
    /\ digests' \in [Subscribers -> Nat]
    /\ \A s \in Subscribers : digests'[s] \in {digests[s], digests[s] + 1}
    /\ losses < MaxLosses /\ losses' = losses + 1
    /\ UNCHANGED <<queue, row, sub, sentToday, writer, reached, edits, overlaps>>

\* Dispatch d begins.
Begins(d) ==
    /\ run[d] = NoRun
    /\ run' \in [Dispatchers -> Run \cup {NoRun}]
    /\ \A e \in Dispatchers \ {d} : run'[e] = run[e]
    /\ run'[d] # NoRun
    /\ run'[d].rest = run'[d].batch
    /\ \A n \in run'[d].batch : n \in Notes /\ row[n].status \in {"pending", "retry_wait"}
    /\ run'[d].seen = row
    /\ \A a \in Addresses : run'[d].route[a] # NoSubscription =>
        /\ sub[run'[d].route[a].who].email = a
        /\ run'[d].route[a].how = "digest" => ~sentToday[run'[d].route[a].who]
    /\ run'[d].today
    /\ run'[d].sent = {} /\ run'[d].failed = {} /\ run'[d].stamped = {}
    /\ overlaps' = IF Active = {} THEN overlaps ELSE overlaps + 1
    /\ overlaps' <= MaxOverlaps
    /\ UNCHANGED <<queue, row, sub, sentToday, writer, reached, edits, losses, mailed, digests>>

\* Dispatch d ends with what it marked.
Commits(d) ==
    /\ run' = [run EXCEPT ![d] = NoRun]
    /\ row' \in [Notes -> Row]
    /\ \A n \in Notes :
        IF n \in run[d].sent \cup run[d].failed
        THEN /\ n \in run[d].sent => row'[n].status = "sent"
             /\ row'[n].status = "sent" => n \in run[d].sent \/ row[n].status = "sent"
             /\ row'[n].status \notin Settled => row'[n].attempts < MaxAttempts
        ELSE row'[n] = row[n]
    /\ sentToday' = [s \in Subscribers |->
          IF s \in run[d].stamped THEN run[d].today ELSE sentToday[s]]
    /\ writer' = IF writer = d THEN Free ELSE writer
    /\ UNCHANGED <<queue, sub, reached, edits, losses, overlaps, mailed, digests>>

Kinds ==
    \/ Quiet /\ TypeOK'
    \/ NewDay
    \/ \E d \in Dispatchers : Begins(d)
    \/ \E d \in Active : LockTimeout(d) \/ Commits(d)
    \/ \E d \in Active : \E accepted \in SUBSET Notes, stamps \in SUBSET Subscribers :
          Mails(d, accepted, stamps)
    \/ \E d \in Active, a \in Addresses : SendsDigest(d, a)
    \/ \E d \in Active : Unheard(d)
    \/ Crash

\* The dispatches under way are records.
LEMMA RunsAre ==
    ASSUME TypeOK, NEW d \in Active
    PROVE  /\ run[d] \in Run /\ run[d] # NoRun /\ d \in Dispatchers
           /\ run[d].batch \subseteq Notes
           /\ run[d].rest \subseteq Notes
           /\ run[d].seen \in [Notes -> Row]
           /\ run[d].route \in [Addresses -> Route \cup {NoSubscription}]
           /\ run[d].today \in BOOLEAN
           /\ run[d].sent \subseteq Notes
           /\ run[d].failed \subseteq Notes
           /\ run[d].stamped \subseteq Subscribers
<1>1. run[d] \in Run /\ d \in Dispatchers /\ run[d] # NoRun
  BY DEF TypeOK, Active
<1> QED BY <1>1 DEF Run

\* A dispatch takes some of the rest and marks them.
LEMMA Handles ==
    ASSUME TypeOK, RunInv, NEW d \in Active, NEW gone \in SUBSET run[d].rest,
           NEW accepted \in SUBSET gone, NEW rejected \in SUBSET gone,
           NEW stamps \in SUBSET Subscribers,
           NEW new \in Run, run' = [run EXCEPT ![d] = new],
           new.batch = run[d].batch, new.seen = run[d].seen,
           new.route = run[d].route, new.today = run[d].today,
           new.rest = run[d].rest \ gone,
           new.sent = run[d].sent \cup accepted,
           new.failed = run[d].failed \cup rejected,
           new.stamped = run[d].stamped \cup stamps
    PROVE  RunGoes(d, accepted, stamps)
<1>1. d \in Dispatchers /\ run \in [Dispatchers -> Run \cup {NoRun}]
  BY DEF Active, TypeOK
<1>2. /\ run' \in [Dispatchers -> Run \cup {NoRun}]
      /\ \A e \in Dispatchers \ {d} : run'[e] = run[e]
      /\ run'[d] = new /\ new # NoRun
  BY <1>1, NotificationRecords
<1>3. /\ (run[d].rest \ gone) \cap (run[d].sent \cup accepted) = {}
      /\ (run[d].rest \ gone) \cap (run[d].failed \cup rejected) = {}
  BY DEF RunInv
<1> QED BY <1>2, <1>3 DEF RunGoes

\* The same for the updates of the actions.
LEMMA Refuses ==
    ASSUME TypeOK, RunInv, NEW d \in Active, NEW gone \in SUBSET run[d].rest,
           Failed(d, gone, run[d].rest \ gone)
    PROVE  RunGoes(d, {}, {})
<1> DEFINE r == run[d]
           new == [r EXCEPT !.rest = run[d].rest \ gone, !.failed = run[d].failed \cup gone]
<1>1. run' = [run EXCEPT ![d] = new]
  BY DEF Failed
<1>3. r \in Run /\ gone \subseteq Notes
  BY RunsAre
<1>4. new \in Run
  BY <1>3 DEF Run
<1>5. /\ new.batch = run[d].batch /\ new.seen = run[d].seen
      /\ new.route = run[d].route /\ new.today = run[d].today
      /\ new.rest = run[d].rest \ gone
      /\ new.sent = run[d].sent \cup {}
      /\ new.failed = run[d].failed \cup gone
      /\ new.stamped = run[d].stamped \cup {}
  BY <1>3 DEF Run
<1> HIDE DEF new
<1> QED BY <1>1, <1>4, <1>5, Handles

\* A sender that raised before the server took its mail.
LEMMA Rejects ==
    ASSUME TypeOK, RunInv, NEW d \in Active, NEW gone \in SUBSET run[d].rest,
           Rejected(d, gone, run[d].rest \ gone),
           UNCHANGED <<queue, row, sub, sentToday, writer, reached, edits, overlaps>>
    PROVE  Goes(d, {}, {}) /\ UNCHANGED digests
<1>1. RunGoes(d, {}, {})
  BY Refuses DEF Rejected
<1>2. mailed' = mailed /\ digests' = digests /\ losses' = losses
  BY DEF Rejected, mails
<1>3. mailed' = [n \in Notes |-> IF n \in {} THEN mailed[n] + 1 ELSE mailed[n]]
  BY <1>2 DEF TypeOK
<1> QED BY <1>1, <1>2, <1>3 DEF Goes

\* A sender that raised after that.
LEMMA GoesUnheard ==
    ASSUME TypeOK, RunInv, NEW d \in Active, NEW gone \in SUBSET run[d].rest,
           AcceptedUnheard(d, gone, run[d].rest \ gone),
           \/ UNCHANGED digests
           \/ \E s \in Subscribers : digests' = DigestOf(s, run[d].today),
           UNCHANGED <<queue, row, sub, sentToday, writer, reached, edits, overlaps>>
    PROVE  Unheard(d)
<1>1. RunGoes(d, {}, {})
  BY Refuses DEF AcceptedUnheard
<1>2. /\ mailed' \in [Notes -> Nat]
      /\ \A n \in Notes :
          mailed'[n] = mailed[n] \/ (n \in run[d].rest /\ mailed'[n] = mailed[n] + 1)
  BY DEF AcceptedUnheard, TypeOK
<1>3. /\ digests' \in [Subscribers -> Nat]
      /\ \A s \in Subscribers : digests'[s] \in {digests[s], digests[s] + 1}
  BY DEF DigestOf, TypeOK
<1> QED BY <1>1, <1>2, <1>3 DEF Unheard, AcceptedUnheard

\* What the SMTP server accepts for an address leaves the rest of the batch.
LEMMA Accepts ==
    ASSUME TypeOK, RunInv, NEW d \in Active, NEW a \in Addresses, NEW gone \in SUBSET run[d].rest,
           run[d].route[a] # NoSubscription,
           Accepted(d, a, gone, run[d].rest \ gone),
           UNCHANGED <<queue, row, sub, sentToday, writer, reached, edits, overlaps>>
    PROVE  Goes(d, gone, {run[d].route[a].who}) /\ run[d].route[a].who \in Subscribers
<1> DEFINE r == run[d]
           new == [r EXCEPT !.rest = run[d].rest \ gone, !.sent = run[d].sent \cup gone,
                            !.stamped = run[d].stamped \cup {run[d].route[a].who}]
<1>1. run' = [run EXCEPT ![d] = new]
  BY DEF Accepted
<1>2. run[d].route[a].who \in Subscribers
  BY RunsAre DEF Route
<1>3. r \in Run /\ gone \subseteq Notes
  BY RunsAre
<1>4. new \in Run
  BY <1>2, <1>3 DEF Run
<1>5. /\ new.batch = run[d].batch /\ new.seen = run[d].seen
      /\ new.route = run[d].route /\ new.today = run[d].today
      /\ new.rest = run[d].rest \ gone
      /\ new.sent = run[d].sent \cup gone
      /\ new.failed = run[d].failed \cup {}
      /\ new.stamped = run[d].stamped \cup {run[d].route[a].who}
  BY <1>3 DEF Run
<1>6. mailed' = [n \in Notes |-> IF n \in gone THEN mailed[n] + 1 ELSE mailed[n]]
  BY DEF Accepted
<1>7. {run[d].route[a].who} \in SUBSET Subscribers /\ gone \in SUBSET gone /\ {} \in SUBSET gone
  BY <1>2
<1> HIDE DEF new
<1>8. RunGoes(d, gone, {run[d].route[a].who})
  BY <1>1, <1>4, <1>5, <1>7, Handles
<1>9. losses' = losses
  BY DEF Accepted
<1> QED BY <1>2, <1>6, <1>8, <1>9 DEF Goes

\* A report is queued for addresses that have no notification of it.
LEMMA Published ==
    ASSUME TypeOK, NEW r \in Reports, Publish(r)
    PROVE  Quiet /\ TypeOK'
<1>0. PICK matching \in SUBSET {s \in Subscribers : Enabled(s)} :
        \E order \in SetToSeqs({<<r, sub[s].email>> : s \in matching}) :
            /\ queue' = queue \o order
            /\ row' = [n \in Notes |->
                  IF n \in ToSet(order) THEN [row[n] EXCEPT !.status = "pending"] ELSE row[n]]
  BY DEF Publish
<1>1. PICK order \in SetToSeqs({<<r, sub[s].email>> : s \in matching}) :
        /\ queue' = queue \o order
        /\ row' = [n \in Notes |->
              IF n \in ToSet(order) THEN [row[n] EXCEPT !.status = "pending"] ELSE row[n]]
  BY <1>0
<1> DEFINE new == {<<r, sub[s].email>> : s \in matching}
<1>2. new \subseteq Notes
  BY DEF TypeOK, Enabled, Subscription, Notes
<1>3. \A n \in new : row[n].status = "none"
  BY <1>2 DEF Publish, TypeOK, Enabled, Subscription
<1>4. IsFiniteSet(new)
  <2>1. IsFiniteSet(matching)
    BY NotificationBounds, FS_Subset
  <2> DEFINE f == [s \in matching |-> <<r, sub[s].email>>]
  <2>2. f \in Surjection(matching, new)
    BY DEF Surjection
  <2> HIDE DEF new, f
  <2> QED BY <2>1, <2>2, FS_Surjection
<1> HIDE DEF new
<1>5. Cardinality(new) \in Nat
  BY <1>4, FS_CardinalityType
<1>6. order \in [1 .. Cardinality(new) -> new]
  BY DEF SetToSeqs, new
<1>7. order \in Seq(Notes) /\ ToSet(order) \subseteq new
  <2>1. order \in [1 .. Cardinality(new) -> Notes]
    BY <1>2, <1>6
  <2>2. order \in Seq(Notes)
    BY <1>5, <2>1, SeqDef
  <2> QED BY <1>6, <2>2 DEF ToSet
<1>8. queue' \in Seq(Notes)
  BY <1>1, <1>7, ConcatProperties DEF TypeOK
<1>9. UNCHANGED <<sub, sentToday, writer, run, reached, edits, losses, overlaps, mailed, digests>>
  BY DEF Publish, world, mails
<1>10. ASSUME NEW n \in Notes
       PROVE  /\ row'[n] \in Row
              /\ \/ row'[n] = row[n]
                 \/ /\ row[n].status = "none" /\ row'[n].status = "pending"
                    /\ row'[n].attempts = row[n].attempts
  <2>1. row[n] \in Row
    BY DEF TypeOK
  <2>2. CASE n \in ToSet(order)
    BY <1>1, <1>3, <1>7, <2>1, <2>2 DEF Row
  <2>3. CASE n \notin ToSet(order)
    BY <1>1, <2>1, <2>3
  <2> QED BY <2>2, <2>3
<1>11. row' \in [Notes -> Row]
  BY <1>1, <1>10
<1>12. TypeOK'
  BY <1>8, <1>9, <1>11 DEF TypeOK
<1> QED BY <1>9, <1>10, <1>12 DEF Quiet

\* A route is of the subscription that has the address, and a digest only if none was
\* sent today.
LEMMA Routes ==
    ASSUME TypeOK, NEW a \in Addresses
    PROVE  /\ RouteTo(a) \in Route \cup {NoSubscription}
           /\ RouteTo(a) # NoSubscription =>
                /\ sub[RouteTo(a).who].email = a
                /\ RouteTo(a).how = "digest" => ~sentToday[RouteTo(a).who]
<1> DEFINE Has(s) == Enabled(s) /\ sub[s].email = a
           s0 == CHOOSE s \in Subscribers : Has(s)
<1>1. CASE \E s \in Subscribers : Has(s)
  <2>1. s0 \in Subscribers /\ Has(s0)
    BY <1>1
  <2>2. RouteTo(a) = RouteOf(s0)
    BY <1>1 DEF RouteTo
  <2> HIDE DEF s0
  <2>3. RouteOf(s0) \in Route /\ RouteOf(s0).who = s0
    BY <2>1 DEF RouteOf, Route
  <2>4. RouteOf(s0).how = "digest" => ~sentToday[s0]
    BY DEF RouteOf
  <2> QED BY <2>1, <2>2, <2>3, <2>4
<1>2. CASE ~\E s \in Subscribers : Has(s)
  BY <1>2 DEF RouteTo
<1> QED BY <1>1, <1>2

\* Begin reads a batch as described.
LEMMA BeginsAs ==
    ASSUME TypeOK, NEW d \in Dispatchers, Begin(d)
    PROVE  Begins(d)
<1> DEFINE new == [batch |-> Batch, rest |-> Batch, seen |-> row,
                   route |-> [a \in Addresses |-> RouteTo(a)],
                   today |-> TRUE, sent |-> {}, failed |-> {}, stamped |-> {}]
<1>1. run[d] = NoRun /\ run' = [run EXCEPT ![d] = new]
  BY DEF Begin
<1>2. \A n \in Batch : n \in Notes /\ row[n].status \in {"pending", "retry_wait"}
  <2>1. \A n \in Batch : n \in ToSet(queue) /\ Open(n)
    BY DEF Batch
  <2>2. ToSet(queue) \subseteq Notes
    BY ElementOfSeq, LenProperties DEF TypeOK, ToSet
  <2> QED BY <2>1, <2>2 DEF Open
<1>3. [a \in Addresses |-> RouteTo(a)] \in [Addresses -> Route \cup {NoSubscription}]
  BY Routes
<1>4. new \in Run
  <2>1. Batch \subseteq Notes /\ row \in [Notes -> Row]
    BY <1>2 DEF TypeOK
  <2> HIDE DEF Batch
  <2> QED BY <1>3, <2>1 DEF Run
<1>5. /\ new.batch = Batch /\ new.rest = Batch /\ new.seen = row
      /\ new.today /\ new.sent = {} /\ new.failed = {} /\ new.stamped = {}
      /\ new.route = [a \in Addresses |-> RouteTo(a)]
  OBVIOUS
<1>6. \A a \in Addresses : new.route[a] # NoSubscription =>
        /\ sub[new.route[a].who].email = a
        /\ new.route[a].how = "digest" => ~sentToday[new.route[a].who]
  BY <1>5, Routes
<1> HIDE DEF new
<1>7. /\ run' \in [Dispatchers -> Run \cup {NoRun}]
      /\ \A e \in Dispatchers \ {d} : run'[e] = run[e]
      /\ run'[d] = new /\ new # NoRun
  BY <1>1, <1>4, NotificationRecords DEF TypeOK
<1>8. /\ overlaps' = IF Active = {} THEN overlaps ELSE overlaps + 1
      /\ overlaps' <= MaxOverlaps
      /\ UNCHANGED <<queue, row, sub, sentToday, writer, reached, edits, losses, mailed, digests>>
  BY DEF Begin, Active, rows, mails
<1> QED BY <1>1, <1>2, <1>5, <1>6, <1>7, <1>8 DEF Begins

\* Commit writes the marks as described.
LEMMA CommitsAs ==
    ASSUME TypeOK, RunInv, NEW d \in Dispatchers, Commit(d)
    PROVE  d \in Active /\ Commits(d)
<1>1. d \in Active
  BY DEF Commit, Active
<1>2. ASSUME NEW n \in run[d].sent \cup run[d].failed
      PROVE  /\ Marked(d, n) \in Row
             /\ n \in run[d].sent => Marked(d, n).status = "sent"
             /\ Marked(d, n).status = "sent" => n \in run[d].sent \/ row[n].status = "sent"
             /\ Marked(d, n).status \notin Settled => Marked(d, n).attempts < MaxAttempts
  <2> DEFINE seen == run[d].seen[n]
             tries == seen.attempts + 1
             new == IF n \in run[d].sent THEN "sent"
                    ELSE IF tries >= MaxAttempts THEN "dead"
                    ELSE "retry_wait"
             status == IF new = seen.status THEN row[n].status ELSE new
  <2>1. n \in Notes /\ row[n] \in Row /\ seen \in Row
    BY <1>1, RunsAre DEF TypeOK
  <2>2. seen.status \in {"pending", "retry_wait"} /\ seen.attempts < MaxAttempts
    BY <1>1 DEF RunInv
  <2>3. Marked(d, n).status = status /\ Marked(d, n).attempts = tries
    BY DEF Marked
  <2>4. Marked(d, n) = [status |-> status, attempts |-> tries]
    BY DEF Marked
  <2>5. seen.attempts \in 0 .. MaxAttempts /\ row[n].status \in {"none", "pending", "retry_wait", "sent", "dead"}
    BY <2>1 DEF Row
  <2> HIDE DEF seen
  <2>6. tries \in 0 .. MaxAttempts
    BY <2>2, <2>5, NotificationBounds
  <2>7. status \in {"none", "pending", "retry_wait", "sent", "dead"}
    BY <2>5
  <2>8. Marked(d, n) \in Row
    BY <2>4, <2>6, <2>7 DEF Row
  <2>9. /\ n \in run[d].sent => status = "sent"
        /\ status = "sent" => n \in run[d].sent \/ row[n].status = "sent"
        /\ status \notin Settled => new = "retry_wait" /\ n \notin run[d].sent
    BY <2>2 DEF Settled
  <2>10. new = "retry_wait" /\ n \notin run[d].sent => ~(tries >= MaxAttempts)
    OBVIOUS
  <2> HIDE DEF status, new
  <2> QED BY <2>3, <2>6, <2>8, <2>9, <2>10, NotificationBounds
<1>3. row' = [n \in Notes |->
          IF n \in run[d].sent \cup run[d].failed THEN Marked(d, n) ELSE row[n]]
  BY DEF Commit
<1>4. row' \in [Notes -> Row]
  BY <1>2, <1>3 DEF TypeOK
<1>5. \A n \in Notes :
        IF n \in run[d].sent \cup run[d].failed
        THEN /\ n \in run[d].sent => row'[n].status = "sent"
             /\ row'[n].status = "sent" => n \in run[d].sent \/ row[n].status = "sent"
             /\ row'[n].status \notin Settled => row'[n].attempts < MaxAttempts
        ELSE row'[n] = row[n]
  BY <1>2, <1>3
<1> QED BY <1>1, <1>4, <1>5 DEF Commit, Commits, world, mails

\* Every step is of one of the kinds.
LEMMA Kind ==
    ASSUME TypeOK, RunInv, [Next]_vars
    PROVE  Kinds
<1>0. ASSUME UNCHANGED <<queue, row, sub, sentToday, run, edits, losses, overlaps, mailed,
    digests>>,
             writer' \in Dispatchers \cup {Free, Elsewhere}, reached' \in SUBSET Subscribers
      PROVE  Quiet /\ TypeOK'
  BY <1>0 DEF Quiet, TypeOK
<1>1. ASSUME NEW r \in Reports, Publish(r)
      PROVE  Kinds
  BY <1>1, Published DEF Kinds
<1>2. ASSUME NEW s \in Subscribers, EditSubscription(s)
      PROVE  Kinds
  <2>1. UNCHANGED <<queue, row, sentToday, writer, run, reached, losses, overlaps, mailed, digests>>
    BY <1>2 DEF EditSubscription, mails
  <2>2. sub' \in [Subscribers -> Subscription \cup {NoSubscription}]
    BY <1>2 DEF EditSubscription, TypeOK
  <2>3. edits' \in 0 .. MaxEdits
    BY <1>2, NotificationBounds DEF EditSubscription, TypeOK
  <2> QED BY <2>1, <2>2, <2>3 DEF Quiet, TypeOK, Kinds
<1>3. ASSUME NEW s \in Subscribers, HourStrikes(s)
      PROVE  Kinds
  BY <1>3, <1>0 DEF HourStrikes, rows, mails, TypeOK, Kinds
<1>4. ASSUME NEW d \in Dispatchers, Begin(d)
      PROVE  Kinds
  BY <1>4, BeginsAs DEF Kinds
<1>5. ASSUME NEW d \in Dispatchers, NEW a \in Addresses, Unroutable(d, a)
      PROVE  Kinds
  <2>1. d \in Active
    BY <1>5 DEF Unroutable, AtAddress, Active
  <2>2. Rejected(d, GroupOf(d, a), run[d].rest \ GroupOf(d, a))
    BY <1>5 DEF Unroutable, Rejected, Failed, Without, world
  <2>3. UNCHANGED <<queue, row, sub, sentToday, writer, reached, edits, overlaps>>
    BY <1>5 DEF Unroutable, rows, world
  <2>4. GroupOf(d, a) \in SUBSET run[d].rest
    BY DEF GroupOf
  <2>5. Goes(d, {}, {}) /\ UNCHANGED digests
    BY <2>1, <2>2, <2>3, <2>4, Rejects
  <2> QED BY <2>1, <2>5 DEF Mails, Kinds
<1>6. ASSUME NEW d \in Dispatchers, NEW a \in Addresses, Defer(d, a)
      PROVE  Kinds
  <2>1. d \in Active
    BY <1>6 DEF Defer, AtRoute, AtAddress, Active
  <2> DEFINE r == run[d]
             new == [r EXCEPT !.rest = Without(d, a)]
  <2>2. run' = [run EXCEPT ![d] = new]
    BY <1>6 DEF Defer
  <2>3. r \in Run /\ Without(d, a) = run[d].rest \ GroupOf(d, a)
    BY <2>1, RunsAre DEF Without
  <2>4. new \in Run
    BY <2>3 DEF Run
  <2>5. /\ new.batch = run[d].batch /\ new.seen = run[d].seen
        /\ new.route = run[d].route /\ new.today = run[d].today
        /\ new.rest = run[d].rest \ GroupOf(d, a)
        /\ new.sent = run[d].sent \cup {}
        /\ new.failed = run[d].failed \cup {}
        /\ new.stamped = run[d].stamped \cup {}
    BY <2>3 DEF Run
  <2>6. /\ UNCHANGED <<queue, row, sub, sentToday, writer, reached, edits, losses, overlaps>>
        /\ mailed' = [n \in Notes |-> IF n \in {} THEN mailed[n] + 1 ELSE mailed[n]]
        /\ UNCHANGED digests
    BY <1>6 DEF Defer, rows, world, mails, TypeOK
  <2>7. GroupOf(d, a) \in SUBSET run[d].rest
    BY DEF GroupOf
  <2> HIDE DEF new
  <2>8. Goes(d, {}, {})
    BY <2>1, <2>2, <2>4, <2>5, <2>6, <2>7, Handles DEF Goes
  <2> QED BY <2>1, <2>6, <2>8 DEF Mails, Kinds
<1>7. ASSUME NEW d \in Dispatchers, NEW a \in Addresses, SendDigest(d, a)
      PROVE  Kinds
  <2>1. /\ d \in Active /\ run[d].route[a] # NoSubscription /\ run[d].route[a].how = "digest"
        /\ \E n \in run[d].rest : To(n) = a
    BY <1>7 DEF SendDigest, AtRoute, AtAddress, Active
  <2>2. UNCHANGED <<queue, row, sub, sentToday, writer, reached, edits, overlaps>>
    BY <1>7 DEF SendDigest, rows
  <2>3. GroupOf(d, a) \in SUBSET run[d].rest
    BY DEF GroupOf
  <2>4. CASE Accepted(d, a, GroupOf(d, a), Without(d, a))
             /\ digests' = DigestOf(run[d].route[a].who, run[d].today)
    <3>1. Accepted(d, a, GroupOf(d, a), run[d].rest \ GroupOf(d, a))
      BY <2>4 DEF Without
    <3>2. Goes(d, GroupOf(d, a), {run[d].route[a].who})
      BY <2>1, <2>2, <2>3, <3>1, Accepts
    <3>3. GroupOf(d, a) \subseteq run'[d].sent /\ run'[d].rest \cap run'[d].sent = {}
      BY <3>2 DEF Goes, RunGoes
    <3>4. \A n \in run'[d].rest : n \in run[d].rest
      BY <3>2 DEF Goes, RunGoes
    <3>5. \A n \in run'[d].rest : To(n) # a
      BY <3>3, <3>4 DEF GroupOf
    <3> QED BY <2>1, <2>4, <3>2, <3>5 DEF SendsDigest, DigestOf, Kinds
  <2>5. CASE Rejected(d, GroupOf(d, a), Without(d, a))
    <3>1. Rejected(d, GroupOf(d, a), run[d].rest \ GroupOf(d, a))
      BY <2>5 DEF Without
    <3>2. Goes(d, {}, {}) /\ UNCHANGED digests
      BY <2>1, <2>2, <2>3, <3>1, Rejects
    <3> QED BY <2>1, <3>2 DEF Mails, Kinds
  <2>6. CASE AcceptedUnheard(d, GroupOf(d, a), Without(d, a))
             /\ digests' = DigestOf(run[d].route[a].who, run[d].today)
    <3>1. AcceptedUnheard(d, GroupOf(d, a), run[d].rest \ GroupOf(d, a))
      BY <2>6 DEF Without
    <3>2. run[d].route[a].who \in Subscribers
      BY <2>1, RunsAre DEF Route
    <3>3. Unheard(d)
      BY <2>1, <2>2, <2>3, <2>6, <3>1, <3>2, GoesUnheard
    <3> QED BY <2>1, <3>3 DEF Kinds
  <2> QED BY <1>7, <2>4, <2>5, <2>6 DEF SendDigest
<1>8. ASSUME NEW d \in Dispatchers, NEW a \in Addresses, SendOne(d, a)
      PROVE  Kinds
  <2>1. /\ d \in Active /\ run[d].route[a] # NoSubscription /\ run[d].route[a].how = "each"
    BY <1>8 DEF SendOne, AtRoute, AtAddress, Active
  <2>2. UNCHANGED <<queue, row, sub, sentToday, writer, reached, edits, overlaps>>
    BY <1>8 DEF SendOne, rows
  <2>3. PICK n \in run[d].rest :
          \/ Accepted(d, a, {n}, run[d].rest \ {n}) /\ UNCHANGED digests
          \/ AcceptedUnheard(d, {n}, run[d].rest \ {n}) /\ UNCHANGED digests
          \/ Rejected(d, {n}, run[d].rest \ {n})
    BY <1>8 DEF SendOne
  <2>4. {n} \in SUBSET run[d].rest /\ {n} \in SUBSET Notes
    BY <2>1, RunsAre
  <2>5. CASE Accepted(d, a, {n}, run[d].rest \ {n}) /\ UNCHANGED digests
    <3>1. Goes(d, {n}, {run[d].route[a].who}) /\ run[d].route[a].who \in Subscribers
      BY <2>1, <2>2, <2>4, <2>5, Accepts
    <3>2. Mails(d, {n}, {run[d].route[a].who})
      BY <2>1, <2>5, <3>1 DEF Mails
    <3> QED BY <2>1, <2>4, <3>1, <3>2 DEF Kinds
  <2>6. CASE Rejected(d, {n}, run[d].rest \ {n})
    <3>1. Goes(d, {}, {}) /\ UNCHANGED digests
      BY <2>1, <2>2, <2>4, <2>6, Rejects
    <3> QED BY <2>1, <3>1 DEF Mails, Kinds
  <2>7. CASE AcceptedUnheard(d, {n}, run[d].rest \ {n}) /\ UNCHANGED digests
    <3>1. Unheard(d)
      BY <2>1, <2>2, <2>4, <2>7, GoesUnheard
    <3> QED BY <2>1, <3>1 DEF Kinds
  <2> QED BY <2>3, <2>5, <2>6, <2>7
<1>9. ASSUME NEW d \in Dispatchers, Flush(d)
      PROVE  Kinds
  BY <1>9, <1>0 DEF Flush, rows, mails, world, TypeOK, Kinds
<1>10. ASSUME NEW d \in Dispatchers, LockTimeout(d)
      PROVE  Kinds
  BY <1>10 DEF LockTimeout, NeedsLock, Active, Kinds
<1>11. ASSUME NEW d \in Dispatchers, Commit(d)
      PROVE  Kinds
  BY <1>11, CommitsAs DEF Kinds
<1>12. CASE ElsewhereBegins \/ ElsewhereEnds
  BY <1>12, <1>0 DEF ElsewhereBegins, ElsewhereEnds, rows, mails, world, TypeOK, Kinds
<1>13. CASE NewDay \/ Crash
  BY <1>13 DEF Kinds
<1>14. CASE UNCHANGED vars
  BY <1>14, <1>0 DEF vars, TypeOK, Kinds
<1> QED BY <1>1, <1>2, <1>3, <1>4, <1>5, <1>6, <1>7, <1>8, <1>9, <1>10, <1>11, <1>12, <1>13,
    <1>14 DEF Next, Work
-----------------------------------------------------------------------------
(***************************************************************************)
(* What the steps do to the dispatches                                     *)
(***************************************************************************)
LEMMA NewDays ==
    ASSUME TypeOK, NewDay
    PROVE  /\ run' \in [Dispatchers -> Run \cup {NoRun}]
           /\ Active' = Active
           /\ \A d \in Active :
                /\ run'[d] # NoRun
                /\ run'[d].batch = run[d].batch /\ run'[d].seen = run[d].seen
                /\ run'[d].route = run[d].route /\ run'[d].today = FALSE
                /\ run'[d].rest = run[d].rest /\ run'[d].sent = run[d].sent
                /\ run'[d].failed = run[d].failed /\ run'[d].stamped = run[d].stamped
<1>1. run' = [d \in Dispatchers |->
          IF run[d] = NoRun THEN NoRun ELSE [run[d] EXCEPT !.today = FALSE]]
  BY DEF NewDay
<1>2. ASSUME NEW d \in Active
      PROVE  /\ run'[d] \in Run
             /\ run'[d].batch = run[d].batch /\ run'[d].seen = run[d].seen
             /\ run'[d].route = run[d].route /\ run'[d].today = FALSE
             /\ run'[d].rest = run[d].rest /\ run'[d].sent = run[d].sent
             /\ run'[d].failed = run[d].failed /\ run'[d].stamped = run[d].stamped
  <2> DEFINE r == run[d]
             new == [r EXCEPT !.today = FALSE]
  <2>1. r \in Run /\ d \in Dispatchers /\ run[d] # NoRun
    BY <1>2, RunsAre
  <2>2. run'[d] = new
    BY <1>1, <2>1
  <2>3. new \in Run
    BY <2>1 DEF Run
  <2>4. /\ new.batch = r.batch /\ new.seen = r.seen
        /\ new.route = r.route /\ new.today = FALSE
        /\ new.rest = r.rest /\ new.sent = r.sent
        /\ new.failed = r.failed /\ new.stamped = r.stamped
    BY <2>1 DEF Run
  <2> HIDE DEF new
  <2> QED BY <2>2, <2>3, <2>4
<1>3. \A d \in Active : run'[d] \in Run /\ run'[d] # NoRun
  BY <1>2, NotificationRecords
<1>4. \A d \in Dispatchers \ Active : run'[d] = NoRun
  BY <1>1 DEF Active
<1>5. run' \in [Dispatchers -> Run \cup {NoRun}]
  BY <1>1, <1>3, <1>4
<1>6. Active' = Active
  BY <1>3, <1>4 DEF Active
<1> QED BY <1>2, <1>3, <1>5, <1>6

\* A dispatch is lost.
Loses(d) ==
    /\ run' = [run EXCEPT ![d] = NoRun]
    /\ losses' = losses + 1
    /\ UNCHANGED <<queue, row, sub, sentToday, writer, reached, edits, overlaps, mailed, digests>>

\* A dispatch that meets a locked database is one loss.
LEMMA LosesOne ==
    ASSUME NEW d \in Active, LockTimeout(d)
    PROVE  Loses(d)
BY DEF LockTimeout, Loses, rows, mails

\* A dispatch that ends is not active any more, and nothing of the others changes.
LEMMA Ended ==
    ASSUME TypeOK, NEW d \in Active, run' = [run EXCEPT ![d] = NoRun]
    PROVE  /\ Active' = Active \ {d}
           /\ \A e \in Active' : run'[e] = run[e]
           /\ run' \in [Dispatchers -> Run \cup {NoRun}]
BY DEF Active, TypeOK

\* One that begins is added to them.
LEMMA Begun ==
    ASSUME TypeOK, NEW d \in Dispatchers, Begins(d)
    PROVE  /\ d \notin Active /\ Active' = Active \cup {d}
           /\ \A e \in Active : run'[e] = run[e]
BY DEF Active, Begins, TypeOK

\* One that mails or marks changes its own record only.
LEMMA Gone ==
    ASSUME TypeOK, NEW d \in Active, NEW accepted, NEW stamps, RunGoes(d, accepted, stamps)
    PROVE  /\ Active' = Active
           /\ \A e \in Active \ {d} : run'[e] = run[e]
BY DEF Active, RunGoes, TypeOK

\* A crash ends all of them and counts as a loss.
LEMMA Crashed ==
    ASSUME Crash
    PROVE  /\ Active' = {} /\ losses' = losses + 1
           /\ run' \in [Dispatchers -> Run \cup {NoRun}]
           /\ UNCHANGED <<queue, row, sub, sentToday, reached, edits, overlaps, mailed, digests>>
BY DEF Crash, Active, rows, mails

\* Both ways to go on.
LEMMA Sends ==
    ASSUME TypeOK, NEW d \in Active, NEW a \in Addresses, SendsDigest(d, a)
    PROVE  /\ Goes(d, GroupOf(d, a), {run[d].route[a].who})
           /\ run[d].route[a].who \in Subscribers
           /\ GroupOf(d, a) \subseteq run[d].rest
BY RunsAre DEF SendsDigest, Route, GroupOf
-----------------------------------------------------------------------------
(***************************************************************************)
(* The invariant is inductive                                              *)
(***************************************************************************)
LEMMA TypeStep ==
    ASSUME TypeOK, Kinds
    PROVE  TypeOK'
<1>1. ASSUME NEW d \in Active, NEW accepted, NEW stamps, Goes(d, accepted, stamps),
             digests' \in [Subscribers -> Nat]
      PROVE  TypeOK'
  <2>1. mailed' \in [Notes -> Nat]
    BY <1>1 DEF Goes, RunGoes, TypeOK
  <2> QED BY <1>1, <2>1 DEF Goes, RunGoes, TypeOK
<1>2. ASSUME NEW d \in Active, NEW accepted, NEW stamps, Mails(d, accepted, stamps)
      PROVE  TypeOK'
  BY <1>1, <1>2 DEF Mails, TypeOK
<1>3. ASSUME NEW d \in Active, NEW a \in Addresses, SendsDigest(d, a)
      PROVE  TypeOK'
  <2>1. Goes(d, GroupOf(d, a), {run[d].route[a].who}) /\ run[d].route[a].who \in Subscribers
    BY <1>3, Sends
  <2>2. digests' \in [Subscribers -> Nat]
    BY <1>3, <2>1 DEF SendsDigest, TypeOK
  <2> QED BY <1>1, <2>1, <2>2
<1>4. ASSUME NEW d \in Dispatchers, Begins(d)
      PROVE  TypeOK'
  <2>1. overlaps' \in 0 .. MaxOverlaps
    BY <1>4, NotificationBounds DEF Begins, TypeOK
  <2> QED BY <1>4, <2>1 DEF Begins, TypeOK
<1>5. ASSUME NEW d \in Active, LockTimeout(d)
      PROVE  TypeOK'
  <2>1. losses' \in 0 .. MaxLosses
    BY <1>5, NotificationBounds DEF LockTimeout, TypeOK
  <2>2. Loses(d) /\ run' \in [Dispatchers -> Run \cup {NoRun}]
    BY <1>5, LosesOne, Ended DEF Loses
  <2> QED BY <2>1, <2>2 DEF Loses, TypeOK
<1>6. ASSUME NEW d \in Active, Commits(d)
      PROVE  TypeOK'
  <2>1. sentToday' \in [Subscribers -> BOOLEAN]
    BY <1>6, RunsAre DEF Commits, TypeOK
  <2>2. run' \in [Dispatchers -> Run \cup {NoRun}]
    BY <1>6, Ended DEF Commits
  <2>3. writer' \in Dispatchers \cup {Free, Elsewhere}
    BY <1>6 DEF Commits, TypeOK
  <2> QED BY <1>6, <2>1, <2>2, <2>3 DEF Commits, TypeOK
<1>7. CASE NewDay
  <2>1. sentToday' \in [Subscribers -> BOOLEAN]
    BY <1>7 DEF NewDay
  <2>2. digests' \in [Subscribers -> Nat] /\ reached' = {}
    BY <1>7 DEF NewDay
  <2>3. run' \in [Dispatchers -> Run \cup {NoRun}]
    BY <1>7, NewDays
  <2>4. UNCHANGED <<queue, row, sub, writer, edits, losses, overlaps, mailed>>
    BY <1>7 DEF NewDay
  <2> QED BY <2>1, <2>2, <2>3, <2>4 DEF TypeOK
<1>9. ASSUME NEW d \in Active, Unheard(d)
      PROVE  TypeOK'
  <2>1. losses' \in 0 .. MaxLosses
    BY <1>9, NotificationBounds DEF Unheard, TypeOK
  <2> QED BY <1>9, <2>1 DEF Unheard, RunGoes, TypeOK
<1>8. CASE Crash
  <2>1. losses' \in 0 .. MaxLosses /\ writer' \in Dispatchers \cup {Free, Elsewhere}
    BY <1>8, NotificationBounds DEF Crash, TypeOK
  <2> QED BY <1>8, <2>1, Crashed DEF TypeOK
<1> QED BY <1>2, <1>3, <1>4, <1>5, <1>6, <1>7, <1>8, <1>9 DEF Kinds

\* A mail the server took is counted, and no other is lost sight of.
LEMMA GoesMailed ==
    ASSUME TypeOK, NEW d \in Active, NEW accepted, NEW stamps, Goes(d, accepted, stamps)
    PROVE  \A n \in Notes : /\ mailed'[n] \in Nat /\ mailed'[n] >= mailed[n]
                            /\ n \in accepted => mailed'[n] > 0
BY DEF Goes, TypeOK

\* A mail that arrived unheard is counted as well.
LEMMA UnheardMailed ==
    ASSUME TypeOK, NEW d \in Active, Unheard(d)
    PROVE  \A n \in Notes : mailed[n] \in Nat /\ mailed'[n] \in Nat /\ mailed'[n] >= mailed[n]
<1>1. mailed \in [Notes -> Nat]
  BY DEF TypeOK
<1>2. mailed' \in [Notes -> Nat]
  BY DEF Unheard
<1>3. \A n \in Notes : mailed'[n] = mailed[n] \/ mailed'[n] = mailed[n] + 1
  BY DEF Unheard
<1> QED BY <1>1, <1>2, <1>3

\* A step that goes on keeps what the invariant says of the dispatch.
LEMMA GoesRun ==
    ASSUME TypeOK, RunInv, NEW d \in Active, NEW accepted \in SUBSET Notes, NEW stamps,
           RunGoes(d, accepted, stamps),
           \A n \in Notes : /\ mailed'[n] \in Nat /\ mailed'[n] >= mailed[n]
                            /\ n \in accepted => mailed'[n] > 0
    PROVE  RunInv'
<1>1. \A n \in Notes : mailed'[n] \in Nat /\ mailed'[n] >= mailed[n]
                       /\ (n \in accepted => mailed'[n] > 0)
  OBVIOUS
<1>2. \A n \in run[d].sent \cup accepted : n \in Notes
  BY RunsAre
<1>3. \A n \in run'[d].sent : mailed'[n] > 0
  <2>1. \A n \in run[d].sent : mailed[n] > 0 /\ mailed[n] \in Nat
    BY <1>2 DEF RunInv, TypeOK
  <2> QED BY <1>1, <1>2, <2>1 DEF RunGoes
<1>4. /\ run'[d].rest \cup run'[d].sent \cup run'[d].failed \subseteq run'[d].batch
      /\ run'[d].rest \cap (run'[d].sent \cup run'[d].failed) = {}
      /\ \A n \in run'[d].batch :
          /\ run'[d].seen[n].status \in {"pending", "retry_wait"}
          /\ run'[d].seen[n].attempts < MaxAttempts
  BY DEF RunInv, RunGoes
<1>5. ASSUME NEW e \in Active \ {d}
      PROVE  /\ run'[e] = run[e]
             /\ \A n \in run[e].sent : mailed'[n] > 0
  <2>1. \A n \in run[e].sent : n \in Notes /\ mailed[n] > 0
    BY RunsAre DEF RunInv
  <2>2. \A n \in run[e].sent : mailed[n] \in Nat
    BY <2>1 DEF TypeOK
  <2> QED BY <1>1, <2>1, <2>2, Gone
<1> QED BY <1>3, <1>4, <1>5, Gone DEF RunInv

\* Every step keeps what dispatches have read and marked in order.
LEMMA RunStep ==
    ASSUME TypeOK, RunInv, RowInv, Kinds
    PROVE  RunInv'
<1>1. CASE Quiet
  BY <1>1 DEF Quiet, RunInv, Active
<1>2. CASE NewDay
  <2>1. UNCHANGED mailed
    BY <1>2 DEF NewDay
  <2> QED BY ZenonT(40), <1>2, <2>1, NewDays DEF RunInv
<1>3. ASSUME NEW d \in Dispatchers, Begins(d)
      PROVE  RunInv'
  <2>1. \A n \in run'[d].batch : row[n].attempts < MaxAttempts
    BY <1>3 DEF Begins, RowInv, Settled
  <2> QED BY <1>3, <2>1, Begun DEF Begins, RunInv
<1>4. ASSUME NEW d \in Active, LockTimeout(d) \/ Commits(d)
      PROVE  RunInv'
  <2>1. run' = [run EXCEPT ![d] = NoRun] /\ mailed' = mailed
    BY <1>4 DEF LockTimeout, Commits, mails
  <2> QED BY <2>1, Ended DEF RunInv
<1>5. ASSUME NEW d \in Active, NEW accepted \in SUBSET Notes, NEW stamps \in SUBSET Subscribers,
             Mails(d, accepted, stamps)
      PROVE  RunInv'
  BY <1>5, GoesRun, GoesMailed DEF Mails, Goes
<1>6. ASSUME NEW d \in Active, NEW a \in Addresses, SendsDigest(d, a)
      PROVE  RunInv'
  <2>1. GroupOf(d, a) \in SUBSET Notes
    BY RunsAre DEF GroupOf
  <2>2. Goes(d, GroupOf(d, a), {run[d].route[a].who})
    BY <1>6, Sends
  <2> QED BY <2>1, <2>2, GoesRun, GoesMailed DEF Goes
<1>7. CASE Crash
  BY <1>7, Crashed DEF RunInv
<1>8. ASSUME NEW d \in Active, Unheard(d)
      PROVE  RunInv'
  <2>1. RunGoes(d, {}, {}) /\ {} \in SUBSET Notes
    BY <1>8 DEF Unheard
  <2>2. \A n \in Notes : mailed'[n] \in Nat /\ mailed'[n] >= mailed[n]
    BY <1>8, UnheardMailed
  <2> QED BY <2>1, <2>2, GoesRun
<1> QED BY <1>1, <1>2, <1>3, <1>4, <1>5, <1>6, <1>7, <1>8 DEF Kinds

\* Every step keeps routes apart, and a digest that was stamped complete.
LEMMA RouteStep ==
    ASSUME TypeOK, RunInv, RouteInv, Kinds
    PROVE  RouteInv'
<1>1. CASE Quiet
  BY <1>1 DEF Quiet, RouteInv, Active
<1>2. CASE NewDay
  <2>1. /\ Active' = Active
        /\ \A d \in Active :
            /\ run'[d].route = run[d].route /\ run'[d].rest = run[d].rest
            /\ run'[d].stamped = run[d].stamped
    BY <1>2, NewDays
  <2> QED BY <2>1 DEF RouteInv
<1>3. ASSUME NEW d \in Dispatchers, Begins(d)
      PROVE  RouteInv'
  <2>1. \A e \in Active : run'[e] = run[e]
    BY <1>3, Begun
  <2>2. \A a \in Addresses : run'[d].route[a] # NoSubscription =>
          sub[run'[d].route[a].who].email = a
    BY <1>3 DEF Begins
  <2>3. run'[d].stamped = {}
    BY <1>3 DEF Begins
  <2> QED BY <1>3, <2>1, <2>2, <2>3, Begun DEF RouteInv
<1>4. ASSUME NEW d \in Active, LockTimeout(d) \/ Commits(d)
      PROVE  RouteInv'
  <2>1. run' = [run EXCEPT ![d] = NoRun]
    BY <1>4 DEF LockTimeout, Commits
  <2>2. Active' = Active \ {d} /\ \A e \in Active' : run'[e] = run[e]
    BY <2>1, Ended
  <2> QED BY <2>2 DEF RouteInv
<1>5. ASSUME NEW d \in Active, NEW accepted \in SUBSET Notes, NEW stamps \in SUBSET Subscribers,
             RunGoes(d, accepted, stamps),
             \A a \in Addresses :
                /\ run[d].route[a] # NoSubscription
                /\ run[d].route[a].how = "digest"
                /\ run[d].route[a].who \in stamps
                => \A n \in run'[d].rest : To(n) # a
      PROVE  RouteInv'
  <2>1. Active' = Active /\ \A e \in Active \ {d} : run'[e] = run[e]
    BY <1>5, Gone
  <2>2. /\ run'[d].route = run[d].route
        /\ run'[d].stamped = run[d].stamped \cup stamps
        /\ run'[d].rest \subseteq run[d].rest
    BY <1>5 DEF RunGoes
  <2> QED BY <1>5, <2>1, <2>2 DEF RouteInv
<1>6. ASSUME NEW d \in Active, NEW accepted \in SUBSET Notes, NEW stamps \in SUBSET Subscribers,
             Mails(d, accepted, stamps)
      PROVE  RouteInv'
  <2>1. ASSUME NEW a \in Addresses,
               run[d].route[a] # NoSubscription, run[d].route[a].how = "digest",
               run[d].route[a].who \in stamps
        PROVE  FALSE
    <3>1. PICK b \in Addresses :
            /\ run[d].route[b] # NoSubscription
            /\ run[d].route[b].who = run[d].route[a].who
            /\ run[d].route[b].how # "digest"
      BY <1>6, <2>1 DEF Mails
    <3>2. a = b
      BY <2>1, <3>1 DEF RouteInv
    <3> QED BY <2>1, <3>1, <3>2
  <2> QED BY <1>5, <1>6, <2>1 DEF Mails, Goes
<1>7. ASSUME NEW d \in Active, NEW a \in Addresses, SendsDigest(d, a)
      PROVE  RouteInv'
  <2>1. GroupOf(d, a) \in SUBSET Notes
    BY RunsAre DEF GroupOf
  <2>2. /\ Goes(d, GroupOf(d, a), {run[d].route[a].who})
        /\ {run[d].route[a].who} \in SUBSET Subscribers
    BY <1>7, Sends
  <2>3. \A b \in Addresses :
          run[d].route[b] # NoSubscription /\ run[d].route[b].who \in {run[d].route[a].who} => b = a
    BY <1>7 DEF SendsDigest, RouteInv
  <2>4. \A n \in run'[d].rest : To(n) # a
    BY <1>7 DEF SendsDigest
  <2> QED BY <1>5, <2>1, <2>2, <2>3, <2>4 DEF Goes
<1>8. CASE Crash
  BY <1>8, Crashed DEF RouteInv
<1>9. ASSUME NEW d \in Active, Unheard(d)
      PROVE  RouteInv'
  <2>1. RunGoes(d, {}, {}) /\ {} \in SUBSET Notes /\ {} \in SUBSET Subscribers
    BY <1>9 DEF Unheard
  <2> QED BY <1>5, <2>1
<1> QED BY <1>1, <1>2, <1>3, <1>4, <1>6, <1>7, <1>8, <1>9 DEF Kinds

\* Every step keeps rows true to the mails: only marks of accepted mails are written.
LEMMA RowStep ==
    ASSUME TypeOK, RunInv, RowInv, Kinds
    PROVE  RowInv'
<1>a. ASSUME UNCHANGED <<row, mailed>>
      PROVE  RowInv'
  BY <1>a DEF RowInv
<1>1. CASE Quiet
  BY <1>1 DEF Quiet, RowInv, Settled
<1>2. CASE NewDay
  BY <1>2, <1>a DEF NewDay
<1>3. ASSUME NEW d \in Dispatchers, Begins(d)
      PROVE  RowInv'
  BY <1>3, <1>a DEF Begins
<1>4. ASSUME NEW d \in Active, LockTimeout(d)
      PROVE  RowInv'
  BY <1>4, <1>a DEF LockTimeout, rows, mails
<1>5. ASSUME NEW d \in Active, Commits(d)
      PROVE  RowInv'
  <2>1. \A n \in run[d].sent : mailed[n] > 0
    BY DEF RunInv
  <2>2. ASSUME NEW n \in Notes
        PROVE  /\ row'[n].status \notin Settled => row'[n].attempts < MaxAttempts
               /\ row'[n].status = "sent" => mailed'[n] > 0
    <3>1. mailed' = mailed
      BY <1>5 DEF Commits
    <3>2. CASE n \in run[d].sent \cup run[d].failed
      BY <1>5, <2>1, <3>1, <3>2 DEF Commits, RowInv
    <3>3. CASE n \notin run[d].sent \cup run[d].failed
      BY <1>5, <3>1, <3>3 DEF Commits, RowInv
    <3> QED BY <3>2, <3>3
  <2> QED BY <2>2 DEF RowInv
<1>6. ASSUME NEW d \in Active, NEW accepted, NEW stamps, Goes(d, accepted, stamps)
      PROVE  RowInv'
  <2>1. row' = row /\ \A n \in Notes : mailed[n] \in Nat /\ mailed'[n] >= mailed[n]
    BY <1>6 DEF Goes, RunGoes, TypeOK
  <2>2. ASSUME NEW n \in Notes, row'[n].status = "sent"
        PROVE  mailed'[n] > 0
    BY <2>1, <2>2, <1>6 DEF RowInv, TypeOK, Goes, RunGoes
  <2> QED BY <2>1, <2>2 DEF RowInv
<1>7. ASSUME NEW d \in Active, NEW a \in Addresses, SendsDigest(d, a)
      PROVE  RowInv'
  BY <1>6, <1>7, Sends
<1>8. CASE Crash
  BY <1>8, <1>a, Crashed
<1>9. ASSUME NEW d \in Active, Unheard(d)
      PROVE  RowInv'
  <2>1. row' = row /\ \A n \in Notes : mailed[n] \in Nat /\ mailed'[n] >= mailed[n]
    BY <1>9, UnheardMailed DEF Unheard
  <2>2. \A n \in Notes : mailed'[n] \in Nat
    BY <1>9 DEF Unheard
  <2>3. ASSUME NEW n \in Notes, row'[n].status = "sent"
        PROVE  mailed'[n] > 0
    BY <2>1, <2>2, <2>3 DEF RowInv
  <2> QED BY <2>1, <2>3 DEF RowInv
<1> QED BY <1>1, <1>2, <1>3, <1>4, <1>5, <1>6, <1>7, <1>8, <1>9 DEF Kinds, Mails

\* Every step keeps overlaps above the number of dispatches that run beside another.
LEMMA ActiveStep ==
    ASSUME TypeOK, ActiveInv, Kinds
    PROVE  ActiveInv'
<1>0. /\ IsFiniteSet(Active) /\ Cardinality(Active) \in Nat
      /\ overlaps \in Nat
  BY ActiveIsFinite, NotificationBounds DEF TypeOK
<1>1. CASE Quiet
  BY <1>1 DEF Quiet, ActiveInv, Active
<1>2. CASE NewDay
  <2>1. Active' = Active /\ overlaps' = overlaps
    BY <1>2, NewDays DEF NewDay
  <2> QED BY <2>1 DEF ActiveInv
<1>3. ASSUME NEW d \in Dispatchers, Begins(d)
      PROVE  ActiveInv'
  <2>1. /\ Active' = Active \cup {d} /\ Cardinality(Active \cup {d}) = Cardinality(Active) + 1
        /\ overlaps' = IF Active = {} THEN overlaps ELSE overlaps + 1
    BY <1>0, <1>3, Begun, Join DEF Begins
  <2>2. Active = {} => Cardinality(Active) = 0
    BY FS_EmptySet
  <2> QED BY <1>0, <2>1, <2>2 DEF ActiveInv
<1>4. ASSUME NEW d \in Active, LockTimeout(d) \/ Commits(d)
      PROVE  ActiveInv'
  <2>1. run' = [run EXCEPT ![d] = NoRun] /\ overlaps' = overlaps
    BY <1>4 DEF LockTimeout, Commits
  <2>2. Active' = Active \ {d} /\ Cardinality(Active \ {d}) = Cardinality(Active) - 1
    BY <1>0, <2>1, Ended, Part
  <2> QED BY <1>0, <2>1, <2>2 DEF ActiveInv
<1>5. ASSUME NEW d \in Active, NEW accepted, NEW stamps, RunGoes(d, accepted, stamps),
             UNCHANGED overlaps
      PROVE  ActiveInv'
  <2>1. Active' = Active /\ overlaps' = overlaps
    BY <1>5, Gone
  <2> QED BY <2>1 DEF ActiveInv
<1>6. ASSUME NEW d \in Active, NEW a \in Addresses, SendsDigest(d, a)
      PROVE  ActiveInv'
  BY <1>5, <1>6, Sends DEF Goes
<1>7. CASE Crash
  <2>1. Active' = {} /\ overlaps' = overlaps /\ Cardinality({}) = 0
    BY <1>7, Crashed, FS_EmptySet
  <2> QED BY <1>0, <2>1 DEF ActiveInv
<1>8. ASSUME NEW d \in Active, Unheard(d)
      PROVE  ActiveInv'
  BY <1>5, <1>8 DEF Unheard
<1>9. ASSUME NEW d \in Active, NEW accepted, NEW stamps, Mails(d, accepted, stamps)
      PROVE  ActiveInv'
  BY <1>5, <1>9 DEF Mails, Goes
<1> QED BY <1>1, <1>2, <1>3, <1>4, <1>6, <1>7, <1>8, <1>9 DEF Kinds
-----------------------------------------------------------------------------
(***************************************************************************)
(* The account of the mails                                                *)
(***************************************************************************)
\* A dispatch that ends, or begins, or goes on.
LEMMA MailersEnd ==
    ASSUME TypeOK, NEW d \in Active, run' = [run EXCEPT ![d] = NoRun], NEW n \in Notes
    PROVE  /\ Finders(n)' = Finders(n) \ {d}
           /\ Mailers(n)' = Mailers(n) \ {d}
<1>1. Active' = Active \ {d} /\ \A e \in Active' : run'[e] = run[e]
  BY Ended
<1>2. Finders(n)' = Finders(n) \ {d}
  BY <1>1 DEF Finders
<1> QED BY <1>1, <1>2 DEF Mailers, Finders

\* A dispatch that begins may mail what it found open, and nothing else.
LEMMA MailersBegin ==
    ASSUME TypeOK, NEW d \in Dispatchers, Begins(d), NEW n \in Notes
    PROVE  /\ row[n].status \in Settled =>
                Finders(n)' = Finders(n) /\ Mailers(n)' = Mailers(n)
           /\ row[n].status \notin Settled =>
                Finders(n)' = Finders(n) \cup {d} /\ Mailers(n)' = Mailers(n) \cup {d}
           /\ d \notin Mailers(n)
<1>1. /\ d \notin Active /\ Active' = Active \cup {d}
      /\ \A e \in Active : run'[e] = run[e]
  BY Begun
<1>2. run'[d].seen[n] = row[n] /\ run'[d].sent = {}
  BY DEF Begins
<1>3. Finders(n)' = Finders(n) \cup (IF row[n].status \in Settled THEN {} ELSE {d})
  BY <1>1, <1>2 DEF Finders
<1>4. Mailers(n)' = Mailers(n) \cup (IF row[n].status \in Settled THEN {} ELSE {d})
  BY <1>1, <1>2, <1>3 DEF Mailers, Finders
<1> QED BY <1>1, <1>3, <1>4 DEF Mailers, Finders

\* A mail is the last its dispatch owes for the notification.
LEMMA MailersGo ==
    ASSUME TypeOK, RunInv, NEW d \in Active, NEW accepted, NEW stamps,
           RunGoes(d, accepted, stamps), NEW n \in Notes
    PROVE  /\ Finders(n)' = Finders(n)
           /\ n \notin accepted => Mailers(n)' = Mailers(n)
           /\ n \in accepted => Mailers(n)' = Mailers(n) \ {d} /\ d \in Mailers(n)
<1>1. /\ Active' = Active /\ \A e \in Active \ {d} : run'[e] = run[e]
      /\ run'[d].seen = run[d].seen /\ run'[d].sent = run[d].sent \cup accepted
      /\ accepted \subseteq run[d].rest
  <2>1. Active' = Active /\ \A e \in Active \ {d} : run'[e] = run[e]
    BY Gone
  <2> QED BY <2>1 DEF RunGoes
<1>2. Finders(n)' = Finders(n)
  BY <1>1 DEF Finders
<1>3. n \notin accepted => Mailers(n)' = Mailers(n)
  BY <1>1, <1>2 DEF Mailers, Finders
<1>4. n \in accepted => Mailers(n)' = Mailers(n) \ {d}
  BY <1>1, <1>2 DEF Mailers, Finders
<1>5. n \in run[d].rest => n \notin run[d].sent /\ run[d].seen[n].status \notin Settled
  BY DEF RunInv, Settled
<1>6. n \in accepted => d \in Mailers(n)
  BY <1>1, <1>5 DEF Mailers, Finders
<1> QED BY <1>2, <1>3, <1>4, <1>6

\* A step keeps the account if what is mailed and owed grows by no more than what is
\* lost or overlaps.
LEMMA MailBalance ==
    ASSUME TypeOK, MailInv,
           \A n \in Notes : mailed'[n] + Owed(n)' + (losses + overlaps)
                               <= mailed[n] + Owed(n) + (losses' + overlaps'),
           losses' \in Nat, overlaps' \in Nat,
           \A n \in Notes : mailed'[n] \in Nat /\ Owed(n)' \in Nat
    PROVE  MailInv'
<1>1. losses \in Nat /\ overlaps \in Nat
  BY NotificationBounds DEF TypeOK
<1>2. ASSUME NEW n \in Notes
      PROVE  mailed'[n] + Owed(n)' <= 1 + losses' + overlaps'
  <2>1. Owed(n) \in Nat
    <3>1. Cardinality(Mailers(n)) \in Nat
      BY ActiveIsFinite, FS_Subset, FS_CardinalityType DEF Mailers, Finders
    <3> QED BY <3>1 DEF Owed, One
  <2>2. mailed[n] \in Nat /\ mailed[n] + Owed(n) <= 1 + losses + overlaps
    BY DEF TypeOK, MailInv
  <2>3. mailed'[n] + Owed(n)' + (losses + overlaps) <= mailed[n] + Owed(n) + (losses' + overlaps')
    OBVIOUS
  <2>4. mailed'[n] \in Nat /\ Owed(n)' \in Nat
    OBVIOUS
  <2> HIDE DEF Owed
  <2> QED BY <1>1, <2>1, <2>2, <2>3, <2>4
<1> QED BY <1>2 DEF MailInv

\* What is owed is what running dispatches may mail, and one more if it waits.
LEMMA OwedIs ==
    ASSUME NEW n \in Notes
    PROVE  /\ IsFiniteSet(Mailers(n)) /\ Cardinality(Mailers(n)) \in Nat
           /\ Waits(n) => Owed(n) = Cardinality(Mailers(n)) + 1
           /\ ~Waits(n) => Owed(n) = Cardinality(Mailers(n))
<1>1. Mailers(n) \subseteq Active
  BY DEF Mailers, Finders
<1>2. IsFiniteSet(Mailers(n))
  BY <1>1, ActiveIsFinite, FS_Subset
<1>3. Cardinality(Mailers(n)) \in Nat
  BY <1>2, FS_CardinalityType
<1> QED BY <1>2, <1>3 DEF Owed, One

\* So after a step.
LEMMA OwedIsNow ==
    ASSUME NEW n \in Notes
    PROVE  /\ Cardinality(Mailers(n)') \in Nat
           /\ Waits(n)' => Owed(n)' = Cardinality(Mailers(n)') + 1
           /\ ~Waits(n)' => Owed(n)' = Cardinality(Mailers(n)')
<1>1. Mailers(n)' \subseteq Dispatchers
  BY DEF Mailers, Finders, Active
<1>2. IsFiniteSet(Mailers(n)')
  BY <1>1, NotificationBounds, FS_Subset
<1>3. Cardinality(Mailers(n)') \in Nat
  BY <1>2, FS_CardinalityType
<1> QED BY <1>3 DEF Owed, One

\* No step makes mails and debts of a notification grow by more than losses and overlaps.
LEMMA MailStep ==
    ASSUME TypeOK, TypeOK', RunInv, MailInv, Kinds
    PROVE  MailInv'
<1>0. /\ losses \in Nat /\ overlaps \in Nat /\ losses' \in Nat /\ overlaps' \in Nat
      /\ \A n \in Notes : mailed[n] \in Nat /\ mailed'[n] \in Nat
  BY NotificationBounds DEF TypeOK
<1>a. \A n \in Notes : Owed(n)' \in Nat
  BY OwedIsNow
<1>b. ASSUME NEW n \in Notes, Finders(n)' = Finders(n), Mailers(n)' = Mailers(n),
             row'[n].status \in Settled <=> row[n].status \in Settled
      PROVE  Owed(n)' = Owed(n)
  BY <1>b DEF Owed, One, Waits
<1>1. CASE Quiet
  <2>1. ASSUME NEW n \in Notes
        PROVE  Owed(n)' = Owed(n)
    <3>1. Finders(n)' = Finders(n) /\ Mailers(n)' = Mailers(n)
      BY <1>1 DEF Quiet, Mailers, Finders, Active
    <3>2. row'[n].status \in Settled <=> row[n].status \in Settled
      BY <1>1 DEF Quiet, Settled
    <3> QED BY <1>b, <3>1, <3>2
  <2> QED BY <1>1, <2>1 DEF Quiet, MailInv
<1>2. CASE NewDay
  <2>1. ASSUME NEW n \in Notes
        PROVE  Owed(n)' = Owed(n)
    <3>1. /\ Active' = Active
          /\ \A d \in Active : run'[d].seen = run[d].seen /\ run'[d].sent = run[d].sent
      BY <1>2, NewDays
    <3>2. Finders(n)' = Finders(n)
      BY <3>1 DEF Finders
    <3>3. Mailers(n)' = Mailers(n)
      BY <3>1, <3>2 DEF Mailers, Finders
    <3>4. row' = row
      BY <1>2 DEF NewDay
    <3> QED BY <1>b, <3>2, <3>3, <3>4
  <2> QED BY <1>2, <2>1 DEF NewDay, MailInv
<1>3. ASSUME NEW d \in Dispatchers, Begins(d)
      PROVE  MailInv'
  <2>1. ASSUME NEW n \in Notes
        PROVE  mailed'[n] + Owed(n)' + (losses + overlaps)
                  <= mailed[n] + Owed(n) + (losses' + overlaps')
    <3>1. /\ mailed' = mailed /\ losses' = losses /\ row' = row
          /\ overlaps' = IF Active = {} THEN overlaps ELSE overlaps + 1
      BY <1>3 DEF Begins
    <3>2. CASE row[n].status \in Settled
      <4>1. Owed(n)' = Owed(n)
        BY <1>3, <1>b, <3>1, <3>2, MailersBegin
      <4>2. overlaps <= overlaps' /\ Owed(n) \in Nat
        BY <1>0, <3>1, OwedIs
      <4> QED BY <1>0, <3>1, <4>1, <4>2
    <3>3. CASE row[n].status \notin Settled
      <4>1. Finders(n)' = Finders(n) \cup {d} /\ Mailers(n)' = Mailers(n) \cup {d} /\ d \notin Mailers(n)
        BY <1>3, <3>3, MailersBegin
      <4>2. ~Waits(n)' /\ Cardinality(Mailers(n)') = Cardinality(Mailers(n)) + 1
        BY <4>1, Join, OwedIs DEF Waits
      <4>3. Owed(n)' = Cardinality(Mailers(n)) + 1
        BY <4>2, OwedIsNow
      <4>4. CASE Active = {}
        <5>1. Waits(n)
          BY <3>3, <4>4 DEF Waits, Finders
        <5> QED BY <1>0, <3>1, <4>3, <4>4, <5>1, OwedIs
      <4>5. CASE Active # {}
        <5>1. Owed(n) >= Cardinality(Mailers(n)) /\ Owed(n) \in Nat /\ Cardinality(Mailers(n)) \in Nat
          BY OwedIs
        <5> QED BY <1>0, <3>1, <4>3, <4>5, <5>1
      <4> QED BY <4>4, <4>5
    <3> QED BY <3>2, <3>3
  <2> QED BY <1>0, <1>a, <2>1, MailBalance
<1>4. ASSUME NEW d \in Active, LockTimeout(d)
      PROVE  MailInv'
  <2>1. ASSUME NEW n \in Notes
        PROVE  mailed'[n] + Owed(n)' + (losses + overlaps)
                  <= mailed[n] + Owed(n) + (losses' + overlaps')
    <3>1. /\ mailed' = mailed /\ losses' = losses + 1 /\ overlaps' = overlaps
          /\ run' = [run EXCEPT ![d] = NoRun]
      BY <1>4, LosesOne DEF Loses
    <3>2. Mailers(n)' = Mailers(n) \ {d}
      BY <3>1, MailersEnd
    <3>3. /\ Cardinality(Mailers(n)') \in Nat /\ Cardinality(Mailers(n)) \in Nat
          /\ Cardinality(Mailers(n)') <= Cardinality(Mailers(n))
      BY <3>2, Fewer, OwedIs
    <3>4. Owed(n)' <= Cardinality(Mailers(n)') + 1 /\ Owed(n)' \in Nat
      BY <3>3, OwedIsNow
    <3>5. Owed(n) >= Cardinality(Mailers(n)) /\ Owed(n) \in Nat
      BY OwedIs
    <3> QED BY <1>0, <3>1, <3>3, <3>4, <3>5
  <2> QED BY <1>0, <1>a, <2>1, MailBalance
<1>5. ASSUME NEW d \in Active, Commits(d)
      PROVE  MailInv'
  <2>1. ASSUME NEW n \in Notes
        PROVE  Owed(n)' <= Owed(n)
    <3>1. run' = [run EXCEPT ![d] = NoRun]
      BY <1>5 DEF Commits
    <3>2. Finders(n)' = Finders(n) \ {d} /\ Mailers(n)' = Mailers(n) \ {d}
      BY <3>1, MailersEnd
    <3>3. /\ Cardinality(Mailers(n)) \in Nat /\ Cardinality(Mailers(n)') \in Nat
          /\ d \in Mailers(n) => Cardinality(Mailers(n)') = Cardinality(Mailers(n)) - 1
          /\ d \notin Mailers(n) => Mailers(n)' = Mailers(n)
      BY <3>2, Part, OwedIs
    <3>4. CASE d \in Mailers(n)
      BY <3>3, <3>4, OwedIs, OwedIsNow
    <3>5. CASE d \notin Mailers(n) /\ d \in Finders(n)
      <4>1. n \in run[d].sent
        BY <3>5 DEF Mailers
      <4>2. row'[n].status = "sent"
        BY <1>5, <4>1 DEF Commits
      <4>3. ~Waits(n)'
        BY <4>2 DEF Waits, Settled
      <4> QED BY <3>3, <3>5, <4>3, OwedIs, OwedIsNow
    <3>6. CASE d \notin Finders(n)
      <4>1. n \notin run[d].sent \cup run[d].failed
        <5>1. run[d].seen[n].status \in Settled
          BY <3>6 DEF Finders
        <5>2. n \notin run[d].batch
          BY <5>1 DEF RunInv, Settled
        <5> QED BY <5>2 DEF RunInv
      <4>2. row'[n] = row[n]
        BY <1>5, <4>1 DEF Commits
      <4>3. Finders(n)' = Finders(n) /\ Mailers(n)' = Mailers(n)
        BY <3>2, <3>6 DEF Mailers
      <4>4. Owed(n)' = Owed(n)
        BY <1>b, <4>2, <4>3
      <4>5. Owed(n) \in Nat
        BY OwedIs
      <4> QED BY <4>4, <4>5
    <3> QED BY <3>4, <3>5, <3>6
  <2>2. mailed' = mailed /\ losses' = losses /\ overlaps' = overlaps
    BY <1>5 DEF Commits
  <2>3. \A n \in Notes : Owed(n) \in Nat
    BY OwedIs
  <2>4. \A n \in Notes : mailed'[n] + Owed(n)' + (losses + overlaps)
                            <= mailed[n] + Owed(n) + (losses' + overlaps')
    BY <1>0, <1>a, <2>1, <2>2, <2>3
  <2> QED BY <1>0, <1>a, <2>4, MailBalance
<1>6. ASSUME NEW d \in Active, NEW accepted, NEW stamps, Goes(d, accepted, stamps)
      PROVE  MailInv'
  <2>1. ASSUME NEW n \in Notes
        PROVE  mailed'[n] + Owed(n)' <= mailed[n] + Owed(n)
    <3>1. row' = row /\ mailed'[n] = IF n \in accepted THEN mailed[n] + 1 ELSE mailed[n]
      BY <1>6 DEF Goes, RunGoes
    <3>2. CASE n \notin accepted
      <4>1. Owed(n)' = Owed(n) /\ Owed(n) \in Nat
        BY <1>6, <1>b, <3>1, <3>2, MailersGo, OwedIs DEF Goes
      <4> QED BY <1>0, <3>1, <3>2, <4>1
    <3>3. CASE n \in accepted
      <4>1. /\ Finders(n)' = Finders(n) /\ d \in Finders(n)
            /\ Mailers(n)' = Mailers(n) \ {d} /\ d \in Mailers(n)
        BY <1>6, <3>3, MailersGo DEF Mailers, Goes
      <4>2. ~Waits(n)' /\ ~Waits(n)
        BY <4>1 DEF Waits
      <4>3. Cardinality(Mailers(n)') = Cardinality(Mailers(n)) - 1 /\ Cardinality(Mailers(n)) \in Nat
        BY <4>1, Part, OwedIs
      <4>4. Owed(n)' = Cardinality(Mailers(n)') /\ Owed(n) = Cardinality(Mailers(n))
        BY <4>2, OwedIs, OwedIsNow
      <4> QED BY <1>0, <3>1, <3>3, <4>3, <4>4
    <3> QED BY <3>2, <3>3
  <2>2. losses' = losses /\ overlaps' = overlaps
    BY <1>6 DEF Goes, RunGoes
  <2>3. \A n \in Notes : Owed(n) \in Nat
    BY OwedIs
  <2>4. \A n \in Notes : mailed'[n] + Owed(n)' + (losses + overlaps)
                            <= mailed[n] + Owed(n) + (losses' + overlaps')
    BY <1>0, <1>a, <2>1, <2>2, <2>3
  <2> QED BY <1>0, <1>a, <2>4, MailBalance
<1>7. ASSUME NEW d \in Active, NEW a \in Addresses, SendsDigest(d, a)
      PROVE  MailInv'
  BY <1>6, <1>7, Sends
<1>8. CASE Crash
  <2>1. ASSUME NEW n \in Notes
        PROVE  mailed'[n] + Owed(n)' + (losses + overlaps)
                  <= mailed[n] + Owed(n) + (losses' + overlaps')
    <3>1. Active' = {} /\ mailed' = mailed /\ losses' = losses + 1 /\ overlaps' = overlaps
      BY <1>8, Crashed
    <3>2. Cardinality(Mailers(n)') = 0
      <4>1. Mailers(n)' = {}
        BY <3>1 DEF Mailers, Finders
      <4> QED BY <4>1, FS_EmptySet
    <3>3. Owed(n)' \in {0, 1}
      BY <3>2, OwedIsNow
    <3>4. Owed(n) \in Nat
      BY OwedIs
    <3> QED BY <1>0, <3>1, <3>3, <3>4
  <2> QED BY <1>0, <1>a, <2>1, MailBalance
<1>9. ASSUME NEW d \in Active, Unheard(d)
      PROVE  MailInv'
  <2>1. RunGoes(d, {}, {}) /\ row' = row /\ losses' = losses + 1 /\ overlaps' = overlaps
    BY <1>9 DEF Unheard
  <2>2. ASSUME NEW n \in Notes
        PROVE  mailed'[n] + Owed(n)' + (losses + overlaps)
                  <= mailed[n] + Owed(n) + (losses' + overlaps')
    <3>1. Finders(n)' = Finders(n) /\ Mailers(n)' = Mailers(n)
      BY <2>1, MailersGo
    <3>2. Owed(n)' = Owed(n) /\ Owed(n) \in Nat
      BY <1>b, <2>1, <3>1, OwedIs
    <3>3. mailed'[n] <= mailed[n] + 1
      BY <1>0, <1>9 DEF Unheard
    <3> QED BY <1>0, <2>1, <3>2, <3>3
  <2> QED BY <1>0, <1>a, <2>2, MailBalance
<1> QED BY <1>1, <1>2, <1>3, <1>4, <1>5, <1>6, <1>7, <1>8, <1>9 DEF Kinds, Mails
-----------------------------------------------------------------------------
(***************************************************************************)
(* The account of the digests                                              *)
(***************************************************************************)
LEMMA SendersEnd ==
    ASSUME TypeOK, NEW d \in Active, run' = [run EXCEPT ![d] = NoRun], NEW s \in Subscribers
    PROVE  /\ Concerned(s)' = Concerned(s) \ {d}
           /\ Senders(s)' = Senders(s) \ {d}
<1>1. Active' = Active \ {d} /\ \A e \in Active' : run'[e] = run[e]
  BY Ended
<1>2. \A e \in Active' : Digests(e, s)' <=> Digests(e, s)
  BY <1>1 DEF Digests
<1> QED BY <1>1, <1>2 DEF Concerned, Senders

\* A dispatch that begins may send a digest to those who are due one.
LEMMA SendersBegin ==
    ASSUME TypeOK, NEW d \in Dispatchers, Begins(d), NEW s \in Subscribers
    PROVE  \/ /\ Concerned(s)' = Concerned(s) /\ Senders(s)' = Senders(s)
           \/ /\ Concerned(s)' = Concerned(s) \cup {d} /\ Senders(s)' = Senders(s) \cup {d}
              /\ d \notin Senders(s) /\ ~sentToday[s]
<1>1. /\ d \notin Active /\ Active' = Active \cup {d}
      /\ \A e \in Active : run'[e] = run[e]
  BY Begun
<1>2. \A e \in Active : Digests(e, s)' <=> Digests(e, s)
  BY <1>1 DEF Digests
<1>3. run'[d].today /\ run'[d].stamped = {}
  BY DEF Begins
<1>4. Digests(d, s)' => ~sentToday[s]
  <2>1. ASSUME NEW a \in Addresses, run'[d].route[a] # NoSubscription,
               run'[d].route[a].who = s, run'[d].route[a].how = "digest"
        PROVE  ~sentToday[s]
    BY <2>1 DEF Begins
  <2> QED BY <2>1 DEF Digests
<1>5. CASE Digests(d, s)'
  <2>1. Concerned(s)' = Concerned(s) \cup {d}
    BY <1>1, <1>2, <1>5 DEF Concerned
  <2>2. Senders(s)' = Senders(s) \cup {d}
    BY <1>1, <1>2, <1>3, <1>5 DEF Senders
  <2>3. d \notin Senders(s)
    BY <1>1 DEF Senders
  <2> QED BY <1>4, <1>5, <2>1, <2>2, <2>3
<1>6. CASE ~Digests(d, s)'
  <2>1. Concerned(s)' = Concerned(s)
    BY <1>1, <1>2, <1>3, <1>6 DEF Concerned
  <2>2. Senders(s)' = Senders(s)
    BY <1>1, <1>2, <1>3, <1>6 DEF Senders
  <2> QED BY <2>1, <2>2
<1> QED BY <1>5, <1>6

\* A digest of today is the last its dispatch owes the subscription.
LEMMA SendersGo ==
    ASSUME TypeOK, NEW d \in Active, NEW accepted, NEW stamps, RunGoes(d, accepted, stamps),
           NEW s \in Subscribers
    PROVE  /\ Concerned(s)' = Concerned(s)
           /\ Senders(s)' \subseteq Senders(s)
           /\ run[d].today /\ s \in stamps => d \notin Senders(s)'
<1>1. Active' = Active /\ \A e \in Active \ {d} : run'[e] = run[e]
  BY Gone
<1>2. /\ run'[d].route = run[d].route /\ run'[d].today = run[d].today
      /\ run'[d].stamped = run[d].stamped \cup stamps
  BY DEF RunGoes
<1>3. \A e \in Active : Digests(e, s)' <=> Digests(e, s)
  BY <1>1, <1>2 DEF Digests
<1>4. Concerned(s)' = Concerned(s)
  BY <1>1, <1>2, <1>3 DEF Concerned
<1>5. Senders(s)' \subseteq Senders(s)
  BY <1>1, <1>2, <1>3 DEF Senders
<1>6. run[d].today /\ s \in stamps => d \notin Senders(s)'
  BY <1>2 DEF Senders
<1> QED BY <1>4, <1>5, <1>6

\* What is owed today is what running dispatches may send, and one more if it is due.
LEMMA OwedTodayIs ==
    ASSUME NEW s \in Subscribers
    PROVE  /\ IsFiniteSet(Senders(s)) /\ Cardinality(Senders(s)) \in Nat
           /\ IsDue(s) => OwedToday(s) = Cardinality(Senders(s)) + 1
           /\ ~IsDue(s) => OwedToday(s) = Cardinality(Senders(s))
<1>1. Senders(s) \subseteq Active
  BY DEF Senders
<1>2. IsFiniteSet(Senders(s))
  BY <1>1, ActiveIsFinite, FS_Subset
<1>3. Cardinality(Senders(s)) \in Nat
  BY <1>2, FS_CardinalityType
<1> QED BY <1>2, <1>3 DEF OwedToday, One

\* So after a step.
LEMMA OwedTodayIsNow ==
    ASSUME NEW s \in Subscribers
    PROVE  /\ Cardinality(Senders(s)') \in Nat
           /\ IsDue(s)' => OwedToday(s)' = Cardinality(Senders(s)') + 1
           /\ ~IsDue(s)' => OwedToday(s)' = Cardinality(Senders(s)')
<1>1. Senders(s)' \subseteq Dispatchers
  BY DEF Senders, Active
<1>2. IsFiniteSet(Senders(s)')
  BY <1>1, NotificationBounds, FS_Subset
<1>3. Cardinality(Senders(s)') \in Nat
  BY <1>2, FS_CardinalityType
<1> QED BY <1>3 DEF OwedToday, One

\* The account of a day stays balanced if what is added is a loss or an overlap.
LEMMA DayBalance ==
    ASSUME TypeOK, DayInv,
           \A s \in Subscribers : digests'[s] + OwedToday(s)' + (losses + overlaps)
                               <= digests[s] + OwedToday(s) + (losses' + overlaps'),
           losses' \in Nat, overlaps' \in Nat,
           \A s \in Subscribers : digests'[s] \in Nat /\ OwedToday(s)' \in Nat
    PROVE  DayInv'
<1>1. losses \in Nat /\ overlaps \in Nat
  BY NotificationBounds DEF TypeOK
<1>2. ASSUME NEW s \in Subscribers
      PROVE  digests'[s] + OwedToday(s)' <= 1 + losses' + overlaps'
  <2>1. OwedToday(s) \in Nat
    BY OwedTodayIs
  <2>2. digests[s] \in Nat /\ digests[s] + OwedToday(s) <= 1 + losses + overlaps
    BY DEF TypeOK, DayInv
  <2>3. digests'[s] + OwedToday(s)' + (losses + overlaps)
            <= digests[s] + OwedToday(s) + (losses' + overlaps')
    OBVIOUS
  <2>4. digests'[s] \in Nat /\ OwedToday(s)' \in Nat
    OBVIOUS
  <2> HIDE DEF OwedToday
  <2> QED BY <1>1, <2>1, <2>2, <2>3, <2>4
<1> QED BY <1>2 DEF DayInv

\* No step makes digests and debts of a day grow by more than losses and overlaps.
LEMMA DayStep ==
    ASSUME TypeOK, TypeOK', RouteInv, ActiveInv, DayInv, Kinds
    PROVE  DayInv'
<1>0. /\ losses \in Nat /\ overlaps \in Nat /\ losses' \in Nat /\ overlaps' \in Nat
      /\ \A s \in Subscribers : digests[s] \in Nat /\ digests'[s] \in Nat
  BY NotificationBounds DEF TypeOK
<1>a. \A s \in Subscribers : OwedToday(s)' \in Nat /\ OwedToday(s) \in Nat
  BY OwedTodayIs, OwedTodayIsNow
<1>b. ASSUME NEW s \in Subscribers, Concerned(s)' = Concerned(s), Senders(s)' = Senders(s),
             sentToday'[s] = sentToday[s]
      PROVE  OwedToday(s)' = OwedToday(s)
  BY <1>b DEF OwedToday, One, IsDue
<1>1. CASE Quiet
  <2>1. ASSUME NEW s \in Subscribers
        PROVE  OwedToday(s)' = OwedToday(s)
    BY <1>1 DEF Quiet, OwedToday, One, IsDue, Concerned, Senders, Digests, Active
  <2> QED BY <1>1, <2>1 DEF Quiet, DayInv
<1>2. CASE NewDay
  <2>1. ASSUME NEW s \in Subscribers
        PROVE  digests'[s] + OwedToday(s)' <= 1 + losses' + overlaps'
    <3>1. digests'[s] = 0 /\ losses' = losses /\ overlaps' = overlaps
      BY <1>2 DEF NewDay
    <3>2. Active' = Active /\ \A d \in Active : run'[d].today = FALSE
      BY <1>2, NewDays
    <3>3. Senders(s)' = Active /\ Concerned(s)' = Active
      BY <3>2 DEF Senders, Concerned
    <3>4. CASE Active = {}
      <4>1. Cardinality(Senders(s)') = 0
        BY <3>3, <3>4, FS_EmptySet
      <4>2. OwedToday(s)' \in {0, 1}
        BY <4>1, OwedTodayIsNow
      <4> QED BY <1>0, <3>1, <4>2
    <3>5. CASE Active # {}
      <4>1. ~IsDue(s)'
        BY <3>3, <3>5 DEF IsDue
      <4>2. OwedToday(s)' = Cardinality(Active) /\ Cardinality(Active) \in Nat
        BY <3>3, <4>1, OwedTodayIsNow, ActiveIsFinite
      <4> QED BY <1>0, <3>1, <4>2 DEF ActiveInv
    <3> QED BY <3>4, <3>5
  <2> QED BY <2>1 DEF DayInv
<1>3. ASSUME NEW d \in Dispatchers, Begins(d)
      PROVE  DayInv'
  <2>1. ASSUME NEW s \in Subscribers
        PROVE  digests'[s] + OwedToday(s)' + (losses + overlaps)
                  <= digests[s] + OwedToday(s) + (losses' + overlaps')
    <3>1. /\ digests' = digests /\ losses' = losses /\ sentToday' = sentToday
          /\ overlaps' = IF Active = {} THEN overlaps ELSE overlaps + 1
      BY <1>3 DEF Begins
    <3>2. CASE Concerned(s)' = Concerned(s) /\ Senders(s)' = Senders(s)
      <4>1. OwedToday(s)' = OwedToday(s)
        BY <1>b, <3>1, <3>2
      <4>2. overlaps <= overlaps'
        BY <1>0, <3>1
      <4> QED BY <1>0, <1>a, <3>1, <4>1, <4>2
    <3>3. CASE /\ Concerned(s)' = Concerned(s) \cup {d} /\ Senders(s)' = Senders(s) \cup {d}
               /\ d \notin Senders(s) /\ ~sentToday[s]
      <4>1. ~IsDue(s)' /\ Cardinality(Senders(s)') = Cardinality(Senders(s)) + 1
        BY <3>3, Join, OwedTodayIs DEF IsDue
      <4>2. OwedToday(s)' = Cardinality(Senders(s)) + 1
        BY <4>1, OwedTodayIsNow
      <4>3. CASE Active = {}
        <5>1. IsDue(s)
          BY <3>3, <4>3 DEF IsDue, Concerned
        <5> QED BY <1>0, <3>1, <4>2, <4>3, <5>1, OwedTodayIs
      <4>4. CASE Active # {}
        <5>1. OwedToday(s) >= Cardinality(Senders(s)) /\ Cardinality(Senders(s)) \in Nat
          BY OwedTodayIs
        <5> QED BY <1>0, <1>a, <3>1, <4>2, <4>4, <5>1
      <4> QED BY <4>3, <4>4
    <3> QED BY <1>3, <3>2, <3>3, SendersBegin
  <2> QED BY <1>0, <1>a, <2>1, DayBalance
<1>4. ASSUME NEW d \in Active, LockTimeout(d)
      PROVE  DayInv'
  <2>1. ASSUME NEW s \in Subscribers
        PROVE  digests'[s] + OwedToday(s)' + (losses + overlaps)
                  <= digests[s] + OwedToday(s) + (losses' + overlaps')
    <3>1. /\ digests' = digests /\ losses' = losses + 1 /\ overlaps' = overlaps
          /\ run' = [run EXCEPT ![d] = NoRun]
      BY <1>4, LosesOne DEF Loses
    <3>2. Senders(s)' = Senders(s) \ {d}
      BY <3>1, SendersEnd
    <3>3. /\ Cardinality(Senders(s)') \in Nat /\ Cardinality(Senders(s)) \in Nat
          /\ Cardinality(Senders(s)') <= Cardinality(Senders(s))
      BY <3>2, Fewer, OwedTodayIs
    <3>4. OwedToday(s)' <= Cardinality(Senders(s)') + 1
      BY <3>3, OwedTodayIsNow
    <3>5. OwedToday(s) >= Cardinality(Senders(s))
      BY OwedTodayIs
    <3> QED BY <1>0, <1>a, <3>1, <3>3, <3>4, <3>5
  <2> QED BY <1>0, <1>a, <2>1, DayBalance
<1>5. ASSUME NEW d \in Active, Commits(d)
      PROVE  DayInv'
  <2>1. ASSUME NEW s \in Subscribers
        PROVE  OwedToday(s)' <= OwedToday(s)
    <3>1. run' = [run EXCEPT ![d] = NoRun]
      BY <1>5 DEF Commits
    <3>2. Concerned(s)' = Concerned(s) \ {d} /\ Senders(s)' = Senders(s) \ {d}
      BY <3>1, SendersEnd
    <3>3. /\ Cardinality(Senders(s)) \in Nat /\ Cardinality(Senders(s)') \in Nat
          /\ d \in Senders(s) => Cardinality(Senders(s)') = Cardinality(Senders(s)) - 1
          /\ d \notin Senders(s) => Senders(s)' = Senders(s)
      BY <3>2, Part, OwedTodayIs
    <3>4. sentToday'[s] = IF s \in run[d].stamped THEN run[d].today ELSE sentToday[s]
      BY <1>5 DEF Commits
    <3>5. CASE d \in Senders(s)
      BY <3>3, <3>5, OwedTodayIs, OwedTodayIsNow
    <3>6. CASE d \notin Senders(s) /\ s \in run[d].stamped
      <4>1. run[d].today
        BY <3>6 DEF Senders
      <4>2. ~IsDue(s)'
        BY <3>4, <3>6, <4>1 DEF IsDue
      <4> QED BY <3>3, <3>6, <4>2, OwedTodayIs, OwedTodayIsNow
    <3>7. CASE d \notin Senders(s) /\ s \notin run[d].stamped
      <4>1. d \notin Concerned(s)
        BY <3>7 DEF Senders, Concerned
      <4>2. Concerned(s)' = Concerned(s) /\ Senders(s)' = Senders(s)
        BY <3>2, <3>7, <4>1
      <4>3. sentToday'[s] = sentToday[s]
        BY <3>4, <3>7
      <4>4. OwedToday(s)' = OwedToday(s)
        BY <1>b, <4>2, <4>3
      <4> QED BY <1>a, <4>4
    <3> QED BY <3>5, <3>6, <3>7
  <2>2. digests' = digests /\ losses' = losses /\ overlaps' = overlaps
    BY <1>5 DEF Commits
  <2>3. \A s \in Subscribers : digests'[s] + OwedToday(s)' + (losses + overlaps)
                            <= digests[s] + OwedToday(s) + (losses' + overlaps')
    BY <1>0, <1>a, <2>1, <2>2
  <2> QED BY <1>0, <1>a, <2>3, DayBalance
<1>6. ASSUME NEW d \in Active, NEW accepted, NEW stamps, RunGoes(d, accepted, stamps),
             NEW s \in Subscribers, UNCHANGED sentToday
      PROVE  OwedToday(s)' <= OwedToday(s)
  <2>1. Concerned(s)' = Concerned(s) /\ Senders(s)' \subseteq Senders(s)
    BY <1>6, SendersGo
  <2>2. Cardinality(Senders(s)') <= Cardinality(Senders(s))
    BY <2>1, Fewer, OwedTodayIs
  <2>3. IsDue(s)' <=> IsDue(s)
    BY <1>6, <2>1 DEF IsDue
  <2> QED BY <2>2, <2>3, OwedTodayIs, OwedTodayIsNow
<1>7. ASSUME NEW d \in Active, NEW accepted, NEW stamps, Mails(d, accepted, stamps)
      PROVE  DayInv'
  <2>1. digests' = digests /\ losses' = losses /\ overlaps' = overlaps
    BY <1>7 DEF Mails, Goes, RunGoes
  <2>2. \A s \in Subscribers : OwedToday(s)' <= OwedToday(s)
    BY <1>6, <1>7 DEF Mails, Goes
  <2>3. \A s \in Subscribers : digests'[s] + OwedToday(s)' + (losses + overlaps)
                            <= digests[s] + OwedToday(s) + (losses' + overlaps')
    BY <1>0, <1>a, <2>1, <2>2
  <2> QED BY <1>0, <1>a, <2>3, DayBalance
<1>8. ASSUME NEW d \in Active, NEW a \in Addresses, SendsDigest(d, a)
      PROVE  DayInv'
  <2> DEFINE who == run[d].route[a].who
  <2>1. Goes(d, GroupOf(d, a), {who}) /\ who \in Subscribers
    BY <1>8, Sends
  <2>a. RunGoes(d, GroupOf(d, a), {who}) /\ sentToday' = sentToday
    BY <2>1 DEF Goes
  <2>2. losses' = losses /\ overlaps' = overlaps
    BY <2>1 DEF Goes, RunGoes
  <2>3. /\ digests' = [digests EXCEPT ![who] = IF run[d].today THEN @ + 1 ELSE @]
        /\ run[d].route[a] # NoSubscription /\ run[d].route[a].how = "digest"
        /\ \E n \in run[d].rest : To(n) = a
    BY <1>8 DEF SendsDigest
  <2>4. who \notin run[d].stamped
    BY <2>3 DEF RouteInv
  <2>5. Digests(d, who)
    BY <2>3 DEF Digests
  <2>6. d \in Senders(who)
    BY <2>4, <2>5 DEF Senders
  <2> HIDE DEF who
  <2>7. ASSUME NEW s \in Subscribers
        PROVE  digests'[s] + OwedToday(s)' <= digests[s] + OwedToday(s)
    <3>1. OwedToday(s)' <= OwedToday(s)
      BY <1>6, <2>a
    <3>2. CASE s = who /\ run[d].today
      <4>1. digests'[s] = digests[s] + 1
        BY <2>1, <2>3, <3>2 DEF TypeOK
      <4>2. /\ Concerned(s)' = Concerned(s) /\ Senders(s)' \subseteq Senders(s)
            /\ d \notin Senders(s)'
        BY <2>a, <3>2, SendersGo
      <4>3. Senders(s)' \subseteq Senders(s) \ {d}
        BY <4>2
      <4>4. /\ Cardinality(Senders(s) \ {d}) = Cardinality(Senders(s)) - 1
            /\ Cardinality(Senders(s)) \in Nat /\ IsFiniteSet(Senders(s) \ {d})
        BY <2>6, <3>2, Part, OwedTodayIs, FS_Subset
      <4>5. Cardinality(Senders(s)') <= Cardinality(Senders(s)) - 1
        BY <4>3, <4>4, Fewer
      <4>6. ~IsDue(s) /\ ~IsDue(s)'
        <5>1. d \in Concerned(s)
          BY <2>6, <3>2 DEF Concerned, Senders
        <5> QED BY <4>2, <5>1 DEF IsDue
      <4>7. /\ OwedToday(s)' = Cardinality(Senders(s)') /\ OwedToday(s) = Cardinality(Senders(s))
            /\ Cardinality(Senders(s)') \in Nat
        BY <4>6, OwedTodayIs, OwedTodayIsNow
      <4> QED BY <1>0, <4>1, <4>4, <4>5, <4>7
    <3>3. CASE ~(s = who /\ run[d].today)
      <4>1. digests'[s] = digests[s]
        BY <2>1, <2>3, <3>3 DEF TypeOK
      <4> QED BY <1>0, <1>a, <3>1, <4>1
    <3> QED BY <3>2, <3>3
  <2>8. \A s \in Subscribers : digests'[s] + OwedToday(s)' + (losses + overlaps)
                            <= digests[s] + OwedToday(s) + (losses' + overlaps')
    BY <1>0, <1>a, <2>2, <2>7
  <2> QED BY <1>0, <1>a, <2>8, DayBalance
<1>9. CASE Crash
  <2>1. ASSUME NEW s \in Subscribers
        PROVE  digests'[s] + OwedToday(s)' + (losses + overlaps)
                  <= digests[s] + OwedToday(s) + (losses' + overlaps')
    <3>1. Active' = {} /\ digests' = digests /\ losses' = losses + 1 /\ overlaps' = overlaps
      BY <1>9, Crashed
    <3>2. Cardinality(Senders(s)') = 0
      <4>1. Senders(s)' = {}
        BY <3>1 DEF Senders
      <4> QED BY <4>1, FS_EmptySet
    <3>3. OwedToday(s)' \in {0, 1}
      BY <3>2, OwedTodayIsNow
    <3> QED BY <1>0, <1>a, <3>1, <3>3
  <2> QED BY <1>0, <1>a, <2>1, DayBalance
<1>10. ASSUME NEW d \in Active, Unheard(d)
       PROVE  DayInv'
  <2>1. /\ RunGoes(d, {}, {}) /\ sentToday' = sentToday
        /\ losses' = losses + 1 /\ overlaps' = overlaps
    BY <1>10 DEF Unheard
  <2>2. ASSUME NEW s \in Subscribers
        PROVE  digests'[s] + OwedToday(s)' + (losses + overlaps)
                  <= digests[s] + OwedToday(s) + (losses' + overlaps')
    <3>1. OwedToday(s)' <= OwedToday(s)
      BY <1>6, <2>1
    <3>2. digests'[s] <= digests[s] + 1
      BY <1>0, <1>10 DEF Unheard
    <3> QED BY <1>0, <1>a, <2>1, <3>1, <3>2
  <2> QED BY <1>0, <1>a, <2>2, DayBalance
<1> QED BY <1>1, <1>2, <1>3, <1>4, <1>5, <1>7, <1>8, <1>9, <1>10 DEF Kinds
-----------------------------------------------------------------------------
(***************************************************************************)
(* Theorems                                                                *)
(***************************************************************************)
LEMMA BaseInit ==
    ASSUME Init
    PROVE  NInv
<1>1. TypeOK
  <2>1. queue \in Seq(Notes)
    BY EmptySeq DEF Init
  <2>2. row \in [Notes -> Row]
    BY NotificationBounds DEF Init, Row
  <2>3. sub \in [Subscribers -> Subscription \cup {NoSubscription}]
        /\ sentToday \in [Subscribers -> BOOLEAN]
    BY DEF Init
  <2>4. writer \in Dispatchers \cup {Free, Elsewhere} /\ run \in [Dispatchers -> Run \cup {NoRun}]
    BY DEF Init
  <2>5. /\ reached \in SUBSET Subscribers
        /\ edits \in 0 .. MaxEdits /\ losses \in 0 .. MaxLosses /\ overlaps \in 0 .. MaxOverlaps
    BY NotificationBounds DEF Init
  <2>6. mailed \in [Notes -> Nat] /\ digests \in [Subscribers -> Nat]
    BY DEF Init
  <2> QED BY <2>1, <2>2, <2>3, <2>4, <2>5, <2>6 DEF TypeOK
<1>2. Active = {}
  BY DEF Init, Active
<1>3. RunInv /\ RouteInv
  BY <1>2 DEF RunInv, RouteInv
<1>4. RowInv
  BY NotificationBounds DEF Init, RowInv
<1>5. ActiveInv
  BY <1>2, FS_EmptySet DEF Init, ActiveInv
<1>6. MailInv
  <2>1. \A n \in Notes : Mailers(n) = {}
    BY <1>2 DEF Mailers, Finders
  <2>2. \A n \in Notes : Owed(n) \in {0, 1}
    BY <2>1, OwedIs, FS_EmptySet
  <2> QED BY <2>2 DEF Init, MailInv
<1>7. DayInv
  <2>1. \A s \in Subscribers : Senders(s) = {}
    BY <1>2 DEF Senders
  <2>2. \A s \in Subscribers : OwedToday(s) \in {0, 1}
    BY <2>1, OwedTodayIs, FS_EmptySet
  <2> QED BY <2>2 DEF Init, DayInv
<1> QED BY <1>1, <1>3, <1>4, <1>5, <1>6, <1>7 DEF NInv

\* Every step keeps all parts of the invariant.
LEMMA Preserved ==
    ASSUME NInv, [Next]_vars
    PROVE  NInv'
<1>1. TypeOK /\ RunInv /\ RouteInv /\ RowInv /\ ActiveInv /\ MailInv /\ DayInv
  BY DEF NInv
<1>2. Kinds
  BY <1>1, Kind
<1>3. TypeOK'
  BY <1>1, <1>2, TypeStep
<1>4. RunInv' /\ RouteInv' /\ RowInv' /\ ActiveInv'
  BY <1>1, <1>2, RunStep, RouteStep, RowStep, ActiveStep
<1>5. MailInv' /\ DayInv'
  BY <1>1, <1>2, <1>3, MailStep, DayStep
<1> QED BY <1>3, <1>4, <1>5 DEF NInv

\* The parts of the invariant hold of every state the queue and its dispatches reach.
THEOREM Invariant == Spec => []NInv
<1>1. Init => NInv
  BY BaseInit
<1>2. NInv /\ [Next]_vars => NInv'
  BY Preserved
<1> QED BY <1>1, <1>2, PTL DEF Spec

\* Every variable keeps its type; no notification has more attempts than are allowed.
THEOREM TypeCorrect == Spec => []TypeOK
<1>1. NInv => TypeOK
  BY DEF NInv
<1> QED BY <1>1, Invariant, PTL

\* What a row says is sent was taken by the SMTP server, with any number of dispatches
\* under way, lost or late.
THEOREM SentIsTrue == Spec => []SentWasMailed
<1>1. NInv => SentWasMailed
  BY DEF NInv, RowInv, SentWasMailed
<1> QED BY <1>1, Invariant, PTL

\* A notification is mailed once, and once more at most for every outcome that was lost
\* (a dispatch cut off, a sender that raised although its mail was taken) and for every
\* dispatch that overlapped another.
THEOREM DuplicatesAreAccounted == Spec => []DuplicatesNeedLoss
<1>1. ASSUME NInv, NEW n \in Notes
      PROVE  mailed[n] <= 1 + losses + overlaps
  <2>1. mailed[n] \in Nat /\ losses \in Nat /\ overlaps \in Nat
    BY <1>1, NotificationBounds DEF NInv, TypeOK
  <2>2. Owed(n) \in Nat
    BY OwedIs
  <2>3. mailed[n] + Owed(n) <= 1 + losses + overlaps
    BY <1>1 DEF NInv, MailInv
  <2> QED BY <2>1, <2>2, <2>3
<1>2. NInv => DuplicatesNeedLoss
  BY <1>1 DEF DuplicatesNeedLoss
<1> QED BY <1>2, Invariant, PTL

\* So with the digests of a day, across midnight too.
THEOREM DigestsAreAccounted == Spec => []OneDigestPerDay
<1>1. ASSUME NInv, NEW s \in Subscribers
      PROVE  digests[s] <= 1 + losses + overlaps
  <2>1. digests[s] \in Nat /\ losses \in Nat /\ overlaps \in Nat
    BY <1>1, NotificationBounds DEF NInv, TypeOK
  <2>2. OwedToday(s) \in Nat
    BY OwedTodayIs
  <2>3. digests[s] + OwedToday(s) <= 1 + losses + overlaps
    BY <1>1 DEF NInv, DayInv
  <2> QED BY <2>1, <2>2, <2>3
<1>2. NInv => OneDigestPerDay
  BY <1>1 DEF OneDigestPerDay
<1> QED BY <1>2, Invariant, PTL

\* With one dispatcher, what is settled was so when the dispatch under way began.
SeenInv ==
    \A d \in Active : \A n \in Notes :
        row[n].status \in Settled => run[d].seen[n].status \in Settled

\* With one dispatcher, what it found open stays open until it commits.
LEMMA SeenStep ==
    ASSUME \A d, e \in Dispatchers : d = e, NInv, SeenInv, Kinds
    PROVE  SeenInv'
<1>1. TypeOK
  BY DEF NInv
<1>2. CASE Quiet
  BY <1>2 DEF Quiet, SeenInv, Active, Settled
<1>3. CASE NewDay
  <2>1. Active' = Active /\ \A d \in Active : run'[d].seen = run[d].seen
    BY <1>1, <1>3, NewDays
  <2>2. row' = row
    BY <1>3 DEF NewDay
  <2> QED BY <2>1, <2>2 DEF SeenInv
<1>4. ASSUME NEW d \in Dispatchers, Begins(d)
      PROVE  SeenInv'
  <2>1. \A e \in Active' : e = d
    BY DEF Active
  <2> QED BY <1>4, <2>1 DEF SeenInv, Begins
<1>5. ASSUME NEW d \in Active, run' = [run EXCEPT ![d] = NoRun]
      PROVE  SeenInv'
  <2>1. Active' = {}
    BY <1>1, <1>5, Ended DEF Active
  <2> QED BY <2>1 DEF SeenInv
<1>6. ASSUME NEW d \in Active, NEW accepted, NEW stamps, RunGoes(d, accepted, stamps),
             UNCHANGED row
      PROVE  SeenInv'
  <2>1. Active' = Active
    BY <1>1, <1>6, Gone
  <2>2. \A e \in Active : e = d
    BY DEF Active
  <2> QED BY <1>6, <2>1, <2>2 DEF SeenInv, RunGoes
<1>7. ASSUME NEW d \in Active, NEW a \in Addresses, SendsDigest(d, a)
      PROVE  SeenInv'
  BY <1>1, <1>6, <1>7, Sends DEF Goes
<1>8. CASE Crash
  BY <1>8, Crashed DEF SeenInv
<1>9. ASSUME NEW d \in Active, Unheard(d)
      PROVE  SeenInv'
  BY <1>6, <1>9 DEF Unheard
<1>10. ASSUME NEW d \in Active, NEW accepted, NEW stamps, Mails(d, accepted, stamps)
       PROVE  SeenInv'
  BY <1>6, <1>10 DEF Mails, Goes
<1> QED BY <1>2, <1>3, <1>4, <1>5, <1>7, <1>8, <1>9, <1>10 DEF Kinds, LockTimeout, Commits

\* So what is settled is neither written nor mailed by any step.
LEMMA SettledStep ==
    ASSUME NInv, SeenInv, Kinds, NEW n \in Notes, row[n].status \in Settled
    PROVE  row'[n] = row[n] /\ mailed'[n] = mailed[n]
<1>1. \A d \in Active : n \notin run[d].batch
  BY DEF NInv, RunInv, SeenInv, Settled
<1>2. \A d \in Active : n \notin run[d].rest /\ n \notin run[d].sent \cup run[d].failed
  BY <1>1 DEF NInv, RunInv
<1>3. CASE Quiet
  BY <1>3 DEF Quiet, Settled
<1>4. CASE NewDay
  BY <1>4 DEF NewDay
<1>5. ASSUME NEW d \in Dispatchers, Begins(d)
      PROVE  row'[n] = row[n] /\ mailed'[n] = mailed[n]
  BY <1>5 DEF Begins
<1>6. ASSUME NEW d \in Active, LockTimeout(d)
      PROVE  row'[n] = row[n] /\ mailed'[n] = mailed[n]
  BY <1>6, LosesOne DEF Loses
<1>7. ASSUME NEW d \in Active, Commits(d)
      PROVE  row'[n] = row[n] /\ mailed'[n] = mailed[n]
  BY <1>2, <1>7 DEF Commits
<1>8. ASSUME NEW d \in Active, NEW accepted, NEW stamps, Goes(d, accepted, stamps)
      PROVE  row'[n] = row[n] /\ mailed'[n] = mailed[n]
  BY <1>2, <1>8 DEF Goes, RunGoes
<1>9. ASSUME NEW d \in Active, NEW a \in Addresses, SendsDigest(d, a)
      PROVE  row'[n] = row[n] /\ mailed'[n] = mailed[n]
  <2>1. TypeOK
    BY DEF NInv
  <2> QED BY <1>8, <1>9, <2>1, Sends
<1>10. CASE Crash
  BY <1>10, Crashed
<1>11. ASSUME NEW d \in Active, Unheard(d)
       PROVE  row'[n] = row[n] /\ mailed'[n] = mailed[n]
  BY <1>2, <1>11 DEF Unheard
<1> QED BY <1>3, <1>4, <1>5, <1>6, <1>7, <1>8, <1>9, <1>10, <1>11 DEF Kinds, Mails

\* With one dispatcher, what is sent or given up is never mailed or changed again,
\* whatever is lost.
THEOREM SettledStays ==
    ASSUME \A d, e \in Dispatchers : d = e
    PROVE  Spec => SettledIsFinal
<1>1. Init => SeenInv
  BY DEF Init, SeenInv, Active
<1>2. NInv /\ [Next]_vars => Kinds
  BY Kind DEF NInv
<1>3. NInv /\ SeenInv /\ [Next]_vars => SeenInv'
  BY <1>2, SeenStep
<1>4. ASSUME NInv, SeenInv, [Next]_vars
      PROVE  [\A n \in Notes :
                 row[n].status \in {"sent", "dead"} =>
                    row'[n] = row[n] /\ mailed'[n] = mailed[n]]_vars
  <2>1. Kinds
    BY <1>2, <1>4
  <2> QED BY <1>4, <2>1, SettledStep DEF Settled
<1> QED BY <1>1, <1>3, <1>4, Invariant, PTL DEF Spec, SettledIsFinal
===============================================================================
