---------------------------- MODULE ClustersProofs ----------------------------
(***************************************************************************)
(* Proofs about Clusters: that the tables stay well formed, that a locked  *)
(* event gets no article from a batch, and that corrections lose none, for *)
(* any articles, events, sessions and window.                              *)
(***************************************************************************)
EXTENDS Clusters, WellFoundedInduction, TLAPS

(***************************************************************************)
(* Times                                                                   *)
(***************************************************************************)
\* A set of times that is not empty has a greatest one (the maximum of last_seen and
\* published_at in ingest_article and merge_events).
LEMMA GreatestTime ==
    ASSUME NEW times \in SUBSET Times, times # {}
    PROVE  /\ Greatest(times) \in times
           /\ \A u \in times : u <= Greatest(times)
<1> DEFINE rest == {MaxTime - t : t \in times}
<1>0. MaxTime \in Nat /\ \A t \in times : t \in Nat /\ MaxTime - t \in Nat
  BY ClusterTimes DEF Times
<1>1. rest \subseteq Nat /\ rest # {}
  BY <1>0
<1>2. PICK x \in rest : \A y \in rest : ~(<<y, x>> \in OpToRel(<, Nat))
  <2> HIDE DEF rest
  <2> QED BY <1>1, NatLessThanWellFounded, WFMin
<1>3. ASSUME NEW y \in rest
      PROVE  x <= y
  <2>1. x \in Nat /\ y \in Nat
    BY <1>1, <1>2
  <2>2. ~(y < x)
    BY <1>2, <2>1 DEF OpToRel
  <2> QED BY <2>1, <2>2
<1>4. PICK t \in times : x = MaxTime - t
  BY <1>2
<1>5. \A u \in times : u <= t
  BY <1>0, <1>3, <1>4
<1> QED BY <1>4, <1>5 DEF Greatest

(***************************************************************************)
(* The invariant                                                           *)
(***************************************************************************)
\* Between batches a session sees what is committed, and the write lock is held
\* exactly for a batch.
BatchInv ==
    /\ writer = batch
    /\ batch = NoOne => draft = rows

\* What a batch has placed so far is in events that are not locked; what was placed
\* before it stays where it is.
LockInv ==
    \A a \in Articles :
        /\ rows.home[a] # Nowhere => draft.home[a] = rows.home[a]
        /\ rows.home[a] = Nowhere /\ draft.home[a] # Nowhere => ~locked[draft.home[a]]

\* An event that does not exist is not locked, nor is that asked for; what a batch
\* has not made does not exist.
AbsentInv ==
    \A e \in Events :
        /\ draft.state[e] = "absent" => rows.state[e] = "absent"
        /\ rows.state[e] = "absent" => ~locked[e] /\ (asked # Nothing => asked.event # e)

\* But for those a merge dropped, articles are in active events, and those once placed
\* are in one.
Listed(r) ==
    \A a \in Articles \ dropped :
        /\ r.home[a] # Nowhere => r.state[r.home[a]] = "active"
        /\ a \in placed => r.home[a] # Nowhere

ListInv == Listed(rows) /\ Listed(draft)

IInv == TypeOK /\ BatchInv /\ AbsentInv /\ LockInv /\ ListInv
-----------------------------------------------------------------------------
(***************************************************************************)
(* The parts of the invariant                                              *)
(***************************************************************************)
\* A request moves articles as a function of rows (merge_events).
LEMMA MergedRows ==
    ASSUME TypeOK, NEW target \in Events, NEW sources \in SUBSET Events,
           NEW lost \in SUBSET Events
    PROVE  Merged(target, sources, lost) \in Rows
<1>1. {rows.lastSeen[e] : e \in sources \cup {target}} \in SUBSET Times
  BY DEF TypeOK, Rows
<1>2. Greatest({rows.lastSeen[e] : e \in sources \cup {target}}) \in Times
  BY <1>1, GreatestTime
<1> QED BY <1>2 DEF TypeOK, Rows, Merged

\* The tables are well formed initially, and every step keeps them so.
LEMMA TypeInit == Init => TypeOK
BY ClusterTimes DEF Init, TypeOK, Rows, Times

\* An article that joins an event leaves the tables well formed (ingest_article).
LEMMA JoinType ==
    ASSUME TypeOK, NEW s \in Sessions, NEW a \in Articles, Join(s, a)
    PROVE  TypeOK'
<1> DEFINE later(e) == Greatest({LastSeen(s, e), Published[a]})
<1>0. PICK e \in Candidates(a) : \E stored \in {later(e), draft.lastSeen[e]} :
        /\ draft' = [draft EXCEPT !.home[a] = e,
                                  !.lastSeen[e] = stored,
                                  !.demo[e] = @ /\ (a \in Demo)]
        /\ Keep(s, e, later(e))
        /\ blurred' = IF stored < draft.lastSeen[e] THEN blurred \cup {e} ELSE blurred
  BY DEF Join
<1>1. PICK stored \in {later(e), draft.lastSeen[e]} :
        /\ draft' = [draft EXCEPT !.home[a] = e,
                                  !.lastSeen[e] = stored,
                                  !.demo[e] = @ /\ (a \in Demo)]
        /\ Keep(s, e, later(e))
        /\ blurred' = IF stored < draft.lastSeen[e] THEN blurred \cup {e} ELSE blurred
  BY <1>0
<1>2. e \in Events
  BY DEF Candidates
<1>3. LastSeen(s, e) \in Times /\ Published[a] \in Times
  BY <1>2, ClusterTimes DEF TypeOK, Rows, Kept, LastSeen
<1>4. later(e) \in Times
  BY <1>3, GreatestTime
<1> HIDE DEF later
<1>5. stored \in Times
  BY <1>2, <1>4 DEF TypeOK, Rows
<1>6. draft' \in Rows
  <2> DEFINE d == draft.demo[e] /\ (a \in Demo)
  <2>1. d \in BOOLEAN
    OBVIOUS
  <2>2. draft' = [draft EXCEPT !.home[a] = e, !.lastSeen[e] = stored, !.demo[e] = d]
    BY <1>1, <1>2 DEF TypeOK, Rows
  <2> HIDE DEF d
  <2> QED BY <1>2, <1>5, <2>1, <2>2 DEF TypeOK, Rows
<1>7. kept' \in [Sessions -> Kept \cup {Nothing}]
  BY <1>1, <1>2, <1>4 DEF TypeOK, Keep, Kept
<1>8. blurred' \subseteq Events
  BY <1>1, <1>2 DEF TypeOK
<1> QED BY <1>6, <1>7, <1>8 DEF Join, TypeOK

\* So does every other step of a batch.
LEMMA IngestType ==
    ASSUME TypeOK, NEW s \in Sessions, Ingest(s)
    PROVE  TypeOK'
<1>1. CASE Begin(s)
  BY <1>1 DEF Begin, TypeOK, history
<1>2. ASSUME NEW a \in Articles, Refetch(s, a)
      PROVE  TypeOK'
  <2>1. draft.home[a] \in Events
    BY <1>2 DEF Refetch, TypeOK, Rows
  <2>2. LastSeen(s, draft.home[a]) \in Times
    BY <2>1 DEF TypeOK, Rows, Kept, LastSeen
  <2>3. kept' \in [Sessions -> Kept \cup {Nothing}]
    BY <1>2, <2>1, <2>2 DEF Refetch, TypeOK, Keep, Kept
  <2> QED BY <1>2, <2>3 DEF Refetch, TypeOK, history
<1>3. ASSUME NEW a \in Articles, Found(s, a)
      PROVE  TypeOK'
  <2>1. Published[a] \in Times
    BY ClusterTimes
  <2>2. draft' \in Rows
    <3> DEFINE d == a \in Demo
    <3>1. d \in BOOLEAN
      OBVIOUS
    <3>2. PICK e \in Events :
            draft' = [draft EXCEPT !.home[a] = e,
                                   !.state[e] = "active",
                                   !.lastSeen[e] = Published[a],
                                   !.demo[e] = d]
      BY <1>3 DEF Found, Absent
    <3> HIDE DEF d
    <3> QED BY <2>1, <3>1, <3>2 DEF TypeOK, Rows
  <2>3. kept' \in [Sessions -> Kept \cup {Nothing}]
    BY <1>3, <2>1 DEF Found, Absent, TypeOK, Keep, Kept
  <2> QED BY <1>3, <2>2, <2>3 DEF Found, TypeOK, history
<1>4. ASSUME NEW a \in Articles, Join(s, a)
      PROVE  TypeOK'
  BY <1>4, JoinType
<1>5. CASE Commit(s)
  BY <1>5 DEF Commit, TypeOK, history
<1>6. CASE Rollback(s)
  BY <1>6 DEF Rollback, TypeOK, history
<1>7. CASE Forget(s)
  BY <1>7 DEF Forget, TypeOK, history
<1> QED BY <1>1, <1>2, <1>3, <1>4, <1>5, <1>6, <1>7 DEF Ingest

\* A request to lock or unlock changes one flag of one event (set_event_lock).
LEMMA LockType ==
    ASSUME TypeOK, Lock
    PROVE  TypeOK'
<1>1. ASSUME NEW e \in Events, NEW value \in BOOLEAN, AskLock(e, value)
      PROVE  TypeOK'
  BY <1>1, ClusterTimes DEF AskLock, TypeOK, Request
<1>2. CASE SetLock
  <2>1. asked \in Request
    BY <1>2 DEF SetLock, TypeOK
  <2>2. locked' \in [Events -> BOOLEAN]
    BY <1>2, <2>1 DEF SetLock, TypeOK, Request
  <2> QED BY <1>2, <2>2 DEF SetLock, TypeOK, history
<1>3. CASE LockGivenUp
  BY <1>3 DEF LockGivenUp, TypeOK, history
<1> QED BY <1>1, <1>2, <1>3 DEF Lock

\* Corrections write rows of the tables' types (merge_events, split_event).
LEMMA CorrectType ==
    ASSUME TypeOK, Correct
    PROVE  TypeOK'
<1>1. ASSUME NEW target \in Events, NEW sources \in SUBSET Events, Merge(target, sources)
      PROVE  TypeOK'
  <2>1. PICK lost \in SUBSET Events : rows' = Merged(target, sources, lost)
    BY <1>1 DEF Merge
  <2>2. rows' \in Rows
    BY <2>1, MergedRows
  <2> QED BY <1>1, <2>2, ClusterTimes DEF Merge, MayCorrect, TypeOK
<1>2. ASSUME NEW e \in Events, NEW chosen \in SUBSET Articles, Split(e, chosen)
      PROVE  TypeOK'
  <2>1. PICK new \in Events, time \in Times :
          /\ rows' = [rows EXCEPT !.home = [x \in Articles |-> IF x \in chosen THEN new ELSE @[x]],
                                  !.state[new] = "active",
                                  !.lastSeen[new] = time,
                                  !.demo[new] = rows.demo[e]]
          /\ corrected' = corrected \cup {e, new}
          /\ blurred' = blurred \cup {new}
    BY <1>2 DEF Split, Absent
  <2>2. [x \in Articles |-> IF x \in chosen THEN new ELSE rows.home[x]]
          \in [Articles -> Events \cup {Nowhere}]
    BY DEF TypeOK, Rows
  <2>3. rows.demo[e] \in BOOLEAN
    BY DEF TypeOK, Rows
  <2>4. rows' \in Rows
    BY <2>1, <2>2, <2>3 DEF TypeOK, Rows
  <2>5. corrected' \subseteq Events /\ blurred' \subseteq Events
    BY <2>1 DEF TypeOK
  <2> QED BY <1>2, <2>4, <2>5, ClusterTimes DEF Split, MayCorrect, TypeOK
<1> QED BY <1>1, <1>2 DEF Correct

\* Every step keeps the types.
LEMMA TypeStep ==
    ASSUME TypeOK, [Next]_vars
    PROVE  TypeOK'
<1>1. CASE Next
  BY <1>1, IngestType, LockType, CorrectType DEF Next
<1>2. CASE UNCHANGED vars
  BY <1>2 DEF vars, TypeOK
<1> QED BY <1>1, <1>2
-----------------------------------------------------------------------------
\* The write lock is the batch's, and between batches nothing is uncommitted.
LEMMA BatchStep ==
    ASSUME TypeOK, BatchInv, [Next]_vars
    PROVE  BatchInv'
<1>1. ASSUME NEW s \in Sessions, Ingest(s)
      PROVE  BatchInv'
  <2>1. s # NoOne
    BY ClusterNames
  <2> QED
    BY <1>1, <2>1 DEF Ingest, Begin, Refetch, Found, Join, Commit, Rollback, Forget, BatchInv
<1>2. CASE Lock
  BY <1>2 DEF Lock, AskLock, SetLock, LockGivenUp, BatchInv
<1>3. CASE Correct
  BY <1>3 DEF Correct, Merge, Split, MayCorrect, BatchInv
<1>4. CASE UNCHANGED vars
  BY <1>4 DEF vars, BatchInv
<1> QED BY <1>1, <1>2, <1>3, <1>4 DEF Next

\* What a batch does to an article and its event, whatever else it writes.
Placing(a, e) ==
    /\ draft.home[a] = Nowhere
    /\ draft'.home = [draft.home EXCEPT ![a] = e]
    /\ \/ /\ draft.state[e] = "active" /\ ~locked[e]
          /\ draft'.state = draft.state
       \/ /\ draft.state[e] = "absent"
          /\ draft'.state = [draft.state EXCEPT ![e] = "active"]
    /\ UNCHANGED <<rows, locked, asked, placed, dropped>>

\* Found and Join are such placings.
LEMMA PlacingRows ==
    ASSUME TypeOK, NEW s \in Sessions, NEW a \in Articles, Found(s, a) \/ Join(s, a)
    PROVE  \E e \in Events : Placing(a, e)
<1>1. CASE Found(s, a)
  <2>1. PICK e \in Absent(draft) :
          draft' = [draft EXCEPT !.home[a] = e,
                                 !.state[e] = "active",
                                 !.lastSeen[e] = Published[a],
                                 !.demo[e] = (a \in Demo)]
    BY <1>1 DEF Found
  <2>2. e \in Events /\ draft.state[e] = "absent"
    BY DEF Absent
  <2>3. /\ draft'.home = [draft.home EXCEPT ![a] = e]
        /\ draft'.state = [draft.state EXCEPT ![e] = "active"]
    BY <2>1 DEF TypeOK, Rows
  <2>4. /\ draft.home[a] = Nowhere
        /\ UNCHANGED <<rows, locked, asked, placed, dropped>>
    BY <1>1 DEF Found, history
  <2> QED BY <2>2, <2>3, <2>4 DEF Placing
<1>2. CASE Join(s, a)
  <2>1. PICK e \in Candidates(a) : \E stored :
          draft' = [draft EXCEPT !.home[a] = e,
                                 !.lastSeen[e] = stored,
                                 !.demo[e] = @ /\ (a \in Demo)]
    BY <1>2 DEF Join
  <2>2. e \in Events /\ draft.state[e] = "active" /\ ~locked[e]
    BY DEF Candidates
  <2>3. /\ draft'.home = [draft.home EXCEPT ![a] = e]
        /\ draft'.state = draft.state
    BY <2>1 DEF TypeOK, Rows
  <2>4. /\ draft.home[a] = Nowhere
        /\ UNCHANGED <<rows, locked, asked, placed, dropped>>
    BY <1>2 DEF Join
  <2> QED BY <2>2, <2>3, <2>4 DEF Placing
<1> QED BY <1>1, <1>2

\* What a split does to the rows, whatever their times and flags.
Splitting(e, chosen, new) ==
    /\ rows.state[new] = "absent"
    /\ chosen # {}
    /\ \A a \in chosen : rows.home[a] = e
    /\ rows'.home = [a \in Articles |-> IF a \in chosen THEN new ELSE rows.home[a]]
    /\ rows'.state = [rows.state EXCEPT ![new] = "active"]
    /\ draft' = rows'
    /\ UNCHANGED <<locked, asked, placed, dropped>>

\* Split does no more than that to memberships and states.
LEMMA SplitRows ==
    ASSUME TypeOK, NEW e \in Events, NEW chosen \in SUBSET Articles, Split(e, chosen)
    PROVE  \E new \in Events : Splitting(e, chosen, new)
<1>1. PICK new \in Absent(rows) : \E time :
        rows' = [rows EXCEPT !.home = [a \in Articles |-> IF a \in chosen THEN new ELSE @[a]],
                             !.state[new] = "active",
                             !.lastSeen[new] = time,
                             !.demo[new] = rows.demo[e]]
  BY DEF Split
<1>2. new \in Events /\ rows.state[new] = "absent"
  BY DEF Absent
<1>3. /\ rows'.home = [a \in Articles |-> IF a \in chosen THEN new ELSE rows.home[a]]
      /\ rows'.state = [rows.state EXCEPT ![new] = "active"]
  BY <1>1 DEF TypeOK, Rows
<1>4. /\ chosen # {}
      /\ \A a \in chosen : rows.home[a] = e
      /\ draft' = rows'
      /\ UNCHANGED <<locked, asked, placed, dropped>>
  BY DEF Split, MayCorrect, Members
<1> QED BY <1>2, <1>3, <1>4 DEF Splitting

\* What a merge does to the rows, whatever their times.
Merging(target, sources, lost) ==
    /\ target \notin sources => lost = {}
    /\ lost \subseteq sources
    /\ \A e \in sources \cup {target} : rows.state[e] # "absent"
    /\ rows'.home = [a \in Articles |->
                        IF rows.home[a] \in lost THEN Nowhere
                        ELSE IF rows.home[a] \in sources THEN target ELSE rows.home[a]]
    /\ rows'.state = [e \in Events |-> IF e \in sources THEN "merged" ELSE rows.state[e]]
    /\ draft' = rows'
    /\ dropped' = IF target \in sources \/ rows.state[target] = "merged"
                  THEN dropped \cup {a \in Articles : rows.home[a] \in sources}
                  ELSE dropped
    /\ UNCHANGED <<locked, asked, placed>>

\* Nor does Merge.
LEMMA MergeRows ==
    ASSUME TypeOK, NEW target \in Events, NEW sources \in SUBSET Events,
           Merge(target, sources)
    PROVE  \E lost \in SUBSET Events : Merging(target, sources, lost)
<1>1. PICK earlier \in SUBSET (sources \ {target}) :
        /\ target \notin sources => earlier = {}
        /\ rows' = Merged(target, sources, IF target \in sources THEN earlier \cup {target} ELSE {})
  BY DEF Merge
<1> DEFINE lost == IF target \in sources THEN earlier \cup {target} ELSE {}
<1>2. /\ lost \in SUBSET Events
      /\ target \notin sources => lost = {}
      /\ lost \subseteq sources
  OBVIOUS
<1>3. rows' = Merged(target, sources, lost)
  BY <1>1
<1> HIDE DEF lost
<1>4. /\ rows'.home = [a \in Articles |->
                          IF rows.home[a] \in lost THEN Nowhere
                          ELSE IF rows.home[a] \in sources THEN target ELSE rows.home[a]]
      /\ rows'.state = [e \in Events |-> IF e \in sources THEN "merged" ELSE rows.state[e]]
  BY <1>3 DEF Merged, TypeOK, Rows
<1>5. /\ \A e \in sources \cup {target} : rows.state[e] # "absent"
      /\ draft' = rows'
      /\ dropped' = IF target \in sources \/ rows.state[target] = "merged"
                    THEN dropped \cup {a \in Articles : rows.home[a] \in sources}
                    ELSE dropped
      /\ UNCHANGED <<locked, asked, placed>>
  BY DEF Merge, MayCorrect
<1> QED BY <1>2, <1>4, <1>5 DEF Merging
-----------------------------------------------------------------------------
\* Only events that exist are locked.
LEMMA AbsentStep ==
    ASSUME TypeOK, BatchInv, AbsentInv, [Next]_vars
    PROVE  AbsentInv'
<1>1. ASSUME NEW s \in Sessions, NEW a \in Articles, Found(s, a) \/ Join(s, a)
      PROVE  AbsentInv'
  <2>1. PICK e \in Events : Placing(a, e)
    BY <1>1, PlacingRows
  <2> QED BY <2>1 DEF AbsentInv, TypeOK, Rows, Placing
<1>2. ASSUME NEW s \in Sessions, Ingest(s), \A a \in Articles : ~Found(s, a) /\ ~Join(s, a)
      PROVE  AbsentInv'
  BY <1>2 DEF Ingest, Begin, Refetch, Commit, Rollback, Forget, AbsentInv
<1>3. CASE Lock
  <2>1. ASSUME NEW e \in Events, NEW value \in BOOLEAN, AskLock(e, value)
        PROVE  AbsentInv'
    BY <2>1 DEF AskLock, AbsentInv
  <2>2. CASE SetLock
    BY <2>2 DEF SetLock, AbsentInv, TypeOK
  <2>3. CASE LockGivenUp
    BY <2>3 DEF LockGivenUp, AbsentInv
  <2> QED BY <1>3, <2>1, <2>2, <2>3 DEF Lock
<1>4. ASSUME NEW target \in Events, NEW sources \in SUBSET Events, Merge(target, sources)
      PROVE  AbsentInv'
  <2>1. PICK lost \in SUBSET Events : Merging(target, sources, lost)
    BY <1>4, MergeRows
  <2> QED BY <2>1 DEF AbsentInv, Merging
<1>5. ASSUME NEW e \in Events, NEW chosen \in SUBSET Articles, Split(e, chosen)
      PROVE  AbsentInv'
  <2>1. PICK new \in Events : Splitting(e, chosen, new)
    BY <1>5, SplitRows
  <2> QED BY <2>1 DEF AbsentInv, TypeOK, Rows, Splitting
<1>6. CASE UNCHANGED vars
  BY <1>6 DEF vars, AbsentInv
<1> QED BY <1>1, <1>2, <1>3, <1>4, <1>5, <1>6 DEF Next, Correct

\* What a batch has placed is in events that are not locked: the lock endpoint writes
\* only when no batch holds the write lock.
LEMMA LockStep ==
    ASSUME TypeOK, BatchInv, AbsentInv, LockInv, [Next]_vars
    PROVE  LockInv'
<1>1. ASSUME NEW s \in Sessions, NEW a \in Articles, Found(s, a) \/ Join(s, a)
      PROVE  LockInv'
  <2>1. PICK e \in Events : Placing(a, e)
    BY <1>1, PlacingRows
  <2>2. ~locked[e]
    BY <2>1 DEF AbsentInv, Placing
  <2> QED BY <2>1, <2>2, ClusterNames DEF LockInv, TypeOK, Rows, Placing
<1>2. ASSUME NEW s \in Sessions, Ingest(s), \A a \in Articles : ~Found(s, a) /\ ~Join(s, a)
      PROVE  LockInv'
  BY <1>2 DEF Ingest, Begin, Refetch, Commit, Rollback, Forget, LockInv
<1>3. CASE Lock
  <2>1. ASSUME NEW e \in Events, NEW value \in BOOLEAN, AskLock(e, value)
        PROVE  LockInv'
    BY <2>1 DEF AskLock, LockInv
  <2>2. CASE SetLock
    <3>1. draft = rows
      BY <2>2 DEF SetLock, BatchInv
    <3> QED BY <2>2, <3>1 DEF SetLock, LockInv
  <2>3. CASE LockGivenUp
    BY <2>3 DEF LockGivenUp, LockInv
  <2> QED BY <1>3, <2>1, <2>2, <2>3 DEF Lock
<1>4. CASE Correct
  BY <1>4 DEF Correct, Merge, Split, LockInv
<1>5. CASE UNCHANGED vars
  BY <1>5 DEF vars, LockInv
<1> QED BY <1>1, <1>2, <1>3, <1>4, <1>5 DEF Next

\* Articles stay in events that are listed, unless a merge drops them.
LEMMA ListStep ==
    ASSUME TypeOK, BatchInv, ListInv, [Next]_vars
    PROVE  ListInv'
<1>0. /\ \A a \in Articles : rows.home[a] \in Events \cup {Nowhere}
      /\ \A a \in Articles : draft.home[a] \in Events \cup {Nowhere}
  BY DEF TypeOK, Rows
<1>1. ASSUME NEW s \in Sessions, NEW a \in Articles, Found(s, a) \/ Join(s, a)
      PROVE  ListInv'
  <2>1. PICK e \in Events : Placing(a, e)
    BY <1>1, PlacingRows
  <2>2. draft'.state[e] = "active" /\ draft'.home[a] = e
    BY <2>1 DEF TypeOK, Rows, Placing
  <2>3. ASSUME NEW b \in Articles, b # a
        PROVE  /\ draft'.home[b] = draft.home[b]
               /\ \A x \in Events : draft.state[x] = "active" => draft'.state[x] = "active"
    BY <2>1, <2>3 DEF TypeOK, Rows, Placing
  <2>4. Listed(draft)'
    BY <1>0, <2>1, <2>2, <2>3, ClusterNames DEF ListInv, Listed, Placing
  <2>5. Listed(rows)'
    BY <2>1 DEF ListInv, Listed, Placing
  <2> QED BY <2>4, <2>5 DEF ListInv
<1>2. ASSUME NEW s \in Sessions, Commit(s)
      PROVE  ListInv'
  BY <1>2 DEF Commit, ListInv, Listed
<1>3. ASSUME NEW s \in Sessions, Ingest(s), ~Commit(s), \A a \in Articles : ~Found(s, a) /\ ~Join(s, a)
      PROVE  ListInv'
  BY <1>3 DEF Ingest, Begin, Refetch, Rollback, Forget, history, ListInv, Listed
<1>4. CASE Lock
  BY <1>4 DEF Lock, AskLock, SetLock, LockGivenUp, history, ListInv, Listed
<1>5. ASSUME NEW target \in Events, NEW sources \in SUBSET Events, Merge(target, sources)
      PROVE  ListInv'
  <2>1. PICK lost \in SUBSET Events : Merging(target, sources, lost)
    BY <1>5, MergeRows
  <2>2. ASSUME NEW a \in Articles, a \notin dropped'
        PROVE  /\ rows'.home[a] # Nowhere => rows'.state[rows'.home[a]] = "active"
               /\ a \in placed' => rows'.home[a] # Nowhere
    <3>1. /\ a \notin dropped
          /\ rows.home[a] # Nowhere => rows.state[rows.home[a]] = "active"
          /\ a \in placed' => rows.home[a] # Nowhere
      BY <2>1, <2>2 DEF ListInv, Listed, Merging
    <3>2. CASE target \in sources \/ rows.state[target] = "merged"
      <4>1. rows.home[a] \notin sources /\ rows.home[a] \notin lost
        BY <2>1, <2>2, <3>2 DEF Merging
      <4>2. rows'.home[a] = rows.home[a]
        BY <2>1, <4>1 DEF Merging
      <4> QED BY <1>0, <2>1, <3>1, <4>1, <4>2 DEF Merging
    <3>3. CASE target \notin sources /\ rows.state[target] # "merged"
      <4>1. lost = {} /\ rows.state[target] = "active"
        BY <2>1, <3>3 DEF Merging, TypeOK, Rows
      <4>2. rows'.home[a] = IF rows.home[a] \in sources THEN target ELSE rows.home[a]
        BY <2>1, <4>1 DEF Merging
      <4>3. \A e \in Events \ sources : rows'.state[e] = rows.state[e]
        BY <2>1 DEF Merging
      <4> QED BY <1>0, <3>1, <3>3, <4>1, <4>2, <4>3, ClusterNames
    <3> QED BY <3>2, <3>3
  <2>3. draft' = rows'
    BY <2>1 DEF Merging
  <2> QED BY <2>2, <2>3 DEF ListInv, Listed
<1>6. ASSUME NEW e \in Events, NEW chosen \in SUBSET Articles, Split(e, chosen)
      PROVE  ListInv'
  <2>1. PICK new \in Events : Splitting(e, chosen, new)
    BY <1>6, SplitRows
  <2>2. ASSUME NEW a \in Articles
        PROVE  /\ rows'.home[a] = IF a \in chosen THEN new ELSE rows.home[a]
               /\ rows'.state[new] = "active"
               /\ \A x \in Events : rows.state[x] = "active" => rows'.state[x] = "active"
    BY <2>1 DEF TypeOK, Rows, Splitting
  <2>3. Listed(rows)'
    BY <1>0, <2>1, <2>2, ClusterNames DEF ListInv, Listed, Splitting
  <2>4. draft' = rows'
    BY <2>1 DEF Splitting
  <2> QED BY <2>3, <2>4 DEF ListInv, Listed
<1>7. CASE UNCHANGED vars
  BY <1>7 DEF vars, ListInv, Listed
<1> QED BY <1>1, <1>2, <1>3, <1>4, <1>5, <1>6, <1>7 DEF Next, Correct
-----------------------------------------------------------------------------
(***************************************************************************)
(* The articles of an event and its times                                  *)
(***************************************************************************)
Near(a, b) == Published[a] - Published[b] \in -Window .. Window

\* What does not exist has no articles, and no time yet.
Blank(r) ==
    \A e \in Events :
        r.state[e] = "absent" => /\ r.lastSeen[e] = 0
                                 /\ \A a \in Articles : r.home[a] # e

\* last_seen is no earlier than any article.
Covers(r) ==
    \A a \in Articles :
        r.home[a] \in Events \ blurred => Published[a] <= r.lastSeen[r.home[a]]

\* The flag of an event nobody corrected is that of each of its articles, and its
\* last_seen is when one of them was published.
Agrees(r) ==
    \A a \in Articles :
        r.home[a] \in Events \ corrected => (r.demo[r.home[a]] <=> a \in Demo)
Dated(r) ==
    \A e \in Events \ corrected :
        r.state[e] # "absent" =>
            \E b \in Articles : r.home[b] = e /\ Published[b] = r.lastSeen[e]

\* An article that is not alone there has another one near.
Close(r) ==
    \A a, x \in Articles :
        r.home[a] \in Events \ corrected /\ x # a /\ r.home[x] = r.home[a] =>
            \E b \in Articles : b # a /\ r.home[b] = r.home[a] /\ Near(a, b)

\* The event a session keeps is no later than the row, and has the time of an article.
KeptIn(r, s) ==
    kept[s] # Nothing =>
        LET e == kept[s].event
        IN /\ e \notin blurred => kept[s].lastSeen <= r.lastSeen[e]
           /\ e \notin corrected =>
                  \E b \in Articles : r.home[b] = e /\ Published[b] = kept[s].lastSeen

\* All this of both tables: a batch may be rolled back.  A session sees its own batch;
\* a batch takes no last_seen back but by what makes the event blurred.
TimeInv ==
    /\ Blank(rows) /\ Blank(draft)
    /\ Covers(rows) /\ Covers(draft)
    /\ \A e \in Events \ blurred : rows.lastSeen[e] <= draft.lastSeen[e]
CoherenceInv ==
    /\ Agrees(rows) /\ Agrees(draft)
    /\ Dated(rows) /\ Dated(draft)
    /\ Close(rows) /\ Close(draft)
KeptInv ==
    \A s \in Sessions : /\ batch = s => KeptIn(draft, s)
                        /\ batch # s => KeptIn(rows, s)
-----------------------------------------------------------------------------
(***************************************************************************)
(* What a step does to the times                                           *)
(***************************************************************************)
\* All times are natural numbers of the model's bound.
LEMMA TimesAreNumbers ==
    ASSUME TypeOK
    PROVE  /\ Times \subseteq Nat /\ Window \in Nat
           /\ \A a \in Articles : Published[a] \in Times
           /\ \A e \in Events : rows.lastSeen[e] \in Times /\ draft.lastSeen[e] \in Times
           /\ \A s \in Sessions : kept[s] # Nothing =>
                  kept[s].event \in Events /\ kept[s].lastSeen \in Times
BY ClusterTimes DEF TypeOK, Rows, Kept, Times

\* An article founds an event.
Founding(s, a, e) ==
    /\ batch = s
    /\ draft.home[a] = Nowhere
    /\ draft.state[e] = "absent"
    /\ draft'.home = [draft.home EXCEPT ![a] = e]
    /\ draft'.state = [draft.state EXCEPT ![e] = "active"]
    /\ draft'.lastSeen = [draft.lastSeen EXCEPT ![e] = Published[a]]
    /\ \A x \in Events \ {e} : draft'.demo[x] <=> draft.demo[x]
    /\ draft'.demo[e] <=> a \in Demo
    /\ kept' = [kept EXCEPT ![s] = [event |-> e, lastSeen |-> Published[a]]]
    /\ UNCHANGED <<rows, batch, corrected, blurred>>

\* Found does that, to times and flags too.
LEMMA FoundRows ==
    ASSUME TypeOK, NEW s \in Sessions, NEW a \in Articles, Found(s, a)
    PROVE  \E e \in Events : Founding(s, a, e)
<1>1. PICK e \in Absent(draft) :
        /\ draft' = [draft EXCEPT !.home[a] = e,
                                  !.state[e] = "active",
                                  !.lastSeen[e] = Published[a],
                                  !.demo[e] = (a \in Demo)]
        /\ Keep(s, e, Published[a])
  BY DEF Found
<1>2. e \in Events /\ draft.state[e] = "absent"
  BY DEF Absent
<1> DEFINE d == a \in Demo
<1>3. draft' = [draft EXCEPT !.home[a] = e,
                             !.state[e] = "active",
                             !.lastSeen[e] = Published[a],
                             !.demo[e] = d]
  BY <1>1
<1>4. d \in BOOLEAN
  OBVIOUS
<1>5. (a \in Demo) <=> d
  OBVIOUS
<1> HIDE DEF d
<1>6. /\ draft'.home = [draft.home EXCEPT ![a] = e]
      /\ draft'.state = [draft.state EXCEPT ![e] = "active"]
      /\ draft'.lastSeen = [draft.lastSeen EXCEPT ![e] = Published[a]]
      /\ draft'.demo = [draft.demo EXCEPT ![e] = d]
  BY <1>3 DEF TypeOK, Rows
<1>7. draft.demo \in [Events -> BOOLEAN]
  BY DEF TypeOK, Rows
<1>8. /\ \A x \in Events \ {e} : draft'.demo[x] <=> draft.demo[x]
      /\ draft'.demo[e] <=> a \in Demo
  BY <1>2, <1>4, <1>5, <1>6, <1>7
<1>9. /\ kept' = [kept EXCEPT ![s] = [event |-> e, lastSeen |-> Published[a]]]
      /\ batch = s
      /\ draft.home[a] = Nowhere
      /\ UNCHANGED <<rows, batch, corrected, blurred>>
  BY <1>1 DEF Found, Keep, history
<1> QED BY <1>2, <1>6, <1>8, <1>9 DEF Founding

\* An article joins an event: the session keeps the later time, the row has it too or
\* stays as it is.
Joining(s, a, e, later, stored) ==
    /\ batch = s
    /\ draft.home[a] = Nowhere
    /\ draft.state[e] = "active"
    /\ draft.demo[e] <=> a \in Demo
    /\ draft.lastSeen[e] \in Published[a] - Window .. Published[a] + Window
    /\ later \in {LastSeen(s, e), Published[a]}
    /\ LastSeen(s, e) <= later /\ Published[a] <= later
    /\ \/ stored = later
       \/ stored = draft.lastSeen[e] /\ later = LastSeen(s, e)
    /\ draft'.home = [draft.home EXCEPT ![a] = e]
    /\ draft'.state = draft.state
    /\ draft'.lastSeen = [draft.lastSeen EXCEPT ![e] = stored]
    /\ \A x \in Events : draft'.demo[x] <=> draft.demo[x]
    /\ kept' = [kept EXCEPT ![s] = [event |-> e, lastSeen |-> later]]
    /\ blurred' = IF stored < draft.lastSeen[e] THEN blurred \cup {e} ELSE blurred
    /\ UNCHANGED <<rows, batch, corrected>>

\* Join does that for some later and stored time.
LEMMA JoinRows ==
    ASSUME TypeOK, NEW s \in Sessions, NEW a \in Articles, Join(s, a)
    PROVE  \E e \in Events : \E later, stored \in Times : Joining(s, a, e, later, stored)
<1> DEFINE latest(e) == Greatest({LastSeen(s, e), Published[a]})
<1>1. PICK e \in Candidates(a) :
        \E stored \in {latest(e)} \cup
                      (IF latest(e) = LastSeen(s, e) THEN {draft.lastSeen[e]} ELSE {}) :
            /\ draft' = [draft EXCEPT !.home[a] = e,
                                      !.lastSeen[e] = stored,
                                      !.demo[e] = @ /\ (a \in Demo)]
            /\ Keep(s, e, latest(e))
            /\ blurred' = IF stored < draft.lastSeen[e] THEN blurred \cup {e} ELSE blurred
  BY DEF Join
<1>2. /\ e \in Events
      /\ draft.state[e] = "active"
      /\ draft.demo[e] = (a \in Demo)
      /\ draft.lastSeen[e] \in Published[a] - Window .. Published[a] + Window
  BY DEF Candidates
<1>3. LastSeen(s, e) \in Times /\ Published[a] \in Times /\ draft.lastSeen[e] \in Times
  BY <1>2, TimesAreNumbers DEF LastSeen
<1> DEFINE later == latest(e)
<1>4. /\ later \in {LastSeen(s, e), Published[a]}
      /\ LastSeen(s, e) <= later /\ Published[a] <= later
  BY <1>3, GreatestTime
<1>5. PICK stored \in {later} \cup (IF later = LastSeen(s, e) THEN {draft.lastSeen[e]} ELSE {}) :
        /\ draft' = [draft EXCEPT !.home[a] = e,
                                  !.lastSeen[e] = stored,
                                  !.demo[e] = @ /\ (a \in Demo)]
        /\ Keep(s, e, later)
        /\ blurred' = IF stored < draft.lastSeen[e] THEN blurred \cup {e} ELSE blurred
  BY <1>1
<1> HIDE DEF later
<1> DEFINE d == draft.demo[e] /\ (a \in Demo)
<1>6. draft' = [draft EXCEPT !.home[a] = e, !.lastSeen[e] = stored, !.demo[e] = d]
  BY <1>2, <1>5 DEF TypeOK, Rows
<1>7. d \in BOOLEAN /\ draft.demo \in [Events -> BOOLEAN]
  BY DEF TypeOK, Rows
<1>8. (d <=> draft.demo[e]) /\ (draft.demo[e] <=> a \in Demo)
  BY <1>2
<1> HIDE DEF d
<1>9. /\ draft'.home = [draft.home EXCEPT ![a] = e]
      /\ draft'.state = draft.state
      /\ draft'.lastSeen = [draft.lastSeen EXCEPT ![e] = stored]
      /\ draft'.demo = [draft.demo EXCEPT ![e] = d]
  BY <1>6 DEF TypeOK, Rows
<1>10. \A x \in Events : draft'.demo[x] <=> draft.demo[x]
  BY <1>2, <1>7, <1>8, <1>9
<1>11. /\ later \in Times /\ stored \in Times
       /\ \/ stored = later
          \/ stored = draft.lastSeen[e] /\ later = LastSeen(s, e)
  BY <1>3, <1>4
<1>12. /\ kept' = [kept EXCEPT ![s] = [event |-> e, lastSeen |-> later]]
       /\ batch = s
       /\ draft.home[a] = Nowhere
       /\ UNCHANGED <<rows, batch, corrected>>
  BY <1>5 DEF Join, Keep
<1>13. Joining(s, a, e, later, stored)
  BY <1>2, <1>4, <1>5, <1>8, <1>9, <1>10, <1>11, <1>12 DEF Joining
<1> QED BY <1>2, <1>11, <1>13

\* A merge gives its target a time g, no earlier than that of any event it merges.
Retimed(target, sources, g) ==
    /\ rows'.lastSeen = [rows.lastSeen EXCEPT ![target] = g]
    /\ \A e \in sources \cup {target} : rows.lastSeen[e] <= g
    /\ rows'.demo = rows.demo
    /\ corrected' = corrected \cup sources \cup {target}
    /\ blurred' = IF sources \cap blurred # {} THEN blurred \cup {target} ELSE blurred
    /\ batch = NoOne
    /\ UNCHANGED <<batch, kept>>

\* There is such a time, the greatest of theirs (merge_events).
LEMMA MergeTimes ==
    ASSUME TypeOK, NEW target \in Events, NEW sources \in SUBSET Events,
           Merge(target, sources)
    PROVE  \E g \in Times : Retimed(target, sources, g)
<1> DEFINE times == {rows.lastSeen[e] : e \in sources \cup {target}}
           g == Greatest(times)
<1>1. times \in SUBSET Times /\ times # {}
  BY TimesAreNumbers
<1>2. g \in Times /\ \A u \in times : u <= g
  <2> HIDE DEF times
  <2> QED BY <1>1, GreatestTime
<1>3. PICK lost \in SUBSET Events : rows' = Merged(target, sources, lost)
  BY DEF Merge
<1>4. /\ rows'.lastSeen = [rows.lastSeen EXCEPT ![target] = g]
      /\ rows'.demo = rows.demo
  BY <1>3 DEF Merged, TypeOK, Rows
<1>5. \A e \in sources \cup {target} : rows.lastSeen[e] <= g
  BY <1>2
<1> HIDE DEF g
<1> QED BY <1>2, <1>4, <1>5 DEF Retimed, Merge, MayCorrect

\* A split gives the new event any time, and leaves those of the others.
Parted(e, chosen, new) ==
    /\ Splitting(e, chosen, new)
    /\ \A x \in Events \ {new} : /\ rows'.lastSeen[x] = rows.lastSeen[x]
                                 /\ rows'.demo[x] <=> rows.demo[x]
    /\ corrected' = corrected \cup {e, new}
    /\ blurred' = blurred \cup {new}
    /\ batch = NoOne
    /\ UNCHANGED <<batch, kept>>

\* Split gives its event a time and touches that event and the one it leaves only.
LEMMA SplitTimes ==
    ASSUME TypeOK, NEW e \in Events, NEW chosen \in SUBSET Articles, Split(e, chosen)
    PROVE  \E new \in Events : Parted(e, chosen, new)
<1>1. PICK new \in Absent(rows) : \E time \in Times :
        /\ rows' = [rows EXCEPT !.home = [x \in Articles |-> IF x \in chosen THEN new ELSE @[x]],
                                !.state[new] = "active",
                                !.lastSeen[new] = time,
                                !.demo[new] = rows.demo[e]]
        /\ corrected' = corrected \cup {e, new}
        /\ blurred' = blurred \cup {new}
  BY DEF Split
<1>2. new \in Events /\ rows.state[new] = "absent"
  BY DEF Absent
<1>3. /\ rows'.home = [a \in Articles |-> IF a \in chosen THEN new ELSE rows.home[a]]
      /\ rows'.state = [rows.state EXCEPT ![new] = "active"]
  BY <1>1 DEF TypeOK, Rows
<1>4. /\ chosen # {}
      /\ \A a \in chosen : rows.home[a] = e
      /\ draft' = rows'
      /\ UNCHANGED <<locked, asked, placed, dropped>>
  BY DEF Split, MayCorrect, Members
<1>5. Splitting(e, chosen, new)
  BY <1>2, <1>3, <1>4 DEF Splitting
<1>6. \A x \in Events \ {new} : rows'.lastSeen[x] = rows.lastSeen[x]
  BY <1>1 DEF TypeOK, Rows
<1>7. \A x \in Events \ {new} : rows'.demo[x] = rows.demo[x]
  BY <1>1 DEF TypeOK, Rows
<1> QED BY <1>1, <1>2, <1>5, <1>6, <1>7 DEF Parted, Split, MayCorrect
-----------------------------------------------------------------------------
\* A batch that founds or joins keeps times in order: only a blurred event goes back.
LEMMA PlacingTimes ==
    ASSUME TypeOK, AbsentInv, TimeInv, KeptInv, NEW s \in Sessions, NEW a \in Articles,
           Found(s, a) \/ Join(s, a)
    PROVE  TimeInv'
<1>0. a \in Articles /\ \A x \in Articles : draft.home[x] \in Events \cup {Nowhere}
  BY DEF TypeOK, Rows
<1>1. CASE Found(s, a)
  <2>1. PICK e \in Events : Founding(s, a, e)
    BY <1>1, FoundRows
  <2>2. rows.state[e] = "absent"
    BY <2>1 DEF AbsentInv, Founding
  <2>3. Blank(rows)' /\ Covers(rows)'
    BY <2>1 DEF TimeInv, Founding, Blank, Covers
  <2>4. Blank(draft)'
    BY <1>0, <2>1, ClusterNames DEF TimeInv, Founding, Blank, TypeOK, Rows
  <2>5. Covers(draft)'
    BY <1>0, <2>1, ClusterNames, TimesAreNumbers DEF TimeInv, Founding, Blank, Covers, TypeOK, Rows
  <2>6. \A x \in Events \ blurred' : rows'.lastSeen[x] <= draft'.lastSeen[x]
    BY <2>1, <2>2, TimesAreNumbers DEF TimeInv, Founding, Blank, TypeOK, Rows, Times
  <2> QED BY <2>3, <2>4, <2>5, <2>6 DEF TimeInv
<1>2. CASE Join(s, a)
  <2>1. PICK e \in Events : \E later, stored \in Times : Joining(s, a, e, later, stored)
    BY <1>2, JoinRows
  <2>2. PICK later \in Times, stored \in Times : Joining(s, a, e, later, stored)
    BY <2>1
  <2>3. blurred \subseteq blurred' /\ (e \notin blurred' => draft.lastSeen[e] <= stored)
    BY <2>2, TimesAreNumbers DEF Joining
  <2>4. e \notin blurred' => Published[a] <= stored
    BY <2>2, <2>3, TimesAreNumbers DEF Joining, LastSeen, KeptInv, KeptIn
  <2>5. Blank(rows)' /\ Covers(rows)'
    BY <2>2, <2>3 DEF TimeInv, Joining, Blank, Covers
  <2>6. Blank(draft)'
    BY <1>0, <2>2 DEF TimeInv, Joining, Blank, TypeOK, Rows
  <2>7. Covers(draft)'
    <3>1. ASSUME NEW x \in Articles, draft'.home[x] \in Events \ blurred'
          PROVE  Published[x] <= draft'.lastSeen[draft'.home[x]]
      <4>1. CASE x = a
        BY <3>1, <4>1, <2>2, <2>4 DEF Joining, TypeOK, Rows
      <4>2. CASE x # a /\ draft.home[x] = e
        <5>1. Published[x] <= draft.lastSeen[e] /\ draft'.home[x] = e
          BY <3>1, <4>2, <2>2, <2>3 DEF Joining, TypeOK, Rows, TimeInv, Covers
        <5> QED BY <3>1, <5>1, <2>2, <2>3, TimesAreNumbers DEF Joining, TypeOK, Rows
      <4>3. CASE x # a /\ draft.home[x] # e
        BY <3>1, <4>3, <2>2, <2>3 DEF Joining, TypeOK, Rows, TimeInv, Covers
      <4> QED BY <4>1, <4>2, <4>3
    <3> QED BY <3>1 DEF Covers
  <2>8. \A x \in Events \ blurred' : rows'.lastSeen[x] <= draft'.lastSeen[x]
    BY <2>2, <2>3, TimesAreNumbers DEF TimeInv, Joining, TypeOK, Rows
  <2> QED BY <2>5, <2>6, <2>7, <2>8 DEF TimeInv
<1> QED BY <1>1, <1>2

\* A correction keeps them in order too: the target of a merge gets the latest time.
LEMMA CorrectTimes ==
    ASSUME TypeOK, TimeInv, Correct
    PROVE  TimeInv'
<1>0. \A x \in Articles : rows.home[x] \in Events \cup {Nowhere}
  BY DEF TypeOK, Rows
<1>1. ASSUME NEW target \in Events, NEW sources \in SUBSET Events, Merge(target, sources)
      PROVE  Blank(rows)' /\ Covers(rows)'
  <2>1. PICK lost \in SUBSET Events : Merging(target, sources, lost)
    BY <1>1, MergeRows
  <2>2. PICK g \in Times : Retimed(target, sources, g)
    BY <1>1, MergeTimes
  <2>3. Blank(rows)'
    BY <1>0, <2>1, <2>2, ClusterNames DEF Retimed, Merging, Blank, TimeInv, TypeOK, Rows
  <2>4. ASSUME NEW x \in Articles, rows'.home[x] \in Events \ blurred'
        PROVE  Published[x] <= rows'.lastSeen[rows'.home[x]]
    <3>1. rows'.home[x] \in {rows.home[x], target} /\ rows.home[x] \in Events
      BY <1>0, <2>1, <2>4, ClusterNames DEF Merging
    <3>2. CASE rows.home[x] \in sources \cup {target}
      <4>1. rows'.home[x] = target
        BY <2>1, <2>4, <3>1, <3>2, ClusterNames DEF Merging
      <4>2. rows.home[x] \notin blurred
        BY <2>2, <2>4, <3>2, <4>1 DEF Retimed
      <4>3. Published[x] <= rows.lastSeen[rows.home[x]] /\ rows.lastSeen[rows.home[x]] <= g
        BY <2>2, <3>1, <3>2, <4>2 DEF Retimed, TimeInv, Covers
      <4>4. rows'.lastSeen[target] = g
        BY <2>2 DEF Retimed, TypeOK, Rows
      <4> QED BY <3>1, <4>1, <4>3, <4>4, TimesAreNumbers
    <3>3. CASE rows.home[x] \notin sources \cup {target}
      <4>1. rows'.home[x] = rows.home[x]
        BY <2>1, <3>3 DEF Merging
      <4> QED BY <2>2, <2>4, <3>1, <3>3, <4>1 DEF Retimed, TimeInv, Covers, TypeOK, Rows
    <3> QED BY <3>2, <3>3
  <2> QED BY <2>3, <2>4 DEF Covers
<1>2. ASSUME NEW e \in Events, NEW chosen \in SUBSET Articles, Split(e, chosen)
      PROVE  Blank(rows)' /\ Covers(rows)'
  <2>1. PICK new \in Events : Parted(e, chosen, new)
    BY <1>2, SplitTimes
  <2>2. Blank(rows)'
    BY <1>0, <2>1 DEF Parted, Splitting, Blank, TimeInv, TypeOK, Rows
  <2>3. Covers(rows)'
    BY <1>0, <2>1 DEF Parted, Splitting, Covers, TimeInv, TypeOK, Rows
  <2> QED BY <2>2, <2>3
<1>3. draft' = rows'
  BY DEF Correct, Merge, Split
<1>4. Blank(rows)' /\ Covers(rows)'
  BY <1>1, <1>2 DEF Correct
<1>5. TypeOK'
  BY CorrectType
<1>6. \A x \in Events : rows'.lastSeen[x] <= draft'.lastSeen[x]
  BY <1>3, <1>5, ClusterTimes DEF TypeOK, Rows, Times
<1>7. Blank(draft)' /\ Covers(draft)'
  BY <1>3, <1>4 DEF Blank, Covers
<1> QED BY <1>4, <1>6, <1>7 DEF TimeInv

\* Every step keeps times in order; a rollback goes back to rows, which are in order.
LEMMA TimeStep ==
    ASSUME TypeOK, BatchInv, AbsentInv, TimeInv, KeptInv, [Next]_vars
    PROVE  TimeInv'
<1>0. \A e \in Events : /\ rows.lastSeen[e] <= rows.lastSeen[e]
                       /\ draft.lastSeen[e] <= draft.lastSeen[e]
  BY TimesAreNumbers
<1>1. ASSUME NEW s \in Sessions, NEW a \in Articles, Found(s, a) \/ Join(s, a)
      PROVE  TimeInv'
  BY <1>1, PlacingTimes
<1>2. ASSUME NEW s \in Sessions, Ingest(s), \A a \in Articles : ~Found(s, a) /\ ~Join(s, a)
      PROVE  TimeInv'
  <2>1. CASE Begin(s) \/ Rollback(s)
    <3>1. draft' = rows /\ rows' = rows /\ blurred' = blurred
      BY <2>1 DEF Begin, Rollback, history
    <3>2. \A e \in Events : rows'.lastSeen[e] <= draft'.lastSeen[e]
      BY <1>0, <3>1
    <3> QED BY <3>1, <3>2 DEF TimeInv, Blank, Covers
  <2>2. CASE Commit(s)
    <3>1. draft' = draft /\ rows' = draft /\ blurred' = blurred
      BY <2>2 DEF Commit, history
    <3>2. \A e \in Events : rows'.lastSeen[e] <= draft'.lastSeen[e]
      BY <1>0, <3>1
    <3> QED BY <3>1, <3>2 DEF TimeInv, Blank, Covers
  <2>3. CASE Forget(s) \/ \E a \in Articles : Refetch(s, a)
    BY <2>3 DEF Forget, Refetch, history, TimeInv, Blank, Covers
  <2> QED BY <1>2, <2>1, <2>2, <2>3 DEF Ingest
<1>3. CASE Lock \/ UNCHANGED vars
  BY <1>3 DEF Lock, AskLock, SetLock, LockGivenUp, history, vars, TimeInv, Blank, Covers
<1>4. CASE Correct
  BY <1>4, CorrectTimes
<1> QED BY <1>1, <1>2, <1>3, <1>4 DEF Next
-----------------------------------------------------------------------------
\* A table that stays is as coherent as it was: corrections only add to what is excused.
LEMMA RowsStayCoherent ==
    ASSUME Agrees(rows), Dated(rows), Close(rows), rows' = rows, corrected \subseteq corrected'
    PROVE  Agrees(rows)' /\ Dated(rows)' /\ Close(rows)'
BY DEF Agrees, Dated, Close

\* An article that joins is near one that is there: last_seen is when one of them was
\* published, also after it was written from what a session kept.
LEMMA PlacingCoherence ==
    ASSUME TypeOK, TimeInv, CoherenceInv, KeptInv, NEW s \in Sessions, NEW a \in Articles,
           Found(s, a) \/ Join(s, a)
    PROVE  CoherenceInv'
<1>0. /\ \A x \in Articles : draft.home[x] \in Events \cup {Nowhere}
      /\ Nowhere \notin Events
  BY ClusterNames DEF TypeOK, Rows
<1>1. CASE Found(s, a)
  <2>1. PICK e \in Events : Founding(s, a, e)
    BY <1>1, FoundRows
  <2>2. Agrees(rows)' /\ Dated(rows)' /\ Close(rows)'
    BY <2>1, RowsStayCoherent DEF CoherenceInv, Founding
  <2>3. /\ draft'.home[a] = e /\ draft'.lastSeen[e] = Published[a]
        /\ \A x \in Articles \ {a} : draft'.home[x] = draft.home[x] /\ draft.home[x] # e
        /\ \A y \in Events \ {e} : /\ draft'.state[y] = draft.state[y]
                                   /\ draft'.lastSeen[y] = draft.lastSeen[y]
                                   /\ draft'.demo[y] <=> draft.demo[y]
        /\ draft'.demo[e] <=> a \in Demo
        /\ draft.home[a] = Nowhere
        /\ corrected' = corrected
    BY <2>1 DEF Founding, TimeInv, Blank, TypeOK, Rows
  <2>4. Agrees(draft)'
    BY <1>0, <2>3 DEF CoherenceInv, Agrees
  <2>5. Dated(draft)'
    <3>1. ASSUME NEW y \in Events \ corrected', draft'.state[y] # "absent"
          PROVE  \E b \in Articles : draft'.home[b] = y /\ Published[b] = draft'.lastSeen[y]
      <4>1. CASE y = e
        BY <2>3, <4>1
      <4>2. CASE y # e
        <5>1. PICK b \in Articles : draft.home[b] = y /\ Published[b] = draft.lastSeen[y]
          BY <2>3, <3>1, <4>2 DEF CoherenceInv, Dated
        <5>2. b # a
          BY <1>0, <2>3, <5>1
        <5> QED BY <2>3, <4>2, <5>1, <5>2
      <4> QED BY <4>1, <4>2
    <3> QED BY <3>1 DEF Dated
  <2>6. Close(draft)'
    <3>1. ASSUME NEW x \in Articles, NEW y \in Articles,
                 draft'.home[x] \in Events \ corrected', y # x, draft'.home[y] = draft'.home[x]
          PROVE  \E b \in Articles : b # x /\ draft'.home[b] = draft'.home[x] /\ Near(x, b)
      <4>1. x # a /\ y # a
        BY <2>3, <3>1
      <4>2. PICK b \in Articles : b # x /\ draft.home[b] = draft.home[x] /\ Near(x, b)
        BY <2>3, <3>1, <4>1 DEF CoherenceInv, Close
      <4>3. b # a
        BY <1>0, <2>3, <3>1, <4>1, <4>2
      <4> QED BY <2>3, <4>1, <4>2, <4>3
    <3> QED BY <3>1 DEF Close
  <2> QED BY <2>2, <2>4, <2>5, <2>6 DEF CoherenceInv
<1>2. CASE Join(s, a)
  <2>1. PICK e \in Events : \E later, stored \in Times : Joining(s, a, e, later, stored)
    BY <1>2, JoinRows
  <2>2. PICK later \in Times, stored \in Times : Joining(s, a, e, later, stored)
    BY <2>1
  <2>3. Agrees(rows)' /\ Dated(rows)' /\ Close(rows)'
    BY <2>2, RowsStayCoherent DEF CoherenceInv, Joining
  <2>4. /\ draft'.home[a] = e /\ draft'.lastSeen[e] = stored
        /\ \A x \in Articles \ {a} : draft'.home[x] = draft.home[x]
        /\ \A y \in Events \ {e} : draft'.lastSeen[y] = draft.lastSeen[y]
        /\ \A y \in Events : draft'.state[y] = draft.state[y] /\ (draft'.demo[y] <=> draft.demo[y])
        /\ draft.demo[e] <=> a \in Demo
        /\ draft.home[a] = Nowhere
        /\ draft.state[e] = "active"
        /\ corrected' = corrected
    BY <2>2 DEF Joining, TypeOK, Rows
  <2>5. Agrees(draft)'
    BY <1>0, <2>4 DEF CoherenceInv, Agrees
  <2>6. ASSUME e \notin corrected
        PROVE  \E b \in Articles : b # a /\ draft.home[b] = e /\ Published[b] = draft.lastSeen[e]
    BY <1>0, <2>4, <2>6 DEF CoherenceInv, Dated
  <2>7. ASSUME e \notin corrected
        PROVE  \E b \in Articles :
                  (b = a \/ draft.home[b] = e) /\ Published[b] = LastSeen(s, e)
    <3>1. CASE kept[s] # Nothing /\ kept[s].event = e
      BY <2>2, <2>7, <3>1 DEF Joining, LastSeen, KeptInv, KeptIn
    <3>2. CASE ~(kept[s] # Nothing /\ kept[s].event = e)
      BY <2>6, <2>7, <3>2 DEF LastSeen
    <3> QED BY <3>1, <3>2
  <2>8. ASSUME e \notin corrected
        PROVE  \E b \in Articles : draft'.home[b] = e /\ Published[b] = stored
    <3>1. stored \in {LastSeen(s, e), Published[a], draft.lastSeen[e]}
      BY <2>2 DEF Joining
    <3> QED BY <2>4, <2>6, <2>7, <2>8, <3>1
  <2>9. Dated(draft)'
    <3>1. ASSUME NEW y \in Events \ corrected', draft'.state[y] # "absent"
          PROVE  \E b \in Articles : draft'.home[b] = y /\ Published[b] = draft'.lastSeen[y]
      <4>1. CASE y = e
        BY <2>4, <2>8, <3>1, <4>1
      <4>2. CASE y # e
        <5>1. PICK b \in Articles : draft.home[b] = y /\ Published[b] = draft.lastSeen[y]
          BY <2>4, <3>1, <4>2 DEF CoherenceInv, Dated
        <5>2. b # a
          BY <1>0, <2>4, <5>1
        <5> QED BY <2>4, <4>2, <5>1, <5>2
      <4> QED BY <4>1, <4>2
    <3> QED BY <3>1 DEF Dated
  <2>10. ASSUME NEW b \in Articles, Published[b] = draft.lastSeen[e]
         PROVE  Near(a, b) /\ Near(b, a)
    BY <2>2, <2>10, TimesAreNumbers DEF Joining, Near, Times
  <2>11. Close(draft)'
    <3>1. ASSUME NEW x \in Articles, NEW y \in Articles,
                 draft'.home[x] \in Events \ corrected', y # x, draft'.home[y] = draft'.home[x]
          PROVE  \E b \in Articles : b # x /\ draft'.home[b] = draft'.home[x] /\ Near(x, b)
      <4>1. CASE draft'.home[x] = e
        <5>1. PICK c \in Articles :
                c # a /\ draft.home[c] = e /\ Published[c] = draft.lastSeen[e]
          BY <2>4, <2>6, <3>1, <4>1
        <5>2. CASE x = a
          BY <2>4, <2>10, <4>1, <5>1, <5>2
        <5>3. CASE x = c
          BY <2>4, <2>10, <4>1, <5>1, <5>3
        <5>4. CASE x # a /\ x # c
          <6>1. draft.home[x] = e /\ draft.home[c] = e /\ e \notin corrected
            BY <2>4, <3>1, <4>1, <5>1, <5>4
          <6>2. PICK b \in Articles : b # x /\ draft.home[b] = draft.home[x] /\ Near(x, b)
            BY <5>4, <6>1 DEF CoherenceInv, Close
          <6>3. b # a
            BY <1>0, <2>4, <6>1, <6>2
          <6> QED BY <2>4, <4>1, <6>1, <6>2, <6>3
        <5> QED BY <5>2, <5>3, <5>4
      <4>2. CASE draft'.home[x] # e
        <5>1. x # a /\ y # a
          BY <2>4, <3>1, <4>2
        <5>2. PICK b \in Articles : b # x /\ draft.home[b] = draft.home[x] /\ Near(x, b)
          BY <2>4, <3>1, <5>1 DEF CoherenceInv, Close
        <5>3. b # a
          BY <1>0, <2>4, <3>1, <5>1, <5>2
        <5> QED BY <2>4, <5>1, <5>2, <5>3
      <4> QED BY <4>1, <4>2
    <3> QED BY <3>1 DEF Close
  <2> QED BY <2>3, <2>5, <2>9, <2>11 DEF CoherenceInv
<1> QED BY <1>1, <1>2

\* What a correction leaves of the events it does not touch.
Untouched ==
    \A y \in Events \ corrected' :
        /\ y \notin corrected
        /\ rows'.state[y] = rows.state[y]
        /\ rows'.lastSeen[y] = rows.lastSeen[y]
        /\ rows'.demo[y] <=> rows.demo[y]
        /\ \A x \in Articles : rows'.home[x] = y <=> rows.home[x] = y

\* Merges and splits leave the events they are not about.
LEMMA CorrectTouches ==
    ASSUME TypeOK, Correct
    PROVE  Untouched
<1>0. \A x \in Articles : rows.home[x] \in Events \cup {Nowhere}
  BY DEF TypeOK, Rows
<1>1. ASSUME NEW target \in Events, NEW sources \in SUBSET Events, Merge(target, sources)
      PROVE  Untouched
  <2>1. PICK lost \in SUBSET Events : Merging(target, sources, lost)
    BY <1>1, MergeRows
  <2>2. PICK g \in Times : Retimed(target, sources, g)
    BY <1>1, MergeTimes
  <2>3. ASSUME NEW y \in Events \ corrected'
        PROVE  /\ y \notin corrected
               /\ rows'.state[y] = rows.state[y]
               /\ rows'.lastSeen[y] = rows.lastSeen[y]
               /\ rows'.demo[y] <=> rows.demo[y]
    BY <2>1, <2>2 DEF Retimed, Merging, TypeOK, Rows
  <2>4. ASSUME NEW y \in Events \ corrected', NEW x \in Articles
        PROVE  rows'.home[x] = y <=> rows.home[x] = y
    BY <1>0, <2>1, <2>2, ClusterNames DEF Retimed, Merging
  <2> QED BY <2>3, <2>4 DEF Untouched
<1>2. ASSUME NEW e \in Events, NEW chosen \in SUBSET Articles, Split(e, chosen)
      PROVE  Untouched
  <2>1. PICK new \in Events : Parted(e, chosen, new)
    BY <1>2, SplitTimes
  <2>2. ASSUME NEW y \in Events \ corrected'
        PROVE  /\ y \notin corrected
               /\ rows'.state[y] = rows.state[y]
               /\ rows'.lastSeen[y] = rows.lastSeen[y]
               /\ rows'.demo[y] <=> rows.demo[y]
    BY <2>1 DEF Parted, Splitting, TypeOK, Rows
  <2>3. ASSUME NEW y \in Events \ corrected', NEW x \in Articles
        PROVE  rows'.home[x] = y <=> rows.home[x] = y
    BY <2>1 DEF Parted, Splitting
  <2> QED BY <2>2, <2>3 DEF Untouched
<1> QED BY <1>1, <1>2 DEF Correct

\* So what is not corrected stays coherent.
LEMMA CorrectCoherence ==
    ASSUME TypeOK, CoherenceInv, Correct
    PROVE  CoherenceInv'
<1>1. Untouched
  BY CorrectTouches
<1>2. Agrees(rows)'
  BY <1>1 DEF Untouched, CoherenceInv, Agrees
<1>3. Dated(rows)'
  BY <1>1 DEF Untouched, CoherenceInv, Dated
<1>4. Close(rows)'
  <2>1. ASSUME NEW x \in Articles, NEW y \in Articles,
               rows'.home[x] \in Events \ corrected', y # x, rows'.home[y] = rows'.home[x]
        PROVE  \E b \in Articles : b # x /\ rows'.home[b] = rows'.home[x] /\ Near(x, b)
    <3>1. /\ rows.home[x] = rows'.home[x] /\ rows.home[y] = rows'.home[x]
          /\ rows.home[x] \notin corrected
      BY <1>1, <2>1 DEF Untouched
    <3>2. PICK b \in Articles : b # x /\ rows.home[b] = rows.home[x] /\ Near(x, b)
      BY <2>1, <3>1 DEF CoherenceInv, Close
    <3> QED BY <1>1, <2>1, <3>1, <3>2 DEF Untouched
  <2> QED BY <2>1 DEF Close
<1>5. draft' = rows'
  BY DEF Correct, Merge, Split
<1> QED BY <1>2, <1>3, <1>4, <1>5 DEF CoherenceInv, Agrees, Dated, Close

\* Every step leaves the events nobody corrected coherent.
LEMMA CoherenceStep ==
    ASSUME TypeOK, TimeInv, CoherenceInv, KeptInv, [Next]_vars
    PROVE  CoherenceInv'
<1>1. ASSUME NEW s \in Sessions, NEW a \in Articles, Found(s, a) \/ Join(s, a)
      PROVE  CoherenceInv'
  BY <1>1, PlacingCoherence
<1>2. ASSUME NEW s \in Sessions, Ingest(s), \A a \in Articles : ~Found(s, a) /\ ~Join(s, a)
      PROVE  CoherenceInv'
  <2>1. /\ <<rows', draft'>> \in {<<rows, draft>>, <<rows, rows>>, <<draft, draft>>}
        /\ corrected' = corrected
    BY <1>2 DEF Ingest, Begin, Refetch, Commit, Rollback, Forget, history
  <2> QED BY <2>1 DEF CoherenceInv, Agrees, Dated, Close
<1>3. CASE Lock \/ UNCHANGED vars
  BY <1>3 DEF Lock, AskLock, SetLock, LockGivenUp, history, vars, CoherenceInv, Agrees, Dated, Close
<1>4. CASE Correct
  BY <1>4, CorrectCoherence
<1> QED BY <1>1, <1>2, <1>3, <1>4 DEF Next
-----------------------------------------------------------------------------
\* What a session keeps stays no later than what it will see.
LEMMA PlacingKept ==
    ASSUME TypeOK, AbsentInv, LockInv, TimeInv, CoherenceInv, KeptInv,
           NEW s \in Sessions, NEW a \in Articles, Found(s, a) \/ Join(s, a)
    PROVE  KeptInv'
<1>0. /\ \A x \in Articles : draft.home[x] \in Events \cup {Nowhere}
      /\ Nowhere \notin Events
      /\ kept \in [Sessions -> Kept \cup {Nothing}]
  BY ClusterNames DEF TypeOK, Rows
<1>1. CASE Found(s, a)
  <2>1. PICK e \in Events : Founding(s, a, e)
    BY <1>1, FoundRows
  <2>2. KeptIn(draft, s)'
    <3>1. kept'[s] = [event |-> e, lastSeen |-> Published[a]]
      BY <1>0, <2>1 DEF Founding
    <3>2. draft'.home[a] = e /\ draft'.lastSeen[e] = Published[a]
      BY <2>1 DEF Founding, TypeOK, Rows
    <3>3. Published[a] <= Published[a]
      BY TimesAreNumbers
    <3> QED BY <3>1, <3>2, <3>3 DEF KeptIn
  <2>3. ASSUME NEW t \in Sessions, t # s
        PROVE  KeptIn(rows, t)'
    <3>1. kept'[t] = kept[t] /\ rows' = rows /\ blurred' = blurred /\ corrected' = corrected
      BY <1>0, <2>1, <2>3 DEF Founding
    <3>2. KeptIn(rows, t)
      BY <2>1, <2>3 DEF Founding, KeptInv
    <3> QED BY <3>1, <3>2 DEF KeptIn
  <2> QED BY <2>1, <2>2, <2>3 DEF KeptInv, Founding
<1>2. CASE Join(s, a)
  <2>1. PICK e \in Events : \E later, stored \in Times : Joining(s, a, e, later, stored)
    BY <1>2, JoinRows
  <2>2. PICK later \in Times, stored \in Times : Joining(s, a, e, later, stored)
    BY <2>1
  <2>3. KeptIn(draft, s)'
    <3>1. kept'[s] = [event |-> e, lastSeen |-> later]
      BY <1>0, <2>2 DEF Joining
    <3>2. /\ draft'.home[a] = e /\ draft'.lastSeen[e] = stored
          /\ \A x \in Articles : draft.home[x] = e => draft'.home[x] = e
      BY <2>2 DEF Joining, TypeOK, Rows
    <3>3. e \notin blurred' => later <= stored
      <4>1. CASE stored = later
        BY <4>1, TimesAreNumbers
      <4>2. CASE stored = draft.lastSeen[e] /\ later = LastSeen(s, e)
        <5>1. e \notin blurred' => e \notin blurred
          BY <2>2 DEF Joining
        <5> QED BY <2>2, <4>2, <5>1, TimesAreNumbers DEF Joining, LastSeen, KeptInv, KeptIn
      <4> QED BY <2>2, <4>1, <4>2 DEF Joining
    <3>4. ASSUME e \notin corrected
          PROVE  \E b \in Articles : draft'.home[b] = e /\ Published[b] = later
      <4>1. CASE later = Published[a]
        BY <3>2, <4>1
      <4>2. CASE later = LastSeen(s, e) /\ kept[s] # Nothing /\ kept[s].event = e
        BY <2>2, <3>2, <3>4, <4>2 DEF Joining, LastSeen, KeptInv, KeptIn
      <4>3. CASE later = LastSeen(s, e) /\ ~(kept[s] # Nothing /\ kept[s].event = e)
        BY <2>2, <3>2, <3>4, <4>3 DEF Joining, LastSeen, CoherenceInv, Dated
      <4> QED BY <2>2, <4>1, <4>2, <4>3 DEF Joining
    <3>5. corrected' = corrected
      BY <2>2 DEF Joining
    <3> QED BY <3>1, <3>2, <3>3, <3>4, <3>5 DEF KeptIn
  <2>4. ASSUME NEW t \in Sessions, t # s
        PROVE  KeptIn(rows, t)'
    <3>1. kept'[t] = kept[t] /\ rows' = rows /\ blurred \subseteq blurred' /\ corrected' = corrected
      BY <1>0, <2>2, <2>4 DEF Joining
    <3>2. KeptIn(rows, t)
      BY <2>2, <2>4 DEF Joining, KeptInv
    <3> QED BY <3>1, <3>2 DEF KeptIn
  <2> QED BY <2>2, <2>3, <2>4 DEF KeptInv, Joining
<1> QED BY <1>1, <1>2

\* What an article or a time of rows is good for, draft is good for too.
LEMMA DraftKeeps ==
    ASSUME TypeOK, LockInv, TimeInv, NEW t \in Sessions, KeptIn(rows, t)
    PROVE  KeptIn(draft, t)
<1> SUFFICES ASSUME kept[t] # Nothing
             PROVE  KeptIn(draft, t)
  BY DEF KeptIn
<1> DEFINE e == kept[t].event
<1>1. e \in Events /\ kept[t].lastSeen \in Times
  BY TimesAreNumbers
<1>2. e \notin blurred => kept[t].lastSeen <= draft.lastSeen[e]
  BY <1>1, TimesAreNumbers DEF KeptIn, TimeInv
<1>3. e \notin corrected => \E b \in Articles : draft.home[b] = e /\ Published[b] = kept[t].lastSeen
  <2> SUFFICES ASSUME e \notin corrected
               PROVE  \E b \in Articles : draft.home[b] = e /\ Published[b] = kept[t].lastSeen
    OBVIOUS
  <2>1. PICK b \in Articles : rows.home[b] = e /\ Published[b] = kept[t].lastSeen
    BY DEF KeptIn
  <2>2. draft.home[b] = e
    BY <1>1, <2>1, ClusterNames DEF LockInv
  <2> QED BY <2>1, <2>2
<1> QED BY <1>2, <1>3 DEF KeptIn

\* The other steps of a session keep its event in step with the tables: a rollback expires
\* it, a commit makes rows what the session has seen.
LEMMA IngestKept ==
    ASSUME TypeOK, BatchInv, AbsentInv, LockInv, TimeInv, CoherenceInv, KeptInv,
           NEW s \in Sessions, Ingest(s), \A a \in Articles : ~Found(s, a) /\ ~Join(s, a)
    PROVE  KeptInv'
<1>0. s # NoOne /\ kept \in [Sessions -> Kept \cup {Nothing}]
  BY ClusterNames DEF TypeOK
<1>1. CASE Begin(s)
  <2>1. /\ rows' = rows /\ draft' = rows /\ batch' = s /\ kept' = kept
        /\ blurred' = blurred /\ corrected' = corrected
        /\ batch = NoOne
    BY <1>1 DEF Begin, history
  <2>2. \A t \in Sessions : KeptIn(rows, t)
    BY <2>1, ClusterNames DEF KeptInv
  <2>3. ASSUME NEW t \in Sessions
        PROVE  KeptIn(rows, t)' /\ KeptIn(draft, t)'
    BY <2>1, <2>2 DEF KeptIn
  <2> QED BY <2>3 DEF KeptInv
<1>2. ASSUME NEW a \in Articles, Refetch(s, a)
      PROVE  KeptInv'
  <2>1. /\ rows' = rows /\ draft' = draft /\ batch = s /\ batch' = s
        /\ blurred' = blurred /\ corrected' = corrected
    BY <1>2 DEF Refetch, history
  <2> DEFINE e == draft.home[a]
  <2>2. e \in Events
    BY <1>2 DEF Refetch, TypeOK, Rows
  <2>3. kept'[s] = [event |-> e, lastSeen |-> LastSeen(s, e)]
    BY <1>0, <1>2 DEF Refetch, Keep
  <2>4. e \notin blurred => LastSeen(s, e) <= draft.lastSeen[e]
    BY <2>1, <2>2, TimesAreNumbers DEF LastSeen, KeptInv, KeptIn, Times
  <2>5. ASSUME e \notin corrected
        PROVE  \E b \in Articles : draft.home[b] = e /\ Published[b] = LastSeen(s, e)
    <3>1. CASE kept[s] # Nothing /\ kept[s].event = e
      BY <2>1, <2>5, <3>1 DEF LastSeen, KeptInv, KeptIn
    <3>2. CASE ~(kept[s] # Nothing /\ kept[s].event = e)
      <4>1. draft.state[e] # "absent"
        BY <2>2 DEF TimeInv, Blank
      <4> QED BY <2>2, <2>5, <3>2, <4>1 DEF LastSeen, CoherenceInv, Dated
    <3> QED BY <3>1, <3>2
  <2>6. KeptIn(draft, s)'
    BY <2>1, <2>3, <2>4, <2>5 DEF KeptIn
  <2>7. ASSUME NEW t \in Sessions, t # s
        PROVE  KeptIn(rows, t)'
    <3>1. kept'[t] = kept[t]
      BY <1>0, <1>2, <2>7 DEF Refetch, Keep
    <3>2. KeptIn(rows, t)
      BY <2>1, <2>7 DEF KeptInv
    <3> QED BY <2>1, <3>1, <3>2 DEF KeptIn
  <2> QED BY <2>1, <2>6, <2>7 DEF KeptInv
<1>3. CASE Commit(s)
  <2>1. /\ rows' = draft /\ draft' = draft /\ batch = s /\ batch' = NoOne /\ kept' = kept
        /\ blurred' = blurred /\ corrected' = corrected
    BY <1>3 DEF Commit, history
  <2>2. \A t \in Sessions : KeptIn(draft, t)
    BY <2>1, DraftKeeps DEF KeptInv
  <2>3. ASSUME NEW t \in Sessions
        PROVE  KeptIn(rows, t)' /\ KeptIn(draft, t)'
    BY <2>1, <2>2 DEF KeptIn
  <2> QED BY <2>3 DEF KeptInv
<1>4. CASE Rollback(s) \/ Forget(s)
  <2>1. /\ rows' = rows /\ draft' \in {rows, draft} /\ kept' = [kept EXCEPT ![s] = Nothing]
        /\ blurred' = blurred /\ corrected' = corrected
        /\ \/ batch = s /\ batch' = NoOne
           \/ batch # s /\ batch' = batch /\ draft' = draft
    BY <1>4 DEF Rollback, Forget, history
  <2>2. kept'[s] = Nothing /\ \A t \in Sessions \ {s} : kept'[t] = kept[t]
    BY <1>0, <2>1
  <2>3. ASSUME NEW t \in Sessions
        PROVE  /\ batch' = t => KeptIn(draft, t)'
               /\ batch' # t => KeptIn(rows, t)'
    <3>1. CASE t = s
      BY <2>2, <3>1 DEF KeptIn
    <3>2. CASE t # s
      <4>1. kept'[t] = kept[t]
        BY <2>2, <3>2
      <4>2. (batch' = t <=> batch = t) /\ (batch = t => draft' = draft)
        BY <2>1, <3>2, ClusterNames
      <4>3. batch = t => KeptIn(draft, t)
        BY DEF KeptInv
      <4>4. batch # t => KeptIn(rows, t)
        BY DEF KeptInv
      <4> QED BY <2>1, <4>1, <4>2, <4>3, <4>4 DEF KeptIn
    <3> QED BY <3>1, <3>2
  <2> QED BY <2>3 DEF KeptInv
<1> QED BY <1>1, <1>2, <1>3, <1>4 DEF Ingest

\* A correction takes no time back from a session's event, unless it blurs it.
LEMMA CorrectKept ==
    ASSUME TypeOK, KeptInv, Correct
    PROVE  KeptInv'
<1>0. Untouched
  BY CorrectTouches
<1>1. batch = NoOne /\ batch' = NoOne /\ kept' = kept
  BY DEF Correct, Merge, Split, MayCorrect
<1>2. \A y \in Events \ blurred' :
          y \notin blurred /\ rows.lastSeen[y] <= rows'.lastSeen[y]
  <2>1. ASSUME NEW target \in Events, NEW sources \in SUBSET Events, Merge(target, sources)
        PROVE  \A y \in Events \ blurred' :
                   y \notin blurred /\ rows.lastSeen[y] <= rows'.lastSeen[y]
    <3>1. PICK g \in Times : Retimed(target, sources, g)
      BY <2>1, MergeTimes
    <3> QED BY <3>1, TimesAreNumbers DEF Retimed, TypeOK, Rows, Times
  <2>2. ASSUME NEW e \in Events, NEW chosen \in SUBSET Articles, Split(e, chosen)
        PROVE  \A y \in Events \ blurred' :
                   y \notin blurred /\ rows.lastSeen[y] <= rows'.lastSeen[y]
    <3>1. PICK new \in Events : Parted(e, chosen, new)
      BY <2>2, SplitTimes
    <3> QED BY <3>1, TimesAreNumbers DEF Parted, Times
  <2> QED BY <2>1, <2>2 DEF Correct
<1>3. ASSUME NEW t \in Sessions
      PROVE  KeptIn(rows, t)'
  <2>0. KeptIn(rows, t)
    BY <1>1, ClusterNames DEF KeptInv
  <2> SUFFICES ASSUME kept[t] # Nothing
               PROVE  KeptIn(rows, t)'
    BY <1>1 DEF KeptIn
  <2> DEFINE e == kept[t].event
  <2>1. e \in Events /\ kept[t].lastSeen \in Times
    BY TimesAreNumbers
  <2>2. e \notin blurred' => kept[t].lastSeen <= rows'.lastSeen[e]
    <3>1. TypeOK'
      BY CorrectType
    <3>2. rows'.lastSeen[e] \in Times
      BY <2>1, <3>1 DEF TypeOK, Rows
    <3> QED BY <1>2, <2>0, <2>1, <3>2, TimesAreNumbers DEF KeptIn
  <2>3. e \notin corrected' =>
            \E b \in Articles : rows'.home[b] = e /\ Published[b] = kept[t].lastSeen
    BY <1>0, <2>0, <2>1 DEF KeptIn, Untouched
  <2> QED BY <1>1, <2>2, <2>3 DEF KeptIn
<1> QED BY <1>1, <1>3, ClusterNames DEF KeptInv

\* Every step keeps it so.
LEMMA KeptStep ==
    ASSUME TypeOK, BatchInv, AbsentInv, LockInv, TimeInv, CoherenceInv, KeptInv, [Next]_vars
    PROVE  KeptInv'
<1>1. ASSUME NEW s \in Sessions, NEW a \in Articles, Found(s, a) \/ Join(s, a)
      PROVE  KeptInv'
  BY <1>1, PlacingKept
<1>2. ASSUME NEW s \in Sessions, Ingest(s), \A a \in Articles : ~Found(s, a) /\ ~Join(s, a)
      PROVE  KeptInv'
  BY <1>2, IngestKept
<1>3. CASE Lock \/ UNCHANGED vars
  BY <1>3 DEF Lock, AskLock, SetLock, LockGivenUp, history, vars, KeptInv, KeptIn
<1>4. CASE Correct
  BY <1>4, CorrectKept
<1> QED BY <1>1, <1>2, <1>3, <1>4 DEF Next
-----------------------------------------------------------------------------
(***************************************************************************)
(* Theorems                                                                *)
(***************************************************************************)
\* The invariant holds for all articles, events, sessions and any window.
THEOREM Invariant == Spec => []IInv
<1>1. Init => IInv
  <2> SUFFICES ASSUME Init
               PROVE  IInv
    OBVIOUS
  <2>1. BatchInv /\ AbsentInv /\ LockInv
    BY DEF Init, BatchInv, AbsentInv, LockInv
  <2>2. Listed(rows) /\ draft = rows
    <3>1. /\ \A a \in Articles : rows.home[a] = Nowhere
          /\ placed = {}
          /\ draft = rows
      BY DEF Init
    <3> QED BY <3>1, ClusterNames DEF Listed
  <2> QED BY <2>1, <2>2, TypeInit DEF IInv, ListInv
<1>2. IInv /\ [Next]_vars => IInv'
  BY TypeStep, BatchStep, AbsentStep, LockStep, ListStep DEF IInv
<1> QED BY <1>1, <1>2, PTL DEF Spec

\* The tables of events and memberships keep their types (ingest_article, merge_events,
\* split_event, set_event_lock).
THEOREM TypeCorrect == Spec => []TypeOK
<1>1. IInv => TypeOK
  BY DEF IInv
<1> QED BY <1>1, Invariant, PTL

\* Whatever was placed once stays in an event that is listed, through batches, rollbacks,
\* splits and merges, but for the articles of a merge into a merged event or of one that
\* repeats its target (ingest_article, merge_events, split_event).
THEOREM NothingLost == Spec => []EveryArticleIsListed
<1>1. IInv => EveryArticleIsListed
  BY DEF IInv, TypeOK, ListInv, Listed, EveryArticleIsListed
<1> QED BY <1>1, Invariant, PTL

\* A locked event gets no article from a batch, whenever the lock was set
\* (set_event_lock, ingest_article).
THEOREM LockIsolates == Spec => LockedAdmitsNothing
<1> DEFINE Admits == \A a \in Articles :
                        rows.home[a] = Nowhere /\ rows'.home[a] # Nowhere => ~locked[rows'.home[a]]
<1>1. ASSUME IInv, [Next]_vars
      PROVE  [Admits]_vars
  <2>0. TypeOK
    BY <1>1 DEF IInv
  <2>1. ASSUME NEW s \in Sessions, Ingest(s)
        PROVE  Admits \/ UNCHANGED rows
    <3>1. CASE Commit(s)
      BY <1>1, <3>1 DEF Commit, IInv, LockInv
    <3>2. CASE ~Commit(s)
      BY <2>1, <3>2 DEF Ingest, Begin, Refetch, Found, Join, Rollback, Forget
    <3> QED BY <3>1, <3>2
  <2>2. CASE Lock
    BY <2>2 DEF Lock, AskLock, SetLock, LockGivenUp
  <2>3. ASSUME NEW target \in Events, NEW sources \in SUBSET Events, Merge(target, sources)
        PROVE  Admits
    <3>1. PICK lost \in SUBSET Events : Merging(target, sources, lost)
      BY <2>0, <2>3, MergeRows
    <3> QED BY <3>1, ClusterNames DEF Merging
  <2>4. ASSUME NEW e \in Events, NEW chosen \in SUBSET Articles, Split(e, chosen)
        PROVE  Admits
    <3>1. PICK new \in Events : Splitting(e, chosen, new)
      BY <2>0, <2>4, SplitRows
    <3> QED BY <3>1, ClusterNames DEF Splitting
  <2>5. CASE UNCHANGED vars
    BY <2>5
  <2> QED BY <1>1, <2>1, <2>2, <2>3, <2>4, <2>5 DEF Next, Correct
<1> QED BY <1>1, Invariant, PTL DEF Spec, LockedAdmitsNothing
-----------------------------------------------------------------------------
\* Times and articles agree initially and after every step.
LEMMA TablesInit == Init => TimeInv /\ CoherenceInv /\ KeptInv
<1> SUFFICES ASSUME Init
             PROVE  TimeInv /\ CoherenceInv /\ KeptInv
  OBVIOUS
<1>1. /\ \A a \in Articles : rows.home[a] = Nowhere
      /\ \A e \in Events : rows.state[e] = "absent" /\ rows.lastSeen[e] = 0
      /\ \A s \in Sessions : kept[s] = Nothing
      /\ draft = rows
  BY DEF Init
<1>2. TimeInv
  BY <1>1, ClusterNames DEF TimeInv, Blank, Covers
<1>3. CoherenceInv
  BY <1>1, ClusterNames DEF CoherenceInv, Agrees, Dated, Close
<1>4. KeptInv
  BY <1>1 DEF KeptInv, KeptIn
<1> QED BY <1>2, <1>3, <1>4

\* The times of events, and the articles near them, keep to each other in both tables
\* and in what sessions keep.
THEOREM TimesAreKept == Spec => [](TimeInv /\ CoherenceInv /\ KeptInv)
<1>1. /\ IInv /\ TimeInv /\ CoherenceInv /\ KeptInv
      /\ [Next]_vars
      => TimeInv' /\ CoherenceInv' /\ KeptInv'
  BY TimeStep, CoherenceStep, KeptStep DEF IInv
<1> QED BY <1>1, TablesInit, Invariant, PTL DEF Spec

\* last_seen covers the articles of an event through stale sessions, merges and
\* rollbacks, but where a split or a stale session took it back (ingest_article,
\* merge_events).
THEOREM WindowsAreRight == Spec => []LastSeenCovers
<1>1. TypeOK /\ TimeInv => LastSeenCovers
  BY TimesAreNumbers DEF TypeOK, Rows, Times, TimeInv, Covers, LastSeenCovers
<1> QED BY <1>1, TypeCorrect, TimesAreKept, PTL

\* The articles of an event nobody corrected are of one domain, and each is near
\* another, in whatever order they came and whatever the sessions kept (_find_cluster).
THEOREM EventsCohere == Spec => []EventsAreCoherent
<1>1. ASSUME TypeOK, CoherenceInv
      PROVE  EventsAreCoherent
  <2>1. ASSUME NEW a \in Articles, rows.home[a] # Nowhere, ~Corrected(a),
               NEW x \in Members(rows, rows.home[a]) \ {a}
        PROVE  /\ a \in Demo <=> x \in Demo
               /\ \E b \in Members(rows, rows.home[a]) \ {a} :
                     Published[a] - Published[b] \in -Window .. Window
    <3>1. rows.home[a] \in Events \ corrected
      BY <1>1, <2>1 DEF Corrected, TypeOK, Rows
    <3>2. x \in Articles /\ x # a /\ rows.home[x] = rows.home[a]
      BY DEF Members
    <3>3. a \in Demo <=> x \in Demo
      BY <1>1, <3>1, <3>2 DEF CoherenceInv, Agrees
    <3>4. PICK b \in Articles : b # a /\ rows.home[b] = rows.home[a] /\ Near(a, b)
      BY <1>1, <3>1, <3>2 DEF CoherenceInv, Close
    <3> QED BY <3>3, <3>4 DEF Members, Near
  <2> QED BY <2>1 DEF EventsAreCoherent
<1>2. TypeOK /\ CoherenceInv => EventsAreCoherent
  BY <1>1
<1> QED BY <1>2, TypeCorrect, TimesAreKept, PTL
=============================================================================
