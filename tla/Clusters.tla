------------------------------ MODULE Clusters ------------------------------
(***************************************************************************)
(* Event clusters: how ingest_article of services.py places the articles   *)
(* of a pull in events (_find_cluster), and how an analyst corrects them   *)
(* with set_event_lock, merge_events and split_event.                      *)
(*                                                                         *)
(* The entries of a source are placed in one transaction without an await, *)
(* so merges and splits, which are coroutines of the same loop, come       *)
(* before or after it.  The lock endpoint runs in a thread and may come    *)
(* between any two steps; SQLite's write lock, which the flush of the      *)
(* first article takes, is all that keeps it out.  The session of a pull   *)
(* lives on for the next source and keeps the event it placed the last     *)
(* article in, with the last_seen it had then.                             *)
(*                                                                         *)
(* Abstracted: time is counted in steps of which Window make the seven     *)
(* days.  Titles are left out: an analysis renames an event after its      *)
(* representative and a fetch renames an article, so the similarity of an  *)
(* article to any event it is compared with may reach the threshold or     *)
(* not.  An article without a date is one published when it is fetched.    *)
(***************************************************************************)
EXTENDS Integers, FiniteSets

CONSTANTS
    Articles,  \* articles, by (source_id, canonical_url)
    Events,    \* event ids, used in any order
    Sessions,  \* database sessions that ingest: pulls and manual URLs
    Nowhere,   \* an article has no membership
    NoOne,     \* no batch is under way, the write lock is free
    Nothing,   \* a session keeps no event, the lock endpoint is idle
    Published, \* Published[a]: published_at
    Demo,      \* articles of demo sources (source.is_demo)
    Window,    \* CLUSTER_WINDOW_DAYS
    MaxTime,   \* bound: the latest time
    MaxCorrections \* bound: requests of the analyst

Times == 0 .. MaxTime

ASSUME ClusterNames ==
    /\ Nowhere \notin Events \cup {Nothing}
    /\ NoOne \notin Sessions
    /\ Nothing \notin Events
    /\ Demo \subseteq Articles

ASSUME ClusterTimes ==
    /\ MaxTime \in Nat /\ Window \in Nat /\ MaxCorrections \in Nat
    /\ Published \in [Articles -> Times]

VARIABLES
    rows,   \* the committed EventArticle, EventCluster and Article rows
    locked, \* EventCluster.locked, events by default unlocked
    draft,  \* rows as the batch under way sees them
    batch,  \* the session whose batch is under way: the event loop is busy
    writer, \* who holds SQLite's write lock
    kept,   \* kept[s]: the event object the session still holds
    asked,  \* the request the lock endpoint has checked but not written
    (* history *)
    corrections, \* requests of the analyst so far, one Feedback row each
    corrected,   \* events a merge or split has touched
    blurred,     \* events whose last_seen a split or a stale session wrote
    placed,      \* articles that were in an event when a batch was stored
    dropped      \* those a merge took along into an event that is merged, or is in its
                 \* own list
service == <<batch, writer, kept, asked>>
history == <<corrections, corrected, blurred, placed, dropped>>
vars == <<rows, locked, draft, batch, writer, kept, asked,
          corrections, corrected, blurred, placed, dropped>>

Rows ==
    [home     : [Articles -> Events \cup {Nowhere}],     \* EventArticle
     state    : [Events -> {"absent", "active", "merged"}],
     lastSeen : [Events -> Times],
     demo     : [Events -> BOOLEAN]]                 \* is_demo

Kept == [event : Events, lastSeen : Times]
Request == [event : Events, locked : BOOLEAN]

Init ==
    /\ rows = [home     |-> [a \in Articles |-> Nowhere],
               state    |-> [e \in Events |-> "absent"],
               lastSeen |-> [e \in Events |-> 0],
               demo     |-> [e \in Events |-> FALSE]]
    /\ locked = [e \in Events |-> FALSE]
    /\ draft = rows
    /\ batch = NoOne
    /\ writer = NoOne
    /\ kept = [s \in Sessions |-> Nothing]
    /\ asked = Nothing
    /\ corrections = 0
    /\ corrected = {}
    /\ blurred = {}
    /\ placed = {}
    /\ dropped = {}

Members(r, e) == {a \in Articles : r.home[a] = e}
Absent(r) == {e \in Events : r.state[e] = "absent"}
Greatest(times) == CHOOSE t \in times : \A u \in times : u <= t
-----------------------------------------------------------------------------
(***************************************************************************)
(* Ingestion                                                               *)
(***************************************************************************)

\* Mutant: the first article is not flushed before events are read.
BeginUnflushed(s) ==
    /\ batch = NoOne
    /\ batch' = s
    /\ UNCHANGED <<rows, locked, draft, writer, kept, asked, history>>

\* The entries of a source are fetched; the flush of the first article (or the
\* autoflush of the last_seen_at of a known one) takes the write lock.
Begin(s) ==
    /\ batch = NoOne
    /\ writer = NoOne
    /\ batch' = s
    /\ writer' = s
    /\ draft' = rows
    /\ UNCHANGED <<rows, locked, kept, asked, history>>

\* Mutant: the window has no end.
CandidatesUntilForever(a) ==
    {e \in Events :
        /\ draft.state[e] = "active"
        /\ ~locked[e]
        /\ draft.demo[e] = (a \in Demo)
        /\ draft.lastSeen[e] >= Published[a] - Window}

\* _find_cluster: the events an article is compared with.
Candidates(a) ==
    {e \in Events :
        /\ draft.state[e] = "active"
        /\ ~locked[e]
        /\ draft.demo[e] = (a \in Demo)
        /\ draft.lastSeen[e] \in Published[a] - Window .. Published[a] + Window}

\* last_seen of the event object the session gets: the database's unless the
\* session still holds the event from an earlier batch.
LastSeen(s, e) ==
    IF kept[s] # Nothing /\ kept[s].event = e THEN kept[s].lastSeen ELSE draft.lastSeen[e]

Keep(s, e, time) == kept' = [kept EXCEPT ![s] = [event |-> e, lastSeen |-> time]]

\* An article that is in an event stays there.
Refetch(s, a) ==
    /\ batch = s
    /\ draft.home[a] # Nowhere
    /\ Keep(s, draft.home[a], LastSeen(s, draft.home[a]))
    /\ UNCHANGED <<rows, locked, draft, batch, writer, asked, history>>

\* Mutant: last_seen of a new event is the end of its window.
FoundAtWindowEnd(s, a) ==
    /\ batch = s
    /\ draft.home[a] = Nowhere
    /\ \E e \in Absent(draft) :
        /\ draft' = [draft EXCEPT !.home[a] = e,
                                  !.state[e] = "active",
                                  !.lastSeen[e] = Published[a] + Window,
                                  !.demo[e] = (a \in Demo)]
        /\ Keep(s, e, Published[a] + Window)
    /\ UNCHANGED <<rows, locked, batch, writer, asked, history>>

\* An article that is like none of the candidates makes an event of its own.
Found(s, a) ==
    /\ batch = s
    /\ draft.home[a] = Nowhere
    /\ \E e \in Absent(draft) :
        /\ draft' = [draft EXCEPT !.home[a] = e,
                                  !.state[e] = "active",
                                  !.lastSeen[e] = Published[a],
                                  !.demo[e] = (a \in Demo)]
        /\ Keep(s, e, Published[a])
    /\ UNCHANGED <<rows, locked, batch, writer, asked, history>>

\* Mutant: the event does not learn of a later article.
JoinUnseen(s, a) ==
    /\ batch = s
    /\ draft.home[a] = Nowhere
    /\ \E e \in Candidates(a) :
        /\ draft' = [draft EXCEPT !.home[a] = e]
        /\ Keep(s, e, LastSeen(s, e))
    /\ UNCHANGED <<rows, locked, batch, writer, asked, history>>

\* An article joins the candidate it is most like; how like they are is left open, since
\* titles change.  The later time is written if it differs from the one the object had;
\* if it is equal SQLAlchemy writes it or not, by whether the object was loaded (a naive
\* time) or set before (an aware one).
Join(s, a) ==
    /\ batch = s
    /\ draft.home[a] = Nowhere
    /\ \E e \in Candidates(a) :
        LET later == Greatest({LastSeen(s, e), Published[a]})
        IN \E stored \in {later} \cup
                         (IF later = LastSeen(s, e) THEN {draft.lastSeen[e]} ELSE {}) :
            /\ draft' = [draft EXCEPT !.home[a] = e,
                                      !.lastSeen[e] = stored,
                                      !.demo[e] = @ /\ (a \in Demo)]
            /\ Keep(s, e, later)
            /\ blurred' = IF stored < draft.lastSeen[e] THEN blurred \cup {e} ELSE blurred
    /\ UNCHANGED <<rows, locked, batch, writer, asked, corrections, corrected, placed, dropped>>

\* The batch is stored; sessions do not expire at a commit.
Commit(s) ==
    /\ batch = s
    /\ rows' = draft
    /\ batch' = NoOne
    /\ writer' = NoOne
    /\ placed' = placed \cup {a \in Articles : draft.home[a] # Nowhere}
    /\ UNCHANGED <<locked, draft, kept, asked, corrections, corrected, blurred, dropped>>

\* An entry without title or URL, or a crash, loses the batch; a rollback expires
\* what the session holds.
Rollback(s) ==
    /\ batch = s
    /\ draft' = rows
    /\ batch' = NoOne
    /\ writer' = NoOne
    /\ kept' = [kept EXCEPT ![s] = Nothing]
    /\ UNCHANGED <<rows, locked, asked, history>>

\* The session ends, or rolls back after a fetch or an analysis that failed.
Forget(s) ==
    /\ batch # s
    /\ kept[s] # Nothing
    /\ kept' = [kept EXCEPT ![s] = Nothing]
    /\ UNCHANGED <<rows, locked, draft, batch, writer, asked, history>>
-----------------------------------------------------------------------------
(***************************************************************************)
(* Corrections                                                             *)
(***************************************************************************)

\* set_event_lock reads the event; a lock it already has is no change.
AskLock(e, value) ==
    /\ asked = Nothing
    /\ corrections < MaxCorrections
    /\ corrections' = corrections + 1
    /\ rows.state[e] = "active"
    /\ locked[e] # value
    /\ asked' = [event |-> e, locked |-> value]
    /\ UNCHANGED <<rows, locked, draft, batch, writer, kept, corrected, blurred, placed, dropped>>

\* It writes that one column, with its Feedback, when the write lock is free.
SetLock ==
    /\ asked # Nothing
    /\ writer = NoOne
    /\ locked' = [locked EXCEPT ![asked.event] = asked.locked]
    /\ asked' = Nothing
    /\ UNCHANGED <<rows, draft, batch, writer, kept, history>>

\* "database is locked": the request fails after busy_timeout.
LockGivenUp ==
    /\ asked # Nothing
    /\ writer # NoOne
    /\ asked' = Nothing
    /\ UNCHANGED <<rows, locked, draft, batch, writer, kept, history>>

MayCorrect ==
    /\ batch = NoOne
    /\ writer = NoOne
    /\ corrections < MaxCorrections
    /\ corrections' = corrections + 1

\* Mutant: merged events keep their articles.
MergedUnmoved(target, sources, lost) ==
    [rows EXCEPT
        !.state = [e \in Events |-> IF e \in sources THEN "merged" ELSE @[e]],
        !.lastSeen[target] = Greatest({rows.lastSeen[e] : e \in sources \cup {target}})]

\* The rows after a merge: the articles of the sources move to the target, those of
\* the events in lost are in no event.
Merged(target, sources, lost) ==
    [rows EXCEPT
        !.home = [a \in Articles |-> IF @[a] \in lost THEN Nowhere
                                     ELSE IF @[a] \in sources THEN target ELSE @[a]],
        !.state = [e \in Events |-> IF e \in sources THEN "merged" ELSE @[e]],
        !.lastSeen[target] = Greatest({rows.lastSeen[e] : e \in sources \cup {target}})]

\* merge_events: any events, whatever their state, lock or domain.  A target that
\* is also in the list finds all its memberships to be there already and deletes
\* them, those of the events before it in the list included.
Merge(target, sources) ==
    /\ MayCorrect
    /\ sources # {}
    /\ \A e \in sources \cup {target} : rows.state[e] # "absent"
    /\ \E earlier \in SUBSET (sources \ {target}) :
        /\ target \notin sources => earlier = {}
        /\ rows' = Merged(target, sources, IF target \in sources THEN earlier \cup {target} ELSE {})
    /\ draft' = rows'
    /\ corrected' = corrected \cup sources \cup {target}
    /\ blurred' = IF sources \cap blurred # {} THEN blurred \cup {target} ELSE blurred
    /\ dropped' = IF target \in sources \/ rows.state[target] = "merged"
                  THEN dropped \cup {a \in Articles : rows.home[a] \in sources}
                  ELSE dropped
    /\ UNCHANGED <<locked, batch, writer, kept, asked, placed>>

\* split_event: some, but not all, of the articles of an event get one of their
\* own, last seen when one of them was last fetched, which is any time here.
Split(e, chosen) ==
    /\ MayCorrect
    /\ chosen \subseteq Members(rows, e)
    /\ chosen \notin {{}, Members(rows, e)}
    /\ \E new \in Absent(rows), time \in Times :
        /\ rows' = [rows EXCEPT !.home = [a \in Articles |-> IF a \in chosen THEN new ELSE @[a]],
                                !.state[new] = "active",
                                !.lastSeen[new] = time,
                                !.demo[new] = rows.demo[e]]
        /\ corrected' = corrected \cup {e, new}
        /\ blurred' = blurred \cup {new}
    /\ draft' = rows'
    /\ UNCHANGED <<locked, batch, writer, kept, asked, placed, dropped>>

-----------------------------------------------------------------------------
Ingest(s) ==
    \/ Begin(s)
    \/ \E a \in Articles : Refetch(s, a) \/ Found(s, a) \/ Join(s, a)
    \/ Commit(s)
    \/ Rollback(s)
    \/ Forget(s)

Lock == (\E e \in Events, value \in BOOLEAN : AskLock(e, value)) \/ SetLock \/ LockGivenUp

Correct ==
    \/ \E target \in Events, sources \in SUBSET Events : Merge(target, sources)
    \/ \E e \in Events, chosen \in SUBSET Articles : Split(e, chosen)

Next == (\E s \in Sessions : Ingest(s)) \/ Lock \/ Correct

Spec == Init /\ [][Next]_vars
-----------------------------------------------------------------------------
(***************************************************************************)
(* Properties                                                              *)
(***************************************************************************)

\* The tables of events and memberships are well formed, committed or not.
TypeOK ==
    /\ rows \in Rows
    /\ draft \in Rows
    /\ locked \in [Events -> BOOLEAN]
    /\ batch \in Sessions \cup {NoOne}
    /\ writer \in Sessions \cup {NoOne}
    /\ kept \in [Sessions -> Kept \cup {Nothing}]
    /\ asked \in Request \cup {Nothing}
    /\ corrections \in 0 .. MaxCorrections
    /\ corrected \subseteq Events
    /\ blurred \subseteq Events
    /\ placed \subseteq Articles
    /\ dropped \subseteq Articles

Corrected(a) == rows.home[a] \in corrected

\* An event is coherent: the articles of one nobody corrected are of one domain, demo
\* or live, although only its first article sets its flag; and none of them is further
\* than the window from all the others, in whatever order they arrived and whatever
\* last_seen a stale session left (_find_cluster, ingest_article).
EventsAreCoherent ==
    \A a \in Articles :
        LET others == Members(rows, rows.home[a]) \ {a}
        IN rows.home[a] # Nowhere /\ ~Corrected(a) /\ others # {}
           => /\ \A b \in others : a \in Demo <=> b \in Demo
              /\ \E b \in others : Published[a] - Published[b] \in -Window .. Window

\* last_seen is no earlier than any article of the event, through merges and
\* splits, except for an event that a split made or a stale session wrote: there
\* later articles may be compared with the wrong window.
LastSeenCovers ==
    \A a \in Articles :
        rows.home[a] # Nowhere /\ rows.home[a] \notin blurred
        => rows.lastSeen[rows.home[a]] >= Published[a]

\* Every article a stored batch has ever placed is still in an event, and in one that
\* lists show (list_events has the active ones): no sequence of batches, rollbacks,
\* splits and merges loses one, except those a merge took along whose target was merged
\* already or repeated in its own list.
EveryArticleIsListed ==
    \A a \in placed \ dropped :
        rows.home[a] # Nowhere /\ rows.state[rows.home[a]] = "active"

\* The lock isolates: from the commit that locks an event to the one that unlocks
\* it no batch places an article there, also not one that is under way when the
\* lock is set (set_event_lock against ingest_article).
LockedAdmitsNothing ==
    [][ \A a \in Articles :
            rows.home[a] = Nowhere /\ rows'.home[a] # Nowhere => ~locked[rows'.home[a]] ]_vars
=============================================================================
