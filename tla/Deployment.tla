------------------------------ MODULE Deployment ------------------------------
(***************************************************************************)
(* Deployments of the production host: the workflow deploy-production, the *)
(* scripts deploy/remote-deploy.sh and deploy/remote-rollback.sh it runs   *)
(* over SSH, the online backup and the restore of a backup.                *)
(*                                                                         *)
(* A release is the directory a run of the workflow unpacks; the links     *)
(* current and previous name releases; one set of containers (the compose  *)
(* project has one name) runs one of them.  A started container migrates   *)
(* the database before it is ready and cannot start on a newer schema.     *)
(* The script fails into its EXIT trap, or dies without one, or loses the  *)
(* rest of its text to a command that shares its standard input; the       *)
(* workflow may time out and leave its script running on the host.         *)
(*                                                                         *)
(* Abstracted: inputs that are refused before the host is reached, files   *)
(* and modes of a release, registry logins, and the database, of which the *)
(* schema revision is kept.                                                *)
(***************************************************************************)
EXTENDS Naturals, FiniteSets

CONSTANTS
    Runs,       \* runs of the workflow, by GITHUB_RUN_ID, and their releases
    Operator,   \* who runs remote-rollback.sh by hand
    Nothing,    \* no release, no file
    Revisions,  \* revisions of the schema, 0 is an empty database
    Torn,       \* a database file that is not complete
    MaxReruns,  \* bound: runs that are run again
    MaxDeaths,  \* bound: scripts killed, their EXIT trap included
    MaxOrphans  \* bound: scripts whose workflow is gone

Scripts == Runs \cup {Operator}

ASSUME DeploymentNames ==
    /\ Operator \notin Runs
    /\ Nothing \notin Runs

ASSUME DeploymentBounds ==
    /\ Revisions \subseteq Nat
    /\ 0 \in Revisions
    /\ MaxReruns \in Nat
    /\ MaxDeaths \in Nat
    /\ MaxOrphans \in Nat

ASSUME FilesAssumption == {Torn, Nothing} \cap Revisions = {} /\ Torn # Nothing

(***************************************************************************)
(* Where a script is.  Staging ends with the release directory; from "up"  *)
(* on the trap may be armed; "smoke" is the runner's, and what follows it  *)
(* is remote-rollback.sh.                                                  *)
(***************************************************************************)
Staging == {"stage", "unpack", "inspect", "backup", "checksum", "pull"}
Replacing == {"up", "wait", "link previous", "link current"}
Trap == {"restore", "await restored"}
RollingBack == {"read links", "roll back", "await previous", "swap current", "swap previous"}
UnderWay == Staging \cup Replacing \cup Trap \cup {"smoke"} \cup RollingBack
Ended ==
    {"done",        \* deployed, and the smoke test passed
     "refused",     \* nothing was replaced
     "restored",    \* failed, and the trap restored the previous release
     "rolled back", \* the smoke test failed and remote-rollback.sh ended
     "closed",      \* failed, and nothing was to be restored
     "lost",        \* the restoring failed too: "operator intervention is required"
     "dead"}        \* killed, or its workflow is gone

VARIABLES
    head,      \* head[r]: the head revision of the release's image
    (* the host *)
    releases,  \* complete release directories
    unpacking, \* temporary release directories
    current, previous, \* the links
    container, \* the release whose containers run
    ready,     \* they are healthy
    db,        \* the schema revision of the database
    backups,   \* backup files, with or without their checksum
    target,    \* the file a restore writes
    restoring, \* the backup that is being restored
    (* scripts *)
    pc,        \* pc[s]: where script s is
    displaced, \* displaced[s]: previous_release
    copied,    \* copied[s]: the database as the backup of s has it
    goal, failed, \* goal[s], failed[s]: the links remote-rollback.sh read
    approved,  \* approved[s]: ROLLBACK_APPROVED
    orphans,   \* scripts whose workflow is gone
    consumed,  \* runs whose script ended with the backup it asked for
    (* auxiliary *)
    reruns, deaths, \* counted for the bounds
    unsure,    \* what runs may not be what the link says
    wasReady,  \* releases that were ready once
    found      \* found[s]: the database when the script looked for a current release

links == <<current, previous>>
service == <<container, ready, db>>
restore == <<target, restoring>>
script == <<displaced, copied, goal, failed, approved, orphans, consumed>>
aux == <<reruns, deaths, unsure, wasReady, found>>
host == <<head, releases, unpacking, links, service, backups, restore>>
vars == <<head, releases, unpacking, current, previous, container, ready, db, backups, target,
          restoring, pc, displaced, copied, goal, failed, approved, orphans, consumed, reruns,
          deaths, unsure, wasReady, found>>

Init ==
    /\ head \in [Runs -> Revisions \ {0}]
    /\ releases = {}
    /\ unpacking = {}
    /\ current = Nothing
    /\ previous = Nothing
    /\ container = Nothing
    /\ ready = FALSE
    /\ db = 0
    /\ backups = {}
    /\ target = Nothing
    /\ restoring = Nothing
    /\ pc = [s \in Scripts |-> "idle"]
    /\ displaced = [s \in Scripts |-> Nothing]
    /\ copied = [s \in Scripts |-> Nothing]
    /\ goal = [s \in Scripts |-> Nothing]
    /\ failed = [s \in Scripts |-> Nothing]
    /\ approved = [s \in Scripts |-> FALSE]
    /\ orphans = {}
    /\ consumed = {}
    /\ reruns = 0
    /\ deaths = 0
    /\ unsure = FALSE
    /\ wasReady = {}
    /\ found = [s \in Scripts |-> Nothing]

At(s, p) == pc[s] = p
Goto(s, p) == pc' = [pc EXCEPT ![s] = p]
Step(s, from, to) == At(s, from) /\ Goto(s, to)

\* The concurrency group of the workflow, and an operator who waits for it.
Quiet == \A s \in Scripts : pc[s] \in UnderWay => s \in orphans

\* compose up: the containers of another release are replaced.
Replace(r) ==
    /\ container' = r
    /\ ready' = (container = r /\ ready)
    /\ UNCHANGED db
-----------------------------------------------------------------------------
(***************************************************************************)
(* The service                                                             *)
(***************************************************************************)
\* lifespan: upgrade_database, then /health/ready answers.
Boot ==
    /\ container # Nothing
    /\ ~ready
    /\ head[container] >= db
    /\ ready' = TRUE
    /\ db' = head[container]
    /\ wasReady' = wasReady \cup {container}
    /\ UNCHANGED <<head, releases, unpacking, links, container, backups, restore, pc, script,
                   reruns, deaths, unsure, found>>
-----------------------------------------------------------------------------
(***************************************************************************)
(* The workflow and remote-deploy.sh                                       *)
(***************************************************************************)
\* The workflow is dispatched, or a run of it is run again under its id.  Rollback is
\* approved only if the migration history is compatible with the release it displaces.
Start(r) ==
    /\ Quiet
    /\ \/ At(r, "idle") /\ UNCHANGED reruns
       \/ /\ pc[r] \in Ended
          /\ r \notin orphans
          /\ reruns < MaxReruns
          /\ reruns' = reruns + 1
    /\ Goto(r, "stage")
    /\ \E yes \in BOOLEAN :
        /\ \A c \in {current} \ {Nothing} : yes => head[c] >= head[r]
        /\ approved' = [approved EXCEPT ![r] = yes]
    /\ displaced' = [displaced EXCEPT ![r] = Nothing]
    /\ consumed' = consumed \ {r}
    /\ UNCHANGED <<host, copied, goal, failed, orphans, deaths, unsure, wasReady, found>>

\* "Release directory already exists" otherwise.
Stage(r) ==
    /\ Step(r, "stage", "unpack")
    /\ r \notin releases \cup unpacking
    /\ unpacking' = unpacking \cup {r}
    /\ UNCHANGED <<head, releases, links, service, backups, restore, script, aux>>

Unpack(r) ==
    /\ Step(r, "unpack", "inspect")
    /\ unpacking' = unpacking \ {r}
    /\ releases' = releases \cup {r}
    /\ UNCHANGED <<head, links, service, backups, restore, script, reruns, deaths, unsure,
                   wasReady, found>>

\* The current release is what a failure restores; its containers are asked for a
\* backup.  A first deployment has none.
Inspect(r) ==
    /\ \/ current = Nothing /\ Step(r, "inspect", "pull")
       \/ current # Nothing /\ container # Nothing /\ Step(r, "inspect", "backup")
    /\ displaced' = [displaced EXCEPT ![r] = current]
    /\ found' = [found EXCEPT ![r] = db]
    /\ UNCHANGED <<host, copied, goal, failed, approved, orphans, consumed, reruns, deaths,
                   unsure, wasReady>>

\* backup.py: the database first, its checksum then.
Backup(r) ==
    /\ Step(r, "backup", "checksum")
    /\ backups' = backups \cup {[content |-> db, sum |-> FALSE]}
    /\ copied' = [copied EXCEPT ![r] = db]
    /\ UNCHANGED <<head, releases, unpacking, links, service, restore, displaced, goal, failed,
                   approved, orphans, consumed, aux>>

\* Mutant: a failing checksum does not end the deployment.
ChecksumUnchecked(r) ==
    /\ Step(r, "checksum", "pull")
    /\ UNCHANGED <<host, script, aux>>

Checksum(r) ==
    /\ Step(r, "checksum", "pull")
    /\ backups' = (backups \ {[content |-> copied[r], sum |-> FALSE]})
                    \cup {[content |-> copied[r], sum |-> TRUE]}
    /\ UNCHANGED <<head, releases, unpacking, links, service, restore, script, aux>>

\* The workflow pipes the script into bash -s, and compose exec has the same standard
\* input: what it reads of the script is not run.  The script ends with the status of
\* the backup, the release of before runs on, and the workflow tests that.  How much
\* exec reads before the backup ends is left open.
Consume(r) ==
    /\ displaced[r] # Nothing
    /\ Step(r, "pull", IF r \in orphans THEN "dead" ELSE "smoke")
    /\ consumed' = consumed \cup {r}
    /\ UNCHANGED <<host, displaced, copied, goal, failed, approved, orphans, aux>>

Pull(r) ==
    /\ Step(r, "pull", "up")
    /\ UNCHANGED <<host, script, aux>>

\* A command before compose up fails: the trap removes the temporary directory, also
\* one that was there before.
Refuse(r) ==
    /\ pc[r] \in Staging
    /\ Goto(r, "refused")
    /\ unpacking' = unpacking \ {r}
    /\ backups' \in {backups} \cup
          (IF At(r, "backup") THEN {backups \cup {[content |-> Torn, sum |-> FALSE]}} ELSE {})
    /\ UNCHANGED <<head, releases, links, service, restore, script, aux>>

\* Mutant: compose up does not wait.
UpUnawaited(r) ==
    /\ Step(r, "up", "link current")
    /\ Replace(r)
    /\ UNCHANGED <<head, releases, unpacking, links, backups, restore, script, aux>>

Up(r) ==
    /\ Step(r, "up", "wait")
    /\ Replace(r)
    /\ UNCHANGED <<head, releases, unpacking, links, backups, restore, script, aux>>

Healthy(r) == container = r /\ ready

UpReady(r) ==
    /\ Healthy(r)
    /\ Step(r, "wait", IF displaced[r] = Nothing THEN "link current" ELSE "link previous")
    /\ UNCHANGED <<host, script, aux>>

\* Mutant: the link is moved to the release that is now current.
LinkPreviousLate(r) ==
    /\ Step(r, "link previous", "link current")
    /\ previous' = r
    /\ UNCHANGED <<head, releases, unpacking, current, service, backups, restore, script, aux>>

LinkPrevious(r) ==
    /\ Step(r, "link previous", "link current")
    /\ previous' = displaced[r]
    /\ UNCHANGED <<head, releases, unpacking, current, service, backups, restore, script, aux>>

\* The script's last step; a workflow that is gone runs no smoke test.
LinkCurrent(r) ==
    /\ Step(r, "link current", IF r \in orphans THEN "dead" ELSE "smoke")
    /\ current' = r
    /\ unsure' = FALSE
    /\ UNCHANGED <<head, releases, unpacking, previous, service, backups, restore, script,
                   reruns, deaths, wasReady, found>>

Armed(r) == displaced[r] # Nothing /\ approved[r]

\* Mutant: compose up waits without a timeout.
FailAtOnce(r) ==
    /\ pc[r] \in Replacing \ {"wait"}
    /\ Goto(r, IF Armed(r) THEN "restore" ELSE "closed")
    /\ unsure' = TRUE
    /\ UNCHANGED <<host, script, reruns, deaths, wasReady, found>>

\* A command from compose up on fails, or the release is not ready within the timeout.
Fail(r) ==
    /\ pc[r] \in Replacing
    /\ Goto(r, IF Armed(r) THEN "restore" ELSE "closed")
    /\ unsure' = TRUE
    /\ UNCHANGED <<host, script, reruns, deaths, wasReady, found>>

\* rollback_previous of the trap; the links stay.
Restore(r) ==
    /\ Step(r, "restore", "await restored")
    /\ Replace(displaced[r])
    /\ UNCHANGED <<head, releases, unpacking, links, backups, restore, script, aux>>

Restored(r) ==
    /\ Healthy(displaced[r])
    /\ Step(r, "await restored", "restored")
    /\ unsure' = FALSE
    /\ UNCHANGED <<host, script, reruns, deaths, wasReady, found>>

RestoreFails(r) ==
    /\ pc[r] \in Trap
    /\ Goto(r, "lost")
    /\ UNCHANGED <<host, script, aux>>

\* "Run public HTTPS smoke", and what the workflow does if it fails.
Smoke(r) ==
    /\ \/ Step(r, "smoke", "done")
       \/ Step(r, "smoke", IF approved[r] THEN "read links" ELSE "closed")
    /\ UNCHANGED <<host, script, aux>>
-----------------------------------------------------------------------------
(***************************************************************************)
(* remote-rollback.sh                                                      *)
(***************************************************************************)
\* The operator runs it by hand.
Intervene ==
    /\ Quiet
    /\ pc[Operator] \in Ended \cup {"idle"}
    /\ reruns < MaxReruns
    /\ reruns' = reruns + 1
    /\ Goto(Operator, "read links")
    /\ UNCHANGED <<host, script, deaths, unsure, wasReady, found>>

ReadLinks(s) ==
    /\ \/ /\ current = Nothing \/ previous = Nothing
          /\ Step(s, "read links", "closed")
          /\ UNCHANGED <<goal, failed>>
       \/ /\ current # Nothing /\ previous # Nothing
          /\ Step(s, "read links", "roll back")
          /\ goal' = [goal EXCEPT ![s] = previous]
          /\ failed' = [failed EXCEPT ![s] = current]
    /\ UNCHANGED <<host, displaced, copied, approved, orphans, consumed, aux>>

RollBack(s) ==
    /\ Step(s, "roll back", "await previous")
    /\ Replace(goal[s])
    /\ UNCHANGED <<head, releases, unpacking, links, backups, restore, script, aux>>

PreviousReady(s) ==
    /\ Healthy(goal[s])
    /\ Step(s, "await previous", "swap current")
    /\ UNCHANGED <<host, script, aux>>

\* Mutant: the containers are switched and the link is not.
SwapNothing(s) ==
    /\ Step(s, "swap current", "swap previous")
    /\ UNCHANGED <<host, script, aux>>

SwapCurrent(s) ==
    /\ Step(s, "swap current", "swap previous")
    /\ current' = goal[s]
    /\ UNCHANGED <<head, releases, unpacking, previous, service, backups, restore, script, aux>>

SwapPrevious(s) ==
    /\ Step(s, "swap previous", "rolled back")
    /\ previous' = failed[s]
    /\ unsure' = FALSE
    /\ UNCHANGED <<head, releases, unpacking, current, service, backups, restore, script,
                   reruns, deaths, wasReady, found>>

RollBackFails(s) ==
    /\ pc[s] \in RollingBack
    /\ Goto(s, "lost")
    /\ unsure' = TRUE
    /\ UNCHANGED <<host, script, reruns, deaths, wasReady, found>>
-----------------------------------------------------------------------------
(***************************************************************************)
(* What ends a script from outside                                         *)
(***************************************************************************)
\* The script is killed, or the host restarts: no trap.  A smoke test ends so when its
\* runner is lost.
Die(s) ==
    /\ pc[s] \in UnderWay
    /\ deaths < MaxDeaths
    /\ deaths' = deaths + 1
    /\ Goto(s, "dead")
    /\ unsure' = (unsure \/ pc[s] \notin Staging)
    /\ backups' \in {backups} \cup
          (IF At(s, "backup") THEN {backups \cup {[content |-> Torn, sum |-> FALSE]}} ELSE {})
    /\ UNCHANGED <<head, releases, unpacking, links, service, restore, script, reruns, wasReady,
                   found>>

\* The job reaches timeout-minutes or loses its runner; the script it runs on the host
\* goes on.
Orphan(r) ==
    /\ pc[r] \in UnderWay \ {"smoke"}
    /\ orphans' = orphans \cup {r}
    /\ orphans' # orphans
    /\ Cardinality(orphans') <= MaxOrphans
    /\ UNCHANGED <<host, pc, displaced, copied, goal, failed, approved, consumed, aux>>
-----------------------------------------------------------------------------
(***************************************************************************)
(* restore.py, run by the operator between deployments                     *)
(***************************************************************************)
\* Mutant: the checksum is not asked for.
RestoreUnverified ==
    /\ Quiet
    /\ restoring = Nothing
    /\ target = Nothing
    /\ \E b \in backups : restoring' = b.content
    /\ target' = Torn
    /\ UNCHANGED <<head, releases, unpacking, links, service, backups, pc, script, aux>>

\* A backup without its checksum is refused, and so is a target that exists.
RestoreBackup ==
    /\ Quiet
    /\ restoring = Nothing
    /\ target = Nothing
    /\ \E b \in backups : b.sum /\ restoring' = b.content
    /\ target' = Torn
    /\ UNCHANGED <<head, releases, unpacking, links, service, backups, pc, script, aux>>

RestoreEnds ==
    /\ restoring # Nothing
    /\ target' = restoring
    /\ restoring' = Nothing
    /\ UNCHANGED <<head, releases, unpacking, links, service, backups, pc, script, aux>>

\* An error removes what was written; a kill does not.
RestoreBreaks ==
    /\ restoring # Nothing
    /\ restoring' = Nothing
    /\ \/ target' = Nothing /\ UNCHANGED deaths
       \/ deaths < MaxDeaths /\ deaths' = deaths + 1 /\ UNCHANGED target
    /\ UNCHANGED <<head, releases, unpacking, links, service, backups, pc, script, reruns, unsure,
                   wasReady, found>>
-----------------------------------------------------------------------------
Deploy(r) ==
    \/ Stage(r) \/ Unpack(r) \/ Inspect(r) \/ Backup(r) \/ Checksum(r) \/ Consume(r) \/ Pull(r)
    \/ Refuse(r)
    \/ Up(r) \/ UpReady(r) \/ LinkPrevious(r) \/ LinkCurrent(r) \/ Fail(r)
    \/ Restore(r) \/ Restored(r) \/ RestoreFails(r)
    \/ Smoke(r)

Rollback(s) ==
    \/ ReadLinks(s) \/ RollBack(s) \/ PreviousReady(s) \/ SwapCurrent(s) \/ SwapPrevious(s)
    \/ RollBackFails(s)

Next ==
    \/ Boot
    \/ \E r \in Runs : Start(r) \/ Deploy(r) \/ Orphan(r)
    \/ Intervene
    \/ \E s \in Scripts : Rollback(s) \/ Die(s)
    \/ RestoreBackup \/ RestoreEnds \/ RestoreBreaks

Spec == Init /\ [][Next]_vars

(***************************************************************************)
(* Fairness.  A script is a process of the host that goes on until it ends *)
(* or is killed: every command of it returns, the two that wait for a      *)
(* container with --wait-timeout.  Nothing is assumed of the service: a    *)
(* release may never become ready.                                         *)
(***************************************************************************)
Fairness == \A s \in Scripts : WF_vars(s \in Runs /\ Deploy(s)) /\ WF_vars(Rollback(s))
FairSpec == Spec /\ Fairness
-----------------------------------------------------------------------------
(***************************************************************************)
(* Properties                                                              *)
(***************************************************************************)
Link == Runs \cup {Nothing}
BackupFile == [content : Revisions \cup {Torn}, sum : BOOLEAN]

\* Every variable keeps its type.
TypeOK ==
    /\ releases \subseteq Runs
    /\ unpacking \subseteq Runs
    /\ head \in [Runs -> Revisions]
    /\ current \in Link /\ previous \in Link /\ container \in Link
    /\ ready \in BOOLEAN
    /\ db \in Revisions
    /\ backups \subseteq BackupFile
    /\ target \in Revisions \cup {Torn, Nothing}
    /\ restoring \in Revisions \cup {Nothing}
    /\ pc \in [Scripts -> {"idle"} \cup UnderWay \cup Ended]
    /\ displaced \in [Scripts -> Link]
    /\ goal \in [Scripts -> Link]
    /\ failed \in [Scripts -> Link]
    /\ copied \in [Scripts -> Revisions \cup {Nothing}]
    /\ found \in [Scripts -> Revisions \cup {Nothing}]
    /\ approved \in [Scripts -> BOOLEAN]
    /\ orphans \subseteq Runs
    /\ consumed \subseteq Runs
    /\ reruns \in 0 .. MaxReruns
    /\ deaths \in 0 .. MaxDeaths
    /\ unsure \in BOOLEAN
    /\ wasReady \subseteq Runs

\* The links only ever name complete releases that have been ready, whatever fails,
\* dies or runs beside: what a rollback starts has worked before.
LinkedWereReady == {current, previous} \ {Nothing} \subseteq releases \cap wasReady

\* A deployment that displaces a release has a backup with its checksum of at least
\* the schema revision it met, before and after it replaces the containers.
BackedUpFirst ==
    \A r \in Runs :
        pc[r] \in {"pull", "smoke"} \cup Replacing \cup Trap /\ displaced[r] # Nothing =>
            \E b \in backups :
                /\ b.sum
                /\ b.content # Torn
                /\ b.content >= found[r]

\* Once no script is under way the containers are those of the current link, unless
\* the last script that replaced containers was killed or failed without restoring,
\* or a deployment went on without its workflow.
LinkTellsWhatRuns ==
    Quiet /\ orphans = {} /\ ~unsure => container = current

\* The rollback after a failed smoke test reads from the links, in a script of its own,
\* the release the deployment displaced and the one it deployed.  If the script of the
\* deployment was consumed, nothing was deployed: the smoke test is of the release of
\* before, which the rollback takes for the failed one and leaves for an older one.
RollbackGoesBack ==
    \A r \in Runs : orphans = {} =>
        /\ pc[r] \in {"smoke", "read links"} =>
              current = IF r \in consumed THEN displaced[r] ELSE r
        /\ pc[r] \in RollingBack \ {"read links"} =>
              IF r \in consumed
              THEN goal[r] = previous /\ failed[r] = displaced[r]
              ELSE goal[r] = displaced[r] /\ failed[r] = r

\* Again and again the host is free for the next deployment: no script waits for ever,
\* also not for a release that never becomes ready.
HostIsFree == []<>(\A s \in Scripts : pc[s] \notin UnderWay)
=============================================================================
