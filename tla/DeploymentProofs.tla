--------------------------- MODULE DeploymentProofs ---------------------------
(***************************************************************************)
(* Proofs about Deployment, for any runs of the workflow, any schema       *)
(* revisions and any number of reruns, deaths and orphans.                 *)
(***************************************************************************)
EXTENDS Deployment, TLAPS

(***************************************************************************)
(* The invariant                                                           *)
(***************************************************************************)
Place == {"idle"} \cup UnderWay \cup Ended
Staged == UnderWay \ {"stage", "unpack"}           \* the release directory is there
Displacing ==
    {"backup", "checksum", "pull", "up", "wait", "link previous", "link current"} \cup Trap
Replaced == {"wait", "link previous", "link current"} \* by the release of the script
Switched == {"await previous", "swap current", "swap previous"} \* to the goal of a rollback

\* Scripts are where their kind may be.
PlaceInv ==
    /\ pc[Operator] \in {"idle"} \cup RollingBack \cup Ended
    /\ \A r \in orphans : pc[r] \in (UnderWay \ {"smoke"}) \cup Ended

Vouched(link) == link # Nothing => link \in releases /\ link \in wasReady

\* A release that a link, or a script that may move one, names is complete and was
\* ready; what is ready, or about to be linked, was.
ReadyInv ==
    /\ ready => container \in wasReady
    /\ \A r \in Runs :
        /\ pc[r] \in Staged => r \in releases
        /\ pc[r] \in {"link previous", "link current"} => r \in wasReady
    /\ Vouched(current) /\ Vouched(previous)
    /\ \A s \in Scripts : Vouched(displaced[s]) /\ Vouched(goal[s]) /\ Vouched(failed[s])

\* No link is taken away: a release is displaced, or rolled back to, only if there is
\* a current one.
NamedInv ==
    /\ current = Nothing =>
          /\ previous = Nothing
          /\ \A s \in Scripts : displaced[s] = Nothing /\ goal[s] = Nothing /\ failed[s] = Nothing
    /\ \A s \in Scripts :
        /\ pc[s] \in RollingBack \ {"read links"} => goal[s] # Nothing /\ failed[s] # Nothing
        /\ pc[s] \in Trap \cup {"link previous"} => displaced[s] # Nothing

\* A torn file never gets a checksum.
Sound(b) == b \in BackupFile /\ (b.sum => b.content # Torn)
FilesInv == \A b \in backups : Sound(b)

\* The database does not go back to an earlier revision than a deployment found.
SchemaInv ==
    \A r \in Runs :
        /\ pc[r] = "backup" => found[r] \in Revisions /\ db >= found[r]
        /\ pc[r] = "checksum" => /\ found[r] \in Revisions /\ copied[r] \in Revisions
                                 /\ copied[r] >= found[r]

\* Only one script is under way, unless some workflow has gone.
SoloInv == orphans = {} =>
    \A s, t \in Scripts : pc[s] \in UnderWay /\ pc[t] \in UnderWay => s = t

\* What a deployment that is alone knows of the links.
LinksOf(r) ==
    /\ pc[r] \in Displacing => current = displaced[r]
    /\ pc[r] = "link current" => previous = displaced[r]
    /\ pc[r] \in Staging \cup Replacing \cup Trap => r \notin consumed
    /\ pc[r] \in {"smoke", "read links"} =>
          /\ r \in consumed => current = displaced[r]
          /\ r \notin consumed => current = r /\ previous = displaced[r]
    /\ pc[r] \in RollingBack \ {"read links"} =>
          /\ r \in consumed => goal[r] = previous /\ failed[r] = displaced[r]
          /\ r \notin consumed => goal[r] = displaced[r] /\ failed[r] = r

LinksInv == orphans = {} => \A r \in Runs : LinksOf(r)

\* What a script that is alone knows of the containers.
ServiceOf(s) ==
    /\ pc[s] \in Replaced => container = s
    /\ pc[s] = "await restored" => container = displaced[s]
    /\ pc[s] \in Switched => container = goal[s]
    /\ pc[s] = "swap previous" => current = goal[s]
    /\ pc[s] \in Trap => unsure

\* A script that has switched the containers and not yet the link.
Between(s) == pc[s] \in Replaced \cup Switched \cup {"await restored"}

ServiceInv == orphans = {} =>
    /\ \A s \in Scripts : ServiceOf(s)
    /\ unsure \/ container = current \/ \E s \in Scripts : Between(s)

IInv ==
    /\ TypeOK /\ PlaceInv /\ ReadyInv /\ NamedInv /\ FilesInv /\ SchemaInv /\ BackedUpFirst
    /\ SoloInv /\ LinksInv /\ ServiceInv
-----------------------------------------------------------------------------
(***************************************************************************)
(* Types                                                                   *)
(***************************************************************************)
\* A torn copy and a copy of a revision are sound files.
LEMMA Files ==
    /\ Sound([content |-> Torn, sum |-> FALSE])
    /\ \A v \in Revisions, sum \in BOOLEAN : Sound([content |-> v, sum |-> sum])
BY FilesAssumption DEF BackupFile, Sound

\* The initial values have their types.
LEMMA TypeInit == Init => TypeOK
<1> SUFFICES ASSUME Init
             PROVE  TypeOK
  OBVIOUS
<1>1. head \in [Runs -> Revisions]
  BY DEF Init
<1>2. /\ db \in Revisions
      /\ backups \subseteq BackupFile
      /\ reruns \in 0 .. MaxReruns
      /\ deaths \in 0 .. MaxDeaths
  BY DeploymentBounds DEF Init
<1>3. /\ displaced \in [Scripts -> Link]
      /\ goal \in [Scripts -> Link]
      /\ failed \in [Scripts -> Link]
      /\ copied \in [Scripts -> Revisions \cup {Nothing}]
      /\ found \in [Scripts -> Revisions \cup {Nothing}]
      /\ approved \in [Scripts -> BOOLEAN]
      /\ pc \in [Scripts -> {"idle"} \cup UnderWay \cup Ended]
  BY DEF Init, Link
<1> QED BY <1>1, <1>2, <1>3 DEF Init, TypeOK, Link

\* Every script stays in the places of its kind.
LEMMA PlaceStep ==
    ASSUME TypeOK, PlaceInv, [Next]_vars
    PROVE  pc' \in [Scripts -> Place] /\ PlaceInv'
<1> USE DEF TypeOK, Scripts, Place, PlaceInv, Step, At, Goto, Replace, links, service, restore,
    script, aux, host, UnderWay, Staging, Replacing, Trap, RollingBack, Ended
<1>1. ASSUME NEW r \in Runs, Deploy(r)
      PROVE  pc' \in [Scripts -> Place] /\ PlaceInv'
  <2>1. CASE Stage(r)
    BY <2>1 DEF Stage
  <2>2. CASE Unpack(r)
    BY <2>2 DEF Unpack
  <2>3. CASE Inspect(r)
    BY ZenonT(40), <2>3 DEF Inspect
  <2>4. CASE Backup(r)
    BY <2>4 DEF Backup
  <2>5. CASE Checksum(r)
    BY <2>5 DEF Checksum
  <2>6. CASE Pull(r)
    BY <2>6 DEF Pull
  <2>7. CASE Refuse(r)
    BY <2>7 DEF Refuse
  <2>8. CASE Up(r)
    BY <2>8 DEF Up
  <2>9. CASE UpReady(r)
    BY <2>9 DEF UpReady
  <2>10. CASE LinkPrevious(r)
    BY <2>10 DEF LinkPrevious
  <2>11. CASE LinkCurrent(r)
    BY <2>11 DEF LinkCurrent
  <2>12. CASE Fail(r)
    BY <2>12 DEF Fail
  <2>13. CASE Restore(r)
    BY <2>13 DEF Restore
  <2>14. CASE Restored(r)
    BY <2>14 DEF Restored
  <2>15. CASE RestoreFails(r)
    BY <2>15 DEF RestoreFails
  <2>16. CASE Smoke(r)
    BY ZenonT(40), <2>16 DEF Smoke
  <2>17. CASE Consume(r)
    BY <2>17 DEF Consume
  <2> QED BY <1>1, <2>1, <2>2, <2>3, <2>4, <2>5, <2>6, <2>7, <2>8, <2>9, <2>10, <2>11, <2>12,
      <2>13, <2>14, <2>15, <2>16, <2>17 DEF Deploy
<1>2. ASSUME NEW s \in Scripts, Rollback(s)
      PROVE  pc' \in [Scripts -> Place] /\ PlaceInv'
  <2>1. CASE ReadLinks(s)
    BY ZenonT(40), <2>1 DEF ReadLinks
  <2>2. CASE RollBack(s)
    BY <2>2 DEF RollBack
  <2>3. CASE PreviousReady(s)
    BY <2>3 DEF PreviousReady
  <2>4. CASE SwapCurrent(s)
    BY <2>4 DEF SwapCurrent
  <2>5. CASE SwapPrevious(s)
    BY <2>5 DEF SwapPrevious
  <2>6. CASE RollBackFails(s)
    BY <2>6 DEF RollBackFails
  <2> QED BY <1>2, <2>1, <2>2, <2>3, <2>4, <2>5, <2>6 DEF Rollback
<1>3. ASSUME NEW r \in Runs, Start(r)
      PROVE  pc' \in [Scripts -> Place] /\ PlaceInv'
  <2>1. pc' = [pc EXCEPT ![r] = "stage"] /\ orphans' = orphans
    BY <1>3 DEF Start
  <2> QED BY <2>1, DeploymentNames
<1>4. ASSUME NEW r \in Runs, Orphan(r)
      PROVE  pc' \in [Scripts -> Place] /\ PlaceInv'
  BY <1>4 DEF Orphan
<1>5. ASSUME NEW s \in Scripts, Die(s)
      PROVE  pc' \in [Scripts -> Place] /\ PlaceInv'
  BY <1>5 DEF Die
<1>6. CASE Boot
  BY <1>6 DEF Boot
<1>7. CASE Intervene
  <2>1. pc' = [pc EXCEPT ![Operator] = "read links"] /\ orphans' = orphans
    BY <1>7 DEF Intervene
  <2> QED BY <2>1, DeploymentNames
<1>8. CASE RestoreBackup
  BY <1>8 DEF RestoreBackup
<1>9. CASE RestoreEnds
  BY <1>9 DEF RestoreEnds
<1>10. CASE RestoreBreaks
  BY <1>10 DEF RestoreBreaks
<1>11. CASE UNCHANGED vars
  BY <1>11 DEF vars
<1> QED BY <1>1, <1>2, <1>3, <1>4, <1>5, <1>6, <1>7, <1>8, <1>9, <1>10, <1>11 DEF Next

\* Backups are of a revision, or torn.
LEMMA FilesStep ==
    ASSUME TypeOK, SchemaInv, FilesInv, [Next]_vars
    PROVE  FilesInv'
<1> USE Files
<1> USE DEF FilesInv, TypeOK, Step, At, Goto, Replace, links, service, restore, script, aux, host
<1>1. ASSUME NEW r \in Runs, Deploy(r)
      PROVE  FilesInv'
  <2>1. CASE Stage(r)
    BY <2>1 DEF Stage
  <2>2. CASE Unpack(r)
    BY <2>2 DEF Unpack
  <2>3. CASE Inspect(r)
    BY <2>3 DEF Inspect
  <2>4. CASE Backup(r)
    BY <2>4 DEF Backup
  <2>5. CASE Checksum(r)
    <3>1. copied[r] \in Revisions
      BY <2>5 DEF Checksum, SchemaInv
    <3> QED BY <2>5, <3>1 DEF Checksum
  <2>6. CASE Pull(r)
    BY <2>6 DEF Pull
  <2>7. CASE Refuse(r)
    <3>1. backups' = backups \/ backups' = backups \cup {[content |-> Torn, sum |-> FALSE]}
      BY <2>7 DEF Refuse
    <3> QED BY <3>1
  <2>8. CASE Up(r)
    BY <2>8 DEF Up
  <2>9. CASE UpReady(r)
    BY <2>9 DEF UpReady
  <2>10. CASE LinkPrevious(r)
    BY <2>10 DEF LinkPrevious
  <2>11. CASE LinkCurrent(r)
    BY <2>11 DEF LinkCurrent
  <2>12. CASE Fail(r)
    BY <2>12 DEF Fail
  <2>13. CASE Restore(r)
    BY <2>13 DEF Restore
  <2>14. CASE Restored(r)
    BY <2>14 DEF Restored
  <2>15. CASE RestoreFails(r)
    BY <2>15 DEF RestoreFails
  <2>16. CASE Smoke(r)
    BY <2>16 DEF Smoke
  <2>17. CASE Consume(r)
    BY <2>17 DEF Consume
  <2> QED BY <1>1, <2>1, <2>2, <2>3, <2>4, <2>5, <2>6, <2>7, <2>8, <2>9, <2>10, <2>11, <2>12,
      <2>13, <2>14, <2>15, <2>16, <2>17 DEF Deploy
<1>2. ASSUME NEW s \in Scripts, Rollback(s)
      PROVE  FilesInv'
  <2>1. CASE ReadLinks(s)
    BY <2>1 DEF ReadLinks
  <2>2. CASE RollBack(s)
    BY <2>2 DEF RollBack
  <2>3. CASE PreviousReady(s)
    BY <2>3 DEF PreviousReady
  <2>4. CASE SwapCurrent(s)
    BY <2>4 DEF SwapCurrent
  <2>5. CASE SwapPrevious(s)
    BY <2>5 DEF SwapPrevious
  <2>6. CASE RollBackFails(s)
    BY <2>6 DEF RollBackFails
  <2> QED BY <1>2, <2>1, <2>2, <2>3, <2>4, <2>5, <2>6 DEF Rollback
<1>3. ASSUME NEW r \in Runs, Start(r)
      PROVE  FilesInv'
  BY <1>3 DEF Start
<1>4. ASSUME NEW r \in Runs, Orphan(r)
      PROVE  FilesInv'
  BY <1>4 DEF Orphan
<1>5. ASSUME NEW s \in Scripts, Die(s)
      PROVE  FilesInv'
  <2>1. backups' = backups \/ backups' = backups \cup {[content |-> Torn, sum |-> FALSE]}
    BY <1>5 DEF Die
  <2> QED BY <2>1
<1>6. CASE Boot
  BY <1>6 DEF Boot
<1>7. CASE Intervene
  BY <1>7 DEF Intervene
<1>8. CASE RestoreBackup
  BY <1>8 DEF RestoreBackup
<1>9. CASE RestoreEnds
  BY <1>9 DEF RestoreEnds
<1>10. CASE RestoreBreaks
  BY <1>10 DEF RestoreBreaks
<1>11. CASE UNCHANGED vars
  BY <1>11 DEF vars
<1> QED BY <1>1, <1>2, <1>3, <1>4, <1>5, <1>6, <1>7, <1>8, <1>9, <1>10, <1>11 DEF Next

\* Every variable keeps its type.
LEMMA TypeStep ==
    ASSUME TypeOK, FilesInv, pc' \in [Scripts -> Place], backups' \subseteq BackupFile, [Next]_vars
    PROVE  TypeOK'
<1> USE DeploymentBounds
<1> USE DEF TypeOK, Link, Scripts, Place, Step, At, Goto, Replace, links, service, restore,
    script, aux, host
<1>1. ASSUME NEW r \in Runs, Deploy(r)
      PROVE  TypeOK'
  <2>1. CASE Stage(r)
    BY <2>1 DEF Stage
  <2>2. CASE Unpack(r)
    BY <2>2 DEF Unpack
  <2>3. CASE Inspect(r)
    <3>1. displaced' \in [Scripts -> Link] /\ found' \in [Scripts -> Revisions \cup {Nothing}]
      BY <2>3 DEF Inspect
    <3> QED BY <2>3, <3>1 DEF Inspect
  <2>4. CASE Backup(r)
    BY <2>4 DEF Backup
  <2>5. CASE Checksum(r)
    BY <2>5 DEF Checksum
  <2>6. CASE Pull(r)
    BY <2>6 DEF Pull
  <2>7. CASE Refuse(r)
    BY <2>7 DEF Refuse
  <2>8. CASE Up(r)
    BY <2>8 DEF Up
  <2>9. CASE UpReady(r)
    BY <2>9 DEF UpReady
  <2>10. CASE LinkPrevious(r)
    BY <2>10 DEF LinkPrevious
  <2>11. CASE LinkCurrent(r)
    BY <2>11 DEF LinkCurrent
  <2>12. CASE Fail(r)
    BY <2>12 DEF Fail
  <2>13. CASE Restore(r)
    BY <2>13 DEF Restore
  <2>14. CASE Restored(r)
    BY <2>14 DEF Restored
  <2>15. CASE RestoreFails(r)
    BY <2>15 DEF RestoreFails
  <2>16. CASE Smoke(r)
    BY <2>16 DEF Smoke
  <2>17. CASE Consume(r)
    BY <2>17 DEF Consume
  <2> QED BY <1>1, <2>1, <2>2, <2>3, <2>4, <2>5, <2>6, <2>7, <2>8, <2>9, <2>10, <2>11, <2>12,
      <2>13, <2>14, <2>15, <2>16, <2>17 DEF Deploy
<1>2. ASSUME NEW s \in Scripts, Rollback(s)
      PROVE  TypeOK'
  <2>1. CASE ReadLinks(s)
    <3>1. goal' = goal \/ goal' = [goal EXCEPT ![s] = previous]
      BY <2>1 DEF ReadLinks
    <3>2. failed' = failed \/ failed' = [failed EXCEPT ![s] = current]
      BY <2>1 DEF ReadLinks
    <3>3. UNCHANGED <<host, displaced, copied, approved, orphans, consumed, aux>>
      BY <2>1 DEF ReadLinks
    <3>4. goal' \in [Scripts -> Link]
      BY <3>1
    <3>5. failed' \in [Scripts -> Link]
      BY <3>2
    <3> QED BY <3>3, <3>4, <3>5
  <2>2. CASE RollBack(s)
    BY <2>2 DEF RollBack
  <2>3. CASE PreviousReady(s)
    BY <2>3 DEF PreviousReady
  <2>4. CASE SwapCurrent(s)
    BY <2>4 DEF SwapCurrent
  <2>5. CASE SwapPrevious(s)
    BY <2>5 DEF SwapPrevious
  <2>6. CASE RollBackFails(s)
    BY <2>6 DEF RollBackFails
  <2> QED BY <1>2, <2>1, <2>2, <2>3, <2>4, <2>5, <2>6 DEF Rollback
<1>3. ASSUME NEW r \in Runs, Start(r)
      PROVE  TypeOK'
  BY <1>3 DEF Start
<1>4. ASSUME NEW r \in Runs, Orphan(r)
      PROVE  TypeOK'
  BY <1>4 DEF Orphan
<1>5. ASSUME NEW s \in Scripts, Die(s)
      PROVE  TypeOK'
  BY <1>5 DEF Die
<1>6. CASE Boot
  BY <1>6 DEF Boot
<1>7. CASE Intervene
  <2>1. reruns < MaxReruns /\ reruns' = reruns + 1
    BY <1>7 DEF Intervene
  <2>2. reruns' \in 0 .. MaxReruns
    BY <2>1
  <2>3. UNCHANGED <<host, script, deaths, unsure, wasReady, found>>
    BY <1>7 DEF Intervene
  <2> QED BY <2>2, <2>3
<1>8. CASE RestoreBackup
  <2>1. \A b \in backups : b.sum => b.content \in Revisions
    BY DEF FilesInv, Sound, BackupFile
  <2> QED BY <1>8, <2>1 DEF RestoreBackup
<1>9. CASE RestoreEnds
  BY <1>9 DEF RestoreEnds
<1>10. CASE RestoreBreaks
  BY <1>10 DEF RestoreBreaks
<1>11. CASE UNCHANGED vars
  BY <1>11 DEF vars
<1> QED BY <1>1, <1>2, <1>3, <1>4, <1>5, <1>6, <1>7, <1>8, <1>9, <1>10, <1>11 DEF Next

-----------------------------------------------------------------------------
(***************************************************************************)
(* How scripts move                                                        *)
(***************************************************************************)
Moved(s, from, to) == pc[s] = from /\ pc' = [pc EXCEPT ![s] = to]

\* The actions with two outcomes, as implications.
Inspected(r) ==
    /\ current = Nothing => Moved(r, "inspect", "pull")
    /\ current # Nothing => Moved(r, "inspect", "backup")
    /\ displaced' = [displaced EXCEPT ![r] = current]
    /\ found' = [found EXCEPT ![r] = db]
    /\ UNCHANGED <<head, releases, current, previous, container, ready, db, backups,
                   goal, failed, copied, approved, orphans, consumed, unsure, wasReady>>

LinksRead(s) ==
    /\ current = Nothing \/ previous = Nothing =>
          Moved(s, "read links", "closed") /\ UNCHANGED <<goal, failed>>
    /\ current # Nothing /\ previous # Nothing =>
          /\ Moved(s, "read links", "roll back")
          /\ goal' = [goal EXCEPT ![s] = previous]
          /\ failed' = [failed EXCEPT ![s] = current]
    /\ UNCHANGED <<host, displaced, copied, approved, orphans, consumed, aux>>

\* Inspect, by what the link says.
LEMMA InspectMoves ==
    ASSUME NEW r \in Runs, Inspect(r)
    PROVE  Inspected(r)
BY DEF Inspect, Step, At, Goto, Moved, host, links, service, Inspected

\* ReadLinks, by what the links say.
LEMMA ReadLinksMoves ==
    ASSUME NEW s \in Scripts, ReadLinks(s)
    PROVE  LinksRead(s)
BY DEF ReadLinks, Step, At, Goto, Moved, LinksRead

\* Smoke ends, or goes on to the rollback.
LEMMA SmokeMoves ==
    ASSUME NEW r \in Runs, Smoke(r)
    PROVE  /\ \E p \in {"done", "closed", "read links"} : Moved(r, "smoke", p)
           /\ UNCHANGED <<host, script, aux>>
BY DEF Smoke, Step, At, Goto, Moved

\* Revisions are ordered.
LEMMA Later ==
    /\ \A a, b, c \in Revisions : a >= b /\ b >= c => a >= c
    /\ \A a \in Revisions : a >= a
BY DeploymentBounds

\* The file a checksum replaces is not one that has its checksum.
LEMMA Sealed ==
    ASSUME NEW b, b.sum, NEW v
    PROVE  b # [content |-> v, sum |-> FALSE]
OBVIOUS

\* What links and scripts name stays complete and ready once.
LEMMA ReadyStep ==
    ASSUME TypeOK, PlaceInv, ReadyInv, [Next]_vars
    PROVE  ReadyInv'
<1> USE DeploymentNames
<1> USE DEF TypeOK, Link, Scripts, Step, At, Goto, Replace, links, service, restore, script, aux,
    host, UnderWay, Staging, Replacing, Trap, RollingBack, Ended, PlaceInv, ReadyInv, Vouched,
    Staged, Healthy
<1>1. ASSUME NEW r \in Runs, Deploy(r)
      PROVE  ReadyInv'
  <2>1. CASE Stage(r)
    BY <2>1 DEF Stage
  <2>2. CASE Unpack(r)
    BY <2>2 DEF Unpack
  <2>3. CASE Inspect(r)
    <3>0. Inspected(r)
      BY <2>3, InspectMoves
    <3>1. CASE current = Nothing
      BY <3>0, <3>1 DEF Moved, Inspected
    <3>2. CASE current # Nothing
      BY <3>0, <3>2 DEF Moved, Inspected
    <3> QED BY <3>1, <3>2
  <2>4. CASE Backup(r)
    BY <2>4 DEF Backup
  <2>5. CASE Checksum(r)
    BY <2>5 DEF Checksum
  <2>6. CASE Pull(r)
    BY <2>6 DEF Pull
  <2>7. CASE Refuse(r)
    BY <2>7 DEF Refuse
  <2>8. CASE Up(r)
    BY <2>8 DEF Up
  <2>9. CASE UpReady(r)
    BY <2>9 DEF UpReady
  <2>10. CASE LinkPrevious(r)
    BY <2>10 DEF LinkPrevious
  <2>11. CASE LinkCurrent(r)
    BY <2>11 DEF LinkCurrent
  <2>12. CASE Fail(r)
    BY <2>12 DEF Fail
  <2>13. CASE Restore(r)
    BY <2>13 DEF Restore
  <2>14. CASE Restored(r)
    BY <2>14 DEF Restored
  <2>15. CASE RestoreFails(r)
    BY <2>15 DEF RestoreFails
  <2>16. CASE Smoke(r)
    <3>1. PICK p \in {"done", "closed", "read links"} : Moved(r, "smoke", p)
      BY <2>16, SmokeMoves
    <3>2. UNCHANGED <<host, script, aux>>
      BY <2>16, SmokeMoves
    <3> QED BY <3>1, <3>2 DEF Moved
  <2>17. CASE Consume(r)
    BY <2>17 DEF Consume
  <2> QED BY <1>1, <2>1, <2>2, <2>3, <2>4, <2>5, <2>6, <2>7, <2>8, <2>9, <2>10, <2>11, <2>12,
      <2>13, <2>14, <2>15, <2>16, <2>17 DEF Deploy
<1>2. ASSUME NEW s \in Scripts, Rollback(s)
      PROVE  ReadyInv'
  <2>1. CASE ReadLinks(s)
    <3>0. LinksRead(s)
      BY <2>1, ReadLinksMoves
    <3>1. CASE current = Nothing \/ previous = Nothing
      <4>1. /\ pc[s] = "read links"
            /\ pc' = [pc EXCEPT ![s] = "closed"]
            /\ UNCHANGED <<goal, failed>>
            /\ UNCHANGED <<head, releases, current, previous, container, ready, db, backups,
                           displaced, copied, found, approved, orphans, consumed, unsure,
                           wasReady>>
        BY <3>0, <3>1 DEF Moved, LinksRead
      <4> QED BY <4>1
    <3>2. CASE current # Nothing /\ previous # Nothing
      <4>1. /\ pc[s] = "read links"
            /\ pc' = [pc EXCEPT ![s] = "roll back"]
            /\ goal' = [goal EXCEPT ![s] = previous]
            /\ failed' = [failed EXCEPT ![s] = current]
            /\ UNCHANGED <<head, releases, current, previous, container, ready, db, backups,
                           displaced, copied, found, approved, orphans, consumed, unsure,
                           wasReady>>
        BY <3>0, <3>2 DEF Moved, LinksRead
      <4> QED BY <3>2, <4>1
    <3> QED BY <3>1, <3>2
  <2>2. CASE RollBack(s)
    BY <2>2 DEF RollBack
  <2>3. CASE PreviousReady(s)
    BY <2>3 DEF PreviousReady
  <2>4. CASE SwapCurrent(s)
    BY <2>4 DEF SwapCurrent
  <2>5. CASE SwapPrevious(s)
    BY <2>5 DEF SwapPrevious
  <2>6. CASE RollBackFails(s)
    BY <2>6 DEF RollBackFails
  <2> QED BY <1>2, <2>1, <2>2, <2>3, <2>4, <2>5, <2>6 DEF Rollback
<1>3. ASSUME NEW r \in Runs, Start(r)
      PROVE  ReadyInv'
  BY <1>3 DEF Start
<1>4. ASSUME NEW r \in Runs, Orphan(r)
      PROVE  ReadyInv'
  BY <1>4 DEF Orphan
<1>5. ASSUME NEW s \in Scripts, Die(s)
      PROVE  ReadyInv'
  BY <1>5 DEF Die
<1>6. CASE Boot
  BY <1>6 DEF Boot
<1>7. CASE Intervene
  BY <1>7 DEF Intervene
<1>8. CASE RestoreBackup
  BY <1>8 DEF RestoreBackup
<1>9. CASE RestoreEnds
  BY <1>9 DEF RestoreEnds
<1>10. CASE RestoreBreaks
  BY <1>10 DEF RestoreBreaks
<1>11. CASE UNCHANGED vars
  BY <1>11 DEF vars
<1> QED BY <1>1, <1>2, <1>3, <1>4, <1>5, <1>6, <1>7, <1>8, <1>9, <1>10, <1>11 DEF Next

\* No link is taken away.
LEMMA NamedStep ==
    ASSUME TypeOK, PlaceInv, NamedInv, [Next]_vars
    PROVE  NamedInv'
<1> USE DeploymentNames
<1> USE DEF TypeOK, Link, Scripts, Step, At, Goto, Replace, links, service, restore, script, aux,
    host, UnderWay, Staging, Replacing, Trap, RollingBack, Ended, PlaceInv, NamedInv, Armed
<1>1. ASSUME NEW r \in Runs, Deploy(r)
      PROVE  NamedInv'
  <2>1. CASE Stage(r)
    BY <2>1 DEF Stage
  <2>2. CASE Unpack(r)
    BY <2>2 DEF Unpack
  <2>3. CASE Inspect(r)
    <3>0. Inspected(r)
      BY <2>3, InspectMoves
    <3>1. CASE current = Nothing
      BY ZenonT(40), <3>0, <3>1 DEF Moved, Inspected
    <3>2. CASE current # Nothing
      BY <3>0, <3>2 DEF Moved, Inspected
    <3> QED BY <3>1, <3>2
  <2>4. CASE Backup(r)
    BY <2>4 DEF Backup
  <2>5. CASE Checksum(r)
    BY <2>5 DEF Checksum
  <2>6. CASE Pull(r)
    BY <2>6 DEF Pull
  <2>7. CASE Refuse(r)
    BY <2>7 DEF Refuse
  <2>8. CASE Up(r)
    BY <2>8 DEF Up
  <2>9. CASE UpReady(r)
    BY <2>9 DEF UpReady
  <2>10. CASE LinkPrevious(r)
    BY <2>10 DEF LinkPrevious
  <2>11. CASE LinkCurrent(r)
    BY <2>11 DEF LinkCurrent
  <2>12. CASE Fail(r)
    BY <2>12 DEF Fail
  <2>13. CASE Restore(r)
    BY <2>13 DEF Restore
  <2>14. CASE Restored(r)
    BY <2>14 DEF Restored
  <2>15. CASE RestoreFails(r)
    BY <2>15 DEF RestoreFails
  <2>16. CASE Smoke(r)
    <3>1. PICK p \in {"done", "closed", "read links"} : Moved(r, "smoke", p)
      BY <2>16, SmokeMoves
    <3>2. UNCHANGED <<host, script, aux>>
      BY <2>16, SmokeMoves
    <3> QED BY <3>1, <3>2 DEF Moved
  <2>17. CASE Consume(r)
    BY <2>17 DEF Consume
  <2> QED BY <1>1, <2>1, <2>2, <2>3, <2>4, <2>5, <2>6, <2>7, <2>8, <2>9, <2>10, <2>11, <2>12,
      <2>13, <2>14, <2>15, <2>16, <2>17 DEF Deploy
<1>2. ASSUME NEW s \in Scripts, Rollback(s)
      PROVE  NamedInv'
  <2>1. CASE ReadLinks(s)
    <3>0. LinksRead(s)
      BY <2>1, ReadLinksMoves
    <3>1. CASE current = Nothing \/ previous = Nothing
      <4>1. /\ pc[s] = "read links"
            /\ pc' = [pc EXCEPT ![s] = "closed"]
            /\ UNCHANGED <<goal, failed>>
            /\ UNCHANGED <<head, releases, current, previous, container, ready, db, backups,
                           displaced, copied, found, approved, orphans, consumed, unsure,
                           wasReady>>
        BY <3>0, <3>1 DEF Moved, LinksRead
      <4> QED BY <4>1
    <3>2. CASE current # Nothing /\ previous # Nothing
      <4>1. /\ pc[s] = "read links"
            /\ pc' = [pc EXCEPT ![s] = "roll back"]
            /\ goal' = [goal EXCEPT ![s] = previous]
            /\ failed' = [failed EXCEPT ![s] = current]
            /\ UNCHANGED <<head, releases, current, previous, container, ready, db, backups,
                           displaced, copied, found, approved, orphans, consumed, unsure,
                           wasReady>>
        BY <3>0, <3>2 DEF Moved, LinksRead
      <4> QED BY <3>2, <4>1
    <3> QED BY <3>1, <3>2
  <2>2. CASE RollBack(s)
    BY <2>2 DEF RollBack
  <2>3. CASE PreviousReady(s)
    BY <2>3 DEF PreviousReady
  <2>4. CASE SwapCurrent(s)
    BY <2>4 DEF SwapCurrent
  <2>5. CASE SwapPrevious(s)
    BY <2>5 DEF SwapPrevious
  <2>6. CASE RollBackFails(s)
    BY <2>6 DEF RollBackFails
  <2> QED BY <1>2, <2>1, <2>2, <2>3, <2>4, <2>5, <2>6 DEF Rollback
<1>3. ASSUME NEW r \in Runs, Start(r)
      PROVE  NamedInv'
  BY <1>3 DEF Start
<1>4. ASSUME NEW r \in Runs, Orphan(r)
      PROVE  NamedInv'
  BY <1>4 DEF Orphan
<1>5. ASSUME NEW s \in Scripts, Die(s)
      PROVE  NamedInv'
  BY <1>5 DEF Die
<1>6. CASE Boot
  BY <1>6 DEF Boot
<1>7. CASE Intervene
  BY <1>7 DEF Intervene
<1>8. CASE RestoreBackup
  BY <1>8 DEF RestoreBackup
<1>9. CASE RestoreEnds
  BY <1>9 DEF RestoreEnds
<1>10. CASE RestoreBreaks
  BY <1>10 DEF RestoreBreaks
<1>11. CASE UNCHANGED vars
  BY <1>11 DEF vars
<1> QED BY <1>1, <1>2, <1>3, <1>4, <1>5, <1>6, <1>7, <1>8, <1>9, <1>10, <1>11 DEF Next

\* The database is never behind what a deployment found, nor its copy.
LEMMA SchemaStep ==
    ASSUME TypeOK, SchemaInv, [Next]_vars
    PROVE  SchemaInv'
<1> USE DeploymentNames, DeploymentBounds, FilesAssumption
<1> USE DEF TypeOK, Link, Scripts, Step, At, Goto, Replace, links, service, restore, script, aux,
    host, UnderWay, Staging, Replacing, Trap, RollingBack, Ended, SchemaInv
<1>1. ASSUME NEW r \in Runs, Deploy(r)
      PROVE  SchemaInv'
  <2>1. CASE Stage(r)
    BY <2>1 DEF Stage
  <2>2. CASE Unpack(r)
    BY <2>2 DEF Unpack
  <2>3. CASE Inspect(r)
    <3>0. Inspected(r)
      BY <2>3, InspectMoves
    <3>1. CASE current = Nothing
      BY <3>0, <3>1 DEF Moved, Inspected
    <3>2. CASE current # Nothing
      <4>1. /\ pc' = [pc EXCEPT ![r] = "backup"]
            /\ found' = [found EXCEPT ![r] = db]
            /\ UNCHANGED <<db, copied>>
        BY <3>0, <3>2 DEF Moved, Inspected
      <4> QED BY <4>1, Later
    <3> QED BY <3>1, <3>2
  <2>4. CASE Backup(r)
    BY <2>4 DEF Backup
  <2>5. CASE Checksum(r)
    BY <2>5 DEF Checksum
  <2>6. CASE Pull(r)
    BY <2>6 DEF Pull
  <2>7. CASE Refuse(r)
    BY <2>7 DEF Refuse
  <2>8. CASE Up(r)
    BY <2>8 DEF Up
  <2>9. CASE UpReady(r)
    BY <2>9 DEF UpReady
  <2>10. CASE LinkPrevious(r)
    BY <2>10 DEF LinkPrevious
  <2>11. CASE LinkCurrent(r)
    BY <2>11 DEF LinkCurrent
  <2>12. CASE Fail(r)
    BY <2>12 DEF Fail
  <2>13. CASE Restore(r)
    BY <2>13 DEF Restore
  <2>14. CASE Restored(r)
    BY <2>14 DEF Restored
  <2>15. CASE RestoreFails(r)
    BY <2>15 DEF RestoreFails
  <2>16. CASE Smoke(r)
    <3>1. PICK p \in {"done", "closed", "read links"} : Moved(r, "smoke", p)
      BY <2>16, SmokeMoves
    <3>2. UNCHANGED <<host, script, aux>>
      BY <2>16, SmokeMoves
    <3> QED BY <3>1, <3>2 DEF Moved
  <2>17. CASE Consume(r)
    BY <2>17 DEF Consume
  <2> QED BY <1>1, <2>1, <2>2, <2>3, <2>4, <2>5, <2>6, <2>7, <2>8, <2>9, <2>10, <2>11, <2>12,
      <2>13, <2>14, <2>15, <2>16, <2>17 DEF Deploy
<1>2. ASSUME NEW s \in Scripts, Rollback(s)
      PROVE  SchemaInv'
  <2>1. CASE ReadLinks(s)
    <3>0. LinksRead(s)
      BY <2>1, ReadLinksMoves
    <3>1. CASE current = Nothing \/ previous = Nothing
      <4>1. /\ pc[s] = "read links"
            /\ pc' = [pc EXCEPT ![s] = "closed"]
            /\ UNCHANGED <<goal, failed>>
            /\ UNCHANGED <<head, releases, current, previous, container, ready, db, backups,
                           displaced, copied, found, approved, orphans, consumed, unsure,
                           wasReady>>
        BY <3>0, <3>1 DEF Moved, LinksRead
      <4> QED BY <4>1
    <3>2. CASE current # Nothing /\ previous # Nothing
      <4>1. /\ pc[s] = "read links"
            /\ pc' = [pc EXCEPT ![s] = "roll back"]
            /\ goal' = [goal EXCEPT ![s] = previous]
            /\ failed' = [failed EXCEPT ![s] = current]
            /\ UNCHANGED <<head, releases, current, previous, container, ready, db, backups,
                           displaced, copied, found, approved, orphans, consumed, unsure,
                           wasReady>>
        BY <3>0, <3>2 DEF Moved, LinksRead
      <4> QED BY <3>2, <4>1
    <3> QED BY <3>1, <3>2
  <2>2. CASE RollBack(s)
    BY <2>2 DEF RollBack
  <2>3. CASE PreviousReady(s)
    BY <2>3 DEF PreviousReady
  <2>4. CASE SwapCurrent(s)
    BY <2>4 DEF SwapCurrent
  <2>5. CASE SwapPrevious(s)
    BY <2>5 DEF SwapPrevious
  <2>6. CASE RollBackFails(s)
    BY <2>6 DEF RollBackFails
  <2> QED BY <1>2, <2>1, <2>2, <2>3, <2>4, <2>5, <2>6 DEF Rollback
<1>3. ASSUME NEW r \in Runs, Start(r)
      PROVE  SchemaInv'
  BY <1>3 DEF Start
<1>4. ASSUME NEW r \in Runs, Orphan(r)
      PROVE  SchemaInv'
  BY <1>4 DEF Orphan
<1>5. ASSUME NEW s \in Scripts, Die(s)
      PROVE  SchemaInv'
  BY <1>5 DEF Die
<1>6. CASE Boot
  <2>1. /\ db \in Revisions /\ db' \in Revisions /\ db' >= db
        /\ UNCHANGED <<pc, copied, found>>
    BY <1>6 DEF Boot
  <2>2. \A r \in Runs : found[r] \in Revisions /\ db >= found[r] => db' >= found[r]
    BY <2>1, Later
  <2> QED BY <2>1, <2>2
<1>7. CASE Intervene
  BY <1>7 DEF Intervene
<1>8. CASE RestoreBackup
  BY <1>8 DEF RestoreBackup
<1>9. CASE RestoreEnds
  BY <1>9 DEF RestoreEnds
<1>10. CASE RestoreBreaks
  BY <1>10 DEF RestoreBreaks
<1>11. CASE UNCHANGED vars
  BY <1>11 DEF vars
<1> QED BY <1>1, <1>2, <1>3, <1>4, <1>5, <1>6, <1>7, <1>8, <1>9, <1>10, <1>11 DEF Next

\* The sealed backup of a deployment stays.
LEMMA BackedUpStep ==
    ASSUME TypeOK, SchemaInv, BackedUpFirst, [Next]_vars
    PROVE  BackedUpFirst'
<1> USE DeploymentNames, DeploymentBounds, FilesAssumption
<1> USE DEF TypeOK, Link, Scripts, Step, At, Goto, Replace, links, service, restore, script, aux,
    host, UnderWay, Staging, Replacing, Trap, RollingBack, Ended, SchemaInv, BackedUpFirst
<1>1. ASSUME NEW r \in Runs, Deploy(r)
      PROVE  BackedUpFirst'
  <2>1. CASE Stage(r)
    BY <2>1 DEF Stage
  <2>2. CASE Unpack(r)
    BY <2>2 DEF Unpack
  <2>3. CASE Inspect(r)
    <3>0. Inspected(r)
      BY <2>3, InspectMoves
    <3>1. CASE current = Nothing
      BY <3>0, <3>1 DEF Moved, Inspected
    <3>2. CASE current # Nothing
      BY ZenonT(40), <3>0, <3>2 DEF Moved, Inspected
    <3> QED BY <3>1, <3>2
  <2>4. CASE Backup(r)
    BY <2>4 DEF Backup
  <2>5. CASE Checksum(r)
    <3>1. /\ pc[r] = "checksum" /\ pc' = [pc EXCEPT ![r] = "pull"]
          /\ backups' = (backups \ {[content |-> copied[r], sum |-> FALSE]})
                           \cup {[content |-> copied[r], sum |-> TRUE]}
          /\ UNCHANGED <<displaced, found>>
      BY <2>5 DEF Checksum
    <3>2. ASSUME NEW b \in backups, b.sum
          PROVE  b \in backups'
      BY <3>1, <3>2, Sealed
    <3>3. /\ copied[r] \in Revisions /\ copied[r] # Torn /\ copied[r] >= found[r]
      BY <3>1
    <3>4. \E b \in backups' : b.sum /\ b.content # Torn /\ b.content >= found[r]
      <4>1. [content |-> copied[r], sum |-> TRUE] \in backups'
        BY <3>1
      <4> QED BY <4>1, <3>3
    <3>5. ASSUME NEW q \in Runs, q # r,
                 pc'[q] \in {"pull", "smoke"} \cup Replacing \cup Trap, displaced'[q] # Nothing
          PROVE  \E b \in backups' : b.sum /\ b.content # Torn /\ b.content >= found'[q]
      <4>1. \E b \in backups : b.sum /\ b.content # Torn /\ b.content >= found[q]
        BY <3>1, <3>5
      <4> QED BY <4>1, <3>1, <3>2
    <3> QED BY <3>1, <3>4, <3>5
  <2>6. CASE Pull(r)
    BY <2>6 DEF Pull
  <2>7. CASE Refuse(r)
    BY <2>7 DEF Refuse
  <2>8. CASE Up(r)
    BY <2>8 DEF Up
  <2>9. CASE UpReady(r)
    BY <2>9 DEF UpReady
  <2>10. CASE LinkPrevious(r)
    BY <2>10 DEF LinkPrevious
  <2>11. CASE LinkCurrent(r)
    BY <2>11 DEF LinkCurrent
  <2>12. CASE Fail(r)
    BY <2>12 DEF Fail
  <2>13. CASE Restore(r)
    BY <2>13 DEF Restore
  <2>14. CASE Restored(r)
    BY <2>14 DEF Restored
  <2>15. CASE RestoreFails(r)
    BY <2>15 DEF RestoreFails
  <2>16. CASE Smoke(r)
    <3>1. PICK p \in {"done", "closed", "read links"} : Moved(r, "smoke", p)
      BY <2>16, SmokeMoves
    <3>2. UNCHANGED <<host, script, aux>>
      BY <2>16, SmokeMoves
    <3> QED BY <3>1, <3>2 DEF Moved
  <2>17. CASE Consume(r)
    BY <2>17 DEF Consume
  <2> QED BY <1>1, <2>1, <2>2, <2>3, <2>4, <2>5, <2>6, <2>7, <2>8, <2>9, <2>10, <2>11, <2>12,
      <2>13, <2>14, <2>15, <2>16, <2>17 DEF Deploy
<1>2. ASSUME NEW s \in Scripts, Rollback(s)
      PROVE  BackedUpFirst'
  <2>1. CASE ReadLinks(s)
    <3>0. LinksRead(s)
      BY <2>1, ReadLinksMoves
    <3>1. CASE current = Nothing \/ previous = Nothing
      <4>1. /\ pc[s] = "read links"
            /\ pc' = [pc EXCEPT ![s] = "closed"]
            /\ UNCHANGED <<goal, failed>>
            /\ UNCHANGED <<head, releases, current, previous, container, ready, db, backups,
                           displaced, copied, found, approved, orphans, consumed, unsure,
                           wasReady>>
        BY <3>0, <3>1 DEF Moved, LinksRead
      <4> QED BY <4>1
    <3>2. CASE current # Nothing /\ previous # Nothing
      <4>1. /\ pc[s] = "read links"
            /\ pc' = [pc EXCEPT ![s] = "roll back"]
            /\ goal' = [goal EXCEPT ![s] = previous]
            /\ failed' = [failed EXCEPT ![s] = current]
            /\ UNCHANGED <<head, releases, current, previous, container, ready, db, backups,
                           displaced, copied, found, approved, orphans, consumed, unsure,
                           wasReady>>
        BY <3>0, <3>2 DEF Moved, LinksRead
      <4> QED BY <3>2, <4>1
    <3> QED BY <3>1, <3>2
  <2>2. CASE RollBack(s)
    BY <2>2 DEF RollBack
  <2>3. CASE PreviousReady(s)
    BY <2>3 DEF PreviousReady
  <2>4. CASE SwapCurrent(s)
    BY <2>4 DEF SwapCurrent
  <2>5. CASE SwapPrevious(s)
    BY <2>5 DEF SwapPrevious
  <2>6. CASE RollBackFails(s)
    BY <2>6 DEF RollBackFails
  <2> QED BY <1>2, <2>1, <2>2, <2>3, <2>4, <2>5, <2>6 DEF Rollback
<1>3. ASSUME NEW r \in Runs, Start(r)
      PROVE  BackedUpFirst'
  BY <1>3 DEF Start
<1>4. ASSUME NEW r \in Runs, Orphan(r)
      PROVE  BackedUpFirst'
  BY <1>4 DEF Orphan
<1>5. ASSUME NEW s \in Scripts, Die(s)
      PROVE  BackedUpFirst'
  BY <1>5 DEF Die
<1>6. CASE Boot
  BY <1>6 DEF Boot
<1>7. CASE Intervene
  BY <1>7 DEF Intervene
<1>8. CASE RestoreBackup
  BY <1>8 DEF RestoreBackup
<1>9. CASE RestoreEnds
  BY <1>9 DEF RestoreEnds
<1>10. CASE RestoreBreaks
  BY <1>10 DEF RestoreBreaks
<1>11. CASE UNCHANGED vars
  BY <1>11 DEF vars
<1> QED BY <1>1, <1>2, <1>3, <1>4, <1>5, <1>6, <1>7, <1>8, <1>9, <1>10, <1>11 DEF Next

\* A script starts only when the others have ended or lost their workflow.
LEMMA SoloStep ==
    ASSUME TypeOK, SoloInv, [Next]_vars
    PROVE  SoloInv'
<1> USE DeploymentNames
<1> USE DEF TypeOK, Link, Scripts, Step, At, Goto, Replace, links, service, restore, script, aux,
    host, UnderWay, Staging, Replacing, Trap, RollingBack, Ended, SoloInv, Quiet
<1>1. ASSUME NEW r \in Runs, Deploy(r)
      PROVE  SoloInv'
  <2>1. CASE Stage(r)
    BY <2>1 DEF Stage
  <2>2. CASE Unpack(r)
    BY <2>2 DEF Unpack
  <2>3. CASE Inspect(r)
    <3>0. Inspected(r)
      BY <2>3, InspectMoves
    <3>1. CASE current = Nothing
      BY ZenonT(40), <3>0, <3>1 DEF Moved, Inspected
    <3>2. CASE current # Nothing
      BY ZenonT(40), <3>0, <3>2 DEF Moved, Inspected
    <3> QED BY <3>1, <3>2
  <2>4. CASE Backup(r)
    BY <2>4 DEF Backup
  <2>5. CASE Checksum(r)
    BY <2>5 DEF Checksum
  <2>6. CASE Pull(r)
    BY <2>6 DEF Pull
  <2>7. CASE Refuse(r)
    BY <2>7 DEF Refuse
  <2>8. CASE Up(r)
    BY <2>8 DEF Up
  <2>9. CASE UpReady(r)
    BY <2>9 DEF UpReady
  <2>10. CASE LinkPrevious(r)
    BY <2>10 DEF LinkPrevious
  <2>11. CASE LinkCurrent(r)
    BY <2>11 DEF LinkCurrent
  <2>12. CASE Fail(r)
    BY <2>12 DEF Fail
  <2>13. CASE Restore(r)
    BY <2>13 DEF Restore
  <2>14. CASE Restored(r)
    BY <2>14 DEF Restored
  <2>15. CASE RestoreFails(r)
    BY <2>15 DEF RestoreFails
  <2>16. CASE Smoke(r)
    <3>1. PICK p \in {"done", "closed", "read links"} : Moved(r, "smoke", p)
      BY <2>16, SmokeMoves
    <3>2. UNCHANGED <<host, script, aux>>
      BY <2>16, SmokeMoves
    <3> QED BY <3>1, <3>2 DEF Moved
  <2>17. CASE Consume(r)
    BY <2>17 DEF Consume
  <2> QED BY <1>1, <2>1, <2>2, <2>3, <2>4, <2>5, <2>6, <2>7, <2>8, <2>9, <2>10, <2>11, <2>12,
      <2>13, <2>14, <2>15, <2>16, <2>17 DEF Deploy
<1>2. ASSUME NEW s \in Scripts, Rollback(s)
      PROVE  SoloInv'
  <2>1. CASE ReadLinks(s)
    <3>0. LinksRead(s)
      BY <2>1, ReadLinksMoves
    <3>1. CASE current = Nothing \/ previous = Nothing
      <4>1. /\ pc[s] = "read links"
            /\ pc' = [pc EXCEPT ![s] = "closed"]
            /\ UNCHANGED <<goal, failed>>
            /\ UNCHANGED <<head, releases, current, previous, container, ready, db, backups,
                           displaced, copied, found, approved, orphans, consumed, unsure,
                           wasReady>>
        BY <3>0, <3>1 DEF Moved, LinksRead
      <4> QED BY <4>1
    <3>2. CASE current # Nothing /\ previous # Nothing
      <4>1. /\ pc[s] = "read links"
            /\ pc' = [pc EXCEPT ![s] = "roll back"]
            /\ goal' = [goal EXCEPT ![s] = previous]
            /\ failed' = [failed EXCEPT ![s] = current]
            /\ UNCHANGED <<head, releases, current, previous, container, ready, db, backups,
                           displaced, copied, found, approved, orphans, consumed, unsure,
                           wasReady>>
        BY <3>0, <3>2 DEF Moved, LinksRead
      <4> QED BY <3>2, <4>1
    <3> QED BY <3>1, <3>2
  <2>2. CASE RollBack(s)
    BY <2>2 DEF RollBack
  <2>3. CASE PreviousReady(s)
    BY <2>3 DEF PreviousReady
  <2>4. CASE SwapCurrent(s)
    BY <2>4 DEF SwapCurrent
  <2>5. CASE SwapPrevious(s)
    BY <2>5 DEF SwapPrevious
  <2>6. CASE RollBackFails(s)
    BY <2>6 DEF RollBackFails
  <2> QED BY <1>2, <2>1, <2>2, <2>3, <2>4, <2>5, <2>6 DEF Rollback
<1>3. ASSUME NEW r \in Runs, Start(r)
      PROVE  SoloInv'
  BY <1>3 DEF Start
<1>4. ASSUME NEW r \in Runs, Orphan(r)
      PROVE  SoloInv'
  BY <1>4 DEF Orphan
<1>5. ASSUME NEW s \in Scripts, Die(s)
      PROVE  SoloInv'
  BY <1>5 DEF Die
<1>6. CASE Boot
  BY <1>6 DEF Boot
<1>7. CASE Intervene
  BY <1>7 DEF Intervene
<1>8. CASE RestoreBackup
  BY <1>8 DEF RestoreBackup
<1>9. CASE RestoreEnds
  BY <1>9 DEF RestoreEnds
<1>10. CASE RestoreBreaks
  BY <1>10 DEF RestoreBreaks
<1>11. CASE UNCHANGED vars
  BY <1>11 DEF vars
<1> QED BY <1>1, <1>2, <1>3, <1>4, <1>5, <1>6, <1>7, <1>8, <1>9, <1>10, <1>11 DEF Next

-----------------------------------------------------------------------------
(***************************************************************************)
(* What a script that is alone knows                                       *)
(***************************************************************************)
\* A command is of a script that is under way, and of no other.
OnlyMoves(s) ==
    /\ pc[s] \in UnderWay
    /\ \A t \in Scripts \ {s} : pc'[t] = pc[t]
    /\ orphans' = orphans

\* A deployment moves alone.
LEMMA AloneDeploys ==
    ASSUME TypeOK, NEW r \in Runs, Deploy(r)
    PROVE  OnlyMoves(r)
<1> USE DeploymentNames
<1> USE DEF TypeOK, Link, Scripts, OnlyMoves, Step, At, Goto, Replace, links, service, restore,
    script, aux, host, UnderWay, Staging, Replacing, Trap, RollingBack, Ended
<1>1. CASE Stage(r)
  BY <1>1 DEF Stage
<1>2. CASE Unpack(r)
  BY <1>2 DEF Unpack
<1>3. CASE Inspect(r)
  <2>0. Inspected(r)
    BY <1>3, InspectMoves
  <2>1. CASE current = Nothing
    BY <2>0, <2>1 DEF Moved, Inspected
  <2>2. CASE current # Nothing
    BY <2>0, <2>2 DEF Moved, Inspected
  <2> QED BY <2>1, <2>2
<1>4. CASE Backup(r)
  BY <1>4 DEF Backup
<1>5. CASE Checksum(r)
  BY <1>5 DEF Checksum
<1>6. CASE Pull(r)
  BY <1>6 DEF Pull
<1>7. CASE Refuse(r)
  BY <1>7 DEF Refuse
<1>8. CASE Up(r)
  BY <1>8 DEF Up
<1>9. CASE UpReady(r)
  BY <1>9 DEF UpReady
<1>10. CASE LinkPrevious(r)
  BY <1>10 DEF LinkPrevious
<1>11. CASE LinkCurrent(r)
  BY <1>11 DEF LinkCurrent
<1>12. CASE Fail(r)
  BY <1>12 DEF Fail
<1>13. CASE Restore(r)
  BY <1>13 DEF Restore
<1>14. CASE Restored(r)
  BY <1>14 DEF Restored
<1>15. CASE RestoreFails(r)
  BY <1>15 DEF RestoreFails
<1>16. CASE Smoke(r)
  <2>1. PICK p \in {"done", "closed", "read links"} : Moved(r, "smoke", p)
    BY <1>16, SmokeMoves
  <2>2. UNCHANGED <<host, script, aux>>
    BY <1>16, SmokeMoves
  <2> QED BY <2>1, <2>2 DEF Moved
<1>17. CASE Consume(r)
  BY <1>17 DEF Consume
<1> QED BY <1>1, <1>2, <1>3, <1>4, <1>5, <1>6, <1>7, <1>8, <1>9, <1>10, <1>11, <1>12, <1>13,
    <1>14, <1>15, <1>16, <1>17 DEF Deploy

\* A rollback moves alone.
LEMMA AloneRollsBack ==
    ASSUME TypeOK, NEW s \in Scripts, Rollback(s)
    PROVE  OnlyMoves(s)
<1> USE DeploymentNames
<1> USE DEF TypeOK, Link, Scripts, OnlyMoves, Step, At, Goto, Replace, links, service, restore,
    script, aux, host, UnderWay, Staging, Replacing, Trap, RollingBack, Ended
<1>1. CASE ReadLinks(s)
  <2>0. LinksRead(s)
    BY <1>1, ReadLinksMoves
  <2>1. CASE current = Nothing \/ previous = Nothing
    <3>1. /\ pc[s] = "read links"
          /\ pc' = [pc EXCEPT ![s] = "closed"]
          /\ UNCHANGED <<goal, failed>>
          /\ UNCHANGED <<head, releases, current, previous, container, ready, db, backups,
                         displaced, copied, found, approved, orphans, consumed, unsure,
                         wasReady>>
      BY <2>0, <2>1 DEF Moved, LinksRead
    <3> QED BY <3>1
  <2>2. CASE current # Nothing /\ previous # Nothing
    <3>1. /\ pc[s] = "read links"
          /\ pc' = [pc EXCEPT ![s] = "roll back"]
          /\ goal' = [goal EXCEPT ![s] = previous]
          /\ failed' = [failed EXCEPT ![s] = current]
          /\ UNCHANGED <<head, releases, current, previous, container, ready, db, backups,
                         displaced, copied, found, approved, orphans, consumed, unsure,
                         wasReady>>
      BY <2>0, <2>2 DEF Moved, LinksRead
    <3> QED BY <2>2, <3>1
  <2> QED BY <2>1, <2>2
<1>2. CASE RollBack(s)
  BY <1>2 DEF RollBack
<1>3. CASE PreviousReady(s)
  BY <1>3 DEF PreviousReady
<1>4. CASE SwapCurrent(s)
  BY <1>4 DEF SwapCurrent
<1>5. CASE SwapPrevious(s)
  BY <1>5 DEF SwapPrevious
<1>6. CASE RollBackFails(s)
  BY <1>6 DEF RollBackFails
<1> QED BY <1>1, <1>2, <1>3, <1>4, <1>5, <1>6 DEF Rollback

\* A script that dies does too.
LEMMA AloneDies ==
    ASSUME TypeOK, NEW s \in Scripts, Die(s)
    PROVE  OnlyMoves(s)
BY DEF Die, TypeOK, Scripts, OnlyMoves, Step, At, Goto, Replace, links, service, restore, script,
   aux, host

\* When no workflow is gone, a script under way is the only one, after its step too.
LEMMA OthersRest ==
    ASSUME SoloInv, orphans = {}, NEW s \in Scripts, OnlyMoves(s)
    PROVE  \A t \in Scripts \ {s} : pc[t] \notin UnderWay /\ pc'[t] \notin UnderWay
BY DEF SoloInv, OnlyMoves

\* A script that is not under way knows nothing, and is not between containers and link.
LEMMA AtRest ==
    /\ \A r \in Runs : pc'[r] \notin UnderWay => LinksOf(r)'
    /\ \A s \in Scripts : pc'[s] \notin UnderWay => ServiceOf(s)'
    /\ \A s \in Scripts : pc[s] \notin UnderWay => ~Between(s)
BY DEF LinksOf, ServiceOf, Between, Displacing, Replaced, Switched, UnderWay, Staging, Replacing,
   Trap, RollingBack, Ended

\* The links as a deployment, and its rollback, knows them.
LEMMA LinksDeploys ==
    ASSUME TypeOK, PlaceInv, NamedInv, LinksInv, orphans = {}, NEW r \in Runs, Deploy(r)
    PROVE  LinksOf(r)'
<1> USE DeploymentNames
<1> USE DEF TypeOK, Link, Scripts, Place, Displacing, Step, At, Goto, Replace, links, service,
    restore, script, aux, host, UnderWay, Staging, Replacing, Trap, RollingBack, Ended, PlaceInv,
    NamedInv, LinksInv, LinksOf, Armed
<1>1. CASE Stage(r)
  BY <1>1 DEF Stage
<1>2. CASE Unpack(r)
  BY <1>2 DEF Unpack
<1>3. CASE Inspect(r)
  <2>0. Inspected(r)
    BY <1>3, InspectMoves
  <2>1. CASE current = Nothing
    BY ZenonT(40), <2>0, <2>1 DEF Moved, Inspected
  <2>2. CASE current # Nothing
    BY ZenonT(40), <2>0, <2>2 DEF Moved, Inspected
  <2> QED BY <2>1, <2>2
<1>4. CASE Backup(r)
  BY <1>4 DEF Backup
<1>5. CASE Checksum(r)
  BY <1>5 DEF Checksum
<1>6. CASE Pull(r)
  BY <1>6 DEF Pull
<1>7. CASE Refuse(r)
  BY <1>7 DEF Refuse
<1>8. CASE Up(r)
  BY <1>8 DEF Up
<1>9. CASE UpReady(r)
  BY <1>9 DEF UpReady
<1>10. CASE LinkPrevious(r)
  BY <1>10 DEF LinkPrevious
<1>11. CASE LinkCurrent(r)
  BY <1>11 DEF LinkCurrent
<1>12. CASE Fail(r)
  BY <1>12 DEF Fail
<1>13. CASE Restore(r)
  BY <1>13 DEF Restore
<1>14. CASE Restored(r)
  BY <1>14 DEF Restored
<1>15. CASE RestoreFails(r)
  BY <1>15 DEF RestoreFails
<1>16. CASE Smoke(r)
  <2>1. PICK p \in {"done", "closed", "read links"} : Moved(r, "smoke", p)
    BY <1>16, SmokeMoves
  <2>2. UNCHANGED <<host, script, aux>>
    BY <1>16, SmokeMoves
  <2> QED BY <2>1, <2>2 DEF Moved
<1>17. CASE Consume(r)
  BY <1>17 DEF Consume
<1> QED BY <1>1, <1>2, <1>3, <1>4, <1>5, <1>6, <1>7, <1>8, <1>9, <1>10, <1>11, <1>12, <1>13,
    <1>14, <1>15, <1>16, <1>17 DEF Deploy

\* The same of a rollback.
LEMMA LinksRollsBack ==
    ASSUME TypeOK, PlaceInv, NamedInv, LinksInv, orphans = {}, NEW s \in Scripts, Rollback(s)
    PROVE  s \in Runs => LinksOf(s)'
<1> USE DeploymentNames
<1> USE DEF TypeOK, Link, Scripts, Place, Displacing, Step, At, Goto, Replace, links, service,
    restore, script, aux, host, UnderWay, Staging, Replacing, Trap, RollingBack, Ended, PlaceInv,
    NamedInv, LinksInv, LinksOf, Armed
<1>1. CASE ReadLinks(s)
  <2>0. LinksRead(s)
    BY <1>1, ReadLinksMoves
  <2>1. CASE current = Nothing \/ previous = Nothing
    <3>1. /\ pc[s] = "read links"
          /\ pc' = [pc EXCEPT ![s] = "closed"]
          /\ UNCHANGED <<goal, failed>>
          /\ UNCHANGED <<head, releases, current, previous, container, ready, db, backups,
                         displaced, copied, found, approved, orphans, consumed, unsure,
                         wasReady>>
      BY <2>0, <2>1 DEF Moved, LinksRead
    <3> QED BY <3>1
  <2>2. CASE current # Nothing /\ previous # Nothing
    <3>1. /\ pc[s] = "read links"
          /\ pc' = [pc EXCEPT ![s] = "roll back"]
          /\ goal' = [goal EXCEPT ![s] = previous]
          /\ failed' = [failed EXCEPT ![s] = current]
          /\ UNCHANGED <<head, releases, current, previous, container, ready, db, backups,
                         displaced, copied, found, approved, orphans, consumed, unsure,
                         wasReady>>
      BY <2>0, <2>2 DEF Moved, LinksRead
    <3> QED BY <2>2, <3>1
  <2> QED BY <2>1, <2>2
<1>2. CASE RollBack(s)
  BY <1>2 DEF RollBack
<1>3. CASE PreviousReady(s)
  BY <1>3 DEF PreviousReady
<1>4. CASE SwapCurrent(s)
  BY <1>4 DEF SwapCurrent
<1>5. CASE SwapPrevious(s)
  BY <1>5 DEF SwapPrevious
<1>6. CASE RollBackFails(s)
  BY <1>6 DEF RollBackFails
<1> QED BY <1>1, <1>2, <1>3, <1>4, <1>5, <1>6 DEF Rollback

\* A script that dies knows nothing.
LEMMA LinksDies ==
    ASSUME TypeOK, PlaceInv, NamedInv, LinksInv, orphans = {}, NEW s \in Scripts, Die(s)
    PROVE  s \in Runs => LinksOf(s)'
BY DEF Die, TypeOK, LinksOf, Displacing, Goto, UnderWay, Staging, Replacing, Trap, RollingBack,
   Ended

\* The containers are the current release's, if one is sure of them.
Sure(s) == unsure \/ container = current \/ Between(s)

\* The containers as a deployment knows them.
LEMMA ServiceDeploys ==
    ASSUME TypeOK, NEW r \in Runs, Deploy(r),
           LinksOf(r), ServiceOf(r), Sure(r)
    PROVE  ServiceOf(r)' /\ Sure(r)'
<1> USE DeploymentNames
<1> USE DEF TypeOK, Link, Scripts, Place, Displacing, Step, At, Goto, Replace, links, service,
    restore, script, aux, host, UnderWay, Staging, Replacing, Trap, RollingBack, Ended, LinksOf,
    ServiceOf, Sure, Between, Replaced, Switched, Healthy
<1>1. CASE Stage(r)
  BY <1>1 DEF Stage
<1>2. CASE Unpack(r)
  BY <1>2 DEF Unpack
<1>3. CASE Inspect(r)
  <2>0. Inspected(r)
    BY <1>3, InspectMoves
  <2>1. CASE current = Nothing
    BY ZenonT(40), <2>0, <2>1 DEF Moved, Inspected
  <2>2. CASE current # Nothing
    BY <2>0, <2>2 DEF Moved, Inspected
  <2> QED BY <2>1, <2>2
<1>4. CASE Backup(r)
  BY <1>4 DEF Backup
<1>5. CASE Checksum(r)
  BY <1>5 DEF Checksum
<1>6. CASE Pull(r)
  BY <1>6 DEF Pull
<1>7. CASE Refuse(r)
  BY <1>7 DEF Refuse
<1>8. CASE Up(r)
  BY <1>8 DEF Up
<1>9. CASE UpReady(r)
  BY <1>9 DEF UpReady
<1>10. CASE LinkPrevious(r)
  BY <1>10 DEF LinkPrevious
<1>11. CASE LinkCurrent(r)
  BY <1>11 DEF LinkCurrent
<1>12. CASE Fail(r)
  BY <1>12 DEF Fail
<1>13. CASE Restore(r)
  BY <1>13 DEF Restore
<1>14. CASE Restored(r)
  BY <1>14 DEF Restored
<1>15. CASE RestoreFails(r)
  BY <1>15 DEF RestoreFails
<1>16. CASE Smoke(r)
  <2>1. PICK p \in {"done", "closed", "read links"} : Moved(r, "smoke", p)
    BY <1>16, SmokeMoves
  <2>2. UNCHANGED <<host, script, aux>>
    BY <1>16, SmokeMoves
  <2> QED BY <2>1, <2>2 DEF Moved
<1>17. CASE Consume(r)
  BY <1>17 DEF Consume
<1> QED BY <1>1, <1>2, <1>3, <1>4, <1>5, <1>6, <1>7, <1>8, <1>9, <1>10, <1>11, <1>12, <1>13,
    <1>14, <1>15, <1>16, <1>17 DEF Deploy

\* The same of a rollback.
LEMMA ServiceRollsBack ==
    ASSUME TypeOK, NEW s \in Scripts, Rollback(s),
           s \in Runs => LinksOf(s), ServiceOf(s), Sure(s)
    PROVE  ServiceOf(s)' /\ Sure(s)'
<1> USE DeploymentNames
<1> USE DEF TypeOK, Link, Scripts, Place, Displacing, Step, At, Goto, Replace, links, service,
    restore, script, aux, host, UnderWay, Staging, Replacing, Trap, RollingBack, Ended, LinksOf,
    ServiceOf, Sure, Between, Replaced, Switched, Healthy
<1>1. CASE ReadLinks(s)
  <2>0. LinksRead(s)
    BY <1>1, ReadLinksMoves
  <2>1. CASE current = Nothing \/ previous = Nothing
    <3>1. /\ pc[s] = "read links"
          /\ pc' = [pc EXCEPT ![s] = "closed"]
          /\ UNCHANGED <<goal, failed>>
          /\ UNCHANGED <<head, releases, current, previous, container, ready, db, backups,
                         displaced, copied, found, approved, orphans, consumed, unsure,
                         wasReady>>
      BY <2>0, <2>1 DEF Moved, LinksRead
    <3> QED BY <3>1
  <2>2. CASE current # Nothing /\ previous # Nothing
    <3>1. /\ pc[s] = "read links"
          /\ pc' = [pc EXCEPT ![s] = "roll back"]
          /\ goal' = [goal EXCEPT ![s] = previous]
          /\ failed' = [failed EXCEPT ![s] = current]
          /\ UNCHANGED <<head, releases, current, previous, container, ready, db, backups,
                         displaced, copied, found, approved, orphans, consumed, unsure,
                         wasReady>>
      BY <2>0, <2>2 DEF Moved, LinksRead
    <3> QED BY <2>2, <3>1
  <2> QED BY <2>1, <2>2
<1>2. CASE RollBack(s)
  BY <1>2 DEF RollBack
<1>3. CASE PreviousReady(s)
  BY <1>3 DEF PreviousReady
<1>4. CASE SwapCurrent(s)
  BY <1>4 DEF SwapCurrent
<1>5. CASE SwapPrevious(s)
  BY <1>5 DEF SwapPrevious
<1>6. CASE RollBackFails(s)
  BY <1>6 DEF RollBackFails
<1> QED BY <1>1, <1>2, <1>3, <1>4, <1>5, <1>6 DEF Rollback

\* Nobody is sure of the containers of a script that dies while it replaces them.
LEMMA ServiceDies ==
    ASSUME TypeOK, NEW s \in Scripts, Die(s),
           s \in Runs => LinksOf(s), ServiceOf(s), Sure(s)
    PROVE  ServiceOf(s)' /\ Sure(s)'
BY DEF Die, TypeOK, ServiceOf, Sure, Between, Replaced, Switched, Goto, At, Scripts, service,
   links, script, UnderWay, Staging, Replacing, Trap, RollingBack, Ended

\* The links stay as a deployment that is alone knows them.
LEMMA LinksStep ==
    ASSUME TypeOK, PlaceInv, NamedInv, SoloInv, LinksInv, [Next]_vars
    PROVE  LinksInv'
<1> SUFFICES ASSUME orphans' = {}, NEW r \in Runs
             PROVE  LinksOf(r)'
  BY DEF LinksInv
<1>1. ASSUME NEW s \in Scripts, OnlyMoves(s), orphans = {} => (s \in Runs => LinksOf(s)')
      PROVE  LinksOf(r)'
  <2>1. orphans = {}
    BY <1>1 DEF OnlyMoves
  <2>2. CASE r = s
    BY <1>1, <2>1, <2>2
  <2>3. CASE r # s
    BY <1>1, <2>1, <2>3, OthersRest, AtRest DEF Scripts
  <2> QED BY <2>2, <2>3
<1>2. ASSUME NEW q \in Runs, Deploy(q)
      PROVE  LinksOf(r)'
  BY <1>1, <1>2, AloneDeploys, LinksDeploys DEF Scripts
<1>3. ASSUME NEW s \in Scripts, Rollback(s)
      PROVE  LinksOf(r)'
  BY <1>1, <1>3, AloneRollsBack, LinksRollsBack
<1>4. ASSUME NEW s \in Scripts, Die(s)
      PROVE  LinksOf(r)'
  BY <1>1, <1>4, AloneDies, LinksDies
<1>5. ASSUME NEW q \in Runs, Start(q)
      PROVE  LinksOf(r)'
  BY <1>5, DeploymentNames DEF Start, Quiet, Goto, TypeOK, Scripts, LinksOf, Displacing, host,
     links,
     UnderWay, Staging, Replacing, Trap, RollingBack
<1>6. CASE Intervene
  BY <1>6, DeploymentNames DEF Intervene, LinksInv, LinksOf, Goto, TypeOK, Scripts, host, links,
     script
<1>7. CASE UNCHANGED <<pc, current, previous, displaced, goal, failed, orphans, consumed>>
  BY <1>7 DEF LinksInv, LinksOf
<1>8. CASE Boot \/ RestoreBackup \/ RestoreEnds \/ RestoreBreaks \/ UNCHANGED vars
  BY <1>7, <1>8 DEF Boot, RestoreBackup, RestoreEnds, RestoreBreaks, links, script, vars
<1>9. ASSUME NEW q \in Runs, Orphan(q)
      PROVE  FALSE
  BY <1>9 DEF Orphan
<1> QED BY <1>2, <1>3, <1>4, <1>5, <1>6, <1>8, <1>9 DEF Next

\* The containers stay as a script that is alone knows them.
LEMMA ServiceStep ==
    ASSUME TypeOK, SoloInv, LinksInv, ServiceInv, [Next]_vars
    PROVE  ServiceInv'
<1> DEFINE Known == unsure \/ container = current \/ \E s \in Scripts : Between(s)
<1> SUFFICES ASSUME orphans' = {}
             PROVE  (\A s \in Scripts : ServiceOf(s)') /\ Known'
  BY DEF ServiceInv
<1>1. ASSUME NEW s \in Scripts, OnlyMoves(s),
             orphans = {}, (s \in Runs => LinksOf(s)) /\ ServiceOf(s) /\ Sure(s)
                              => ServiceOf(s)' /\ Sure(s)'
      PROVE  (\A t \in Scripts : ServiceOf(t)') /\ Known'
  <2>1. \A t \in Scripts \ {s} : pc[t] \notin UnderWay /\ pc'[t] \notin UnderWay
    BY <1>1, OthersRest
  <2>2. /\ s \in Runs => LinksOf(s)
        /\ ServiceOf(s)
        /\ unsure \/ container = current \/ \E t \in Scripts : Between(t)
    BY <1>1 DEF LinksInv, ServiceInv
  <2>3. Sure(s)
    BY <2>1, <2>2, AtRest DEF Sure
  <2>4. ServiceOf(s)' /\ Sure(s)'
    BY <1>1, <2>2, <2>3
  <2>5. \A t \in Scripts : ServiceOf(t)'
    BY <2>1, <2>4, AtRest
  <2> QED BY <2>4, <2>5 DEF Sure
<1>2. ASSUME NEW q \in Runs, Deploy(q)
      PROVE  (\A t \in Scripts : ServiceOf(t)') /\ Known'
  <2>1. q \in Scripts /\ OnlyMoves(q)
    BY <1>2, AloneDeploys DEF Scripts
  <2>2. orphans = {}
    BY <2>1 DEF OnlyMoves
  <2>3. (q \in Runs => LinksOf(q)) /\ ServiceOf(q) /\ Sure(q) => ServiceOf(q)' /\ Sure(q)'
    BY <1>2, ServiceDeploys
  <2> HIDE DEF Known
  <2> QED BY <1>1, <2>1, <2>2, <2>3
<1>3. ASSUME NEW s \in Scripts, Rollback(s)
      PROVE  (\A t \in Scripts : ServiceOf(t)') /\ Known'
  <2>1. OnlyMoves(s)
    BY <1>3, AloneRollsBack
  <2>2. orphans = {}
    BY <2>1 DEF OnlyMoves
  <2>3. (s \in Runs => LinksOf(s)) /\ ServiceOf(s) /\ Sure(s) => ServiceOf(s)' /\ Sure(s)'
    BY <1>3, ServiceRollsBack
  <2> HIDE DEF Known
  <2> QED BY <1>1, <2>1, <2>2, <2>3
<1>4. ASSUME NEW s \in Scripts, Die(s)
      PROVE  (\A t \in Scripts : ServiceOf(t)') /\ Known'
  <2>1. OnlyMoves(s)
    BY <1>4, AloneDies
  <2>2. orphans = {}
    BY <2>1 DEF OnlyMoves
  <2>3. (s \in Runs => LinksOf(s)) /\ ServiceOf(s) /\ Sure(s) => ServiceOf(s)' /\ Sure(s)'
    BY <1>4, ServiceDies
  <2> HIDE DEF Known
  <2> QED BY <1>1, <2>1, <2>2, <2>3
<1>5. ASSUME UNCHANGED <<container, current, displaced, goal, unsure, orphans>>,
             \A t \in Scripts : pc'[t] # pc[t] =>
                pc[t] \notin UnderWay /\ pc'[t] \in {"stage", "read links"}
      PROVE  (\A t \in Scripts : ServiceOf(t)') /\ Known'
  <2>1. /\ \A t \in Scripts : ServiceOf(t)
        /\ Known
    BY <1>5 DEF ServiceInv
  <2>2. \A t \in Scripts : ServiceOf(t)'
    BY <1>5, <2>1 DEF ServiceOf, Replaced, Switched, Trap
  <2>3. \A t \in Scripts : Between(t) => Between(t)'
    BY <1>5, AtRest DEF Between
  <2> QED BY <1>5, <2>1, <2>2, <2>3
<1>6. ASSUME NEW q \in Runs, Start(q)
      PROVE  (\A t \in Scripts : ServiceOf(t)') /\ Known'
  <2>1. orphans = {} /\ \A t \in Scripts : pc[t] \notin UnderWay
    BY <1>6 DEF Start, Quiet
  <2>2. \A t \in Scripts : pc'[t] # pc[t] => pc[t] \notin UnderWay /\ pc'[t] = "stage"
    BY <1>6, <2>1 DEF Start, Goto, TypeOK
  <2>3. UNCHANGED <<container, current, goal, unsure, orphans>>
    BY <1>6 DEF Start, host, links, service
  <2>4. \A t \in Scripts : ServiceOf(t)'
    BY <2>1, <2>2, AtRest DEF ServiceOf, Replaced, Switched, Trap, UnderWay, Replacing
  <2>5. unsure \/ container = current
    BY <2>1, AtRest DEF ServiceInv
  <2> QED BY <2>3, <2>4, <2>5
<1>7. CASE Intervene
  <2>1. orphans = {} /\ \A t \in Scripts : pc[t] \notin UnderWay
    BY <1>7 DEF Intervene, Quiet, host, links, script
  <2>2. \A t \in Scripts : pc'[t] # pc[t] => pc[t] \notin UnderWay /\ pc'[t] = "read links"
    BY <1>7, <2>1 DEF Intervene, Goto, TypeOK
  <2>3. UNCHANGED <<container, current, displaced, goal, unsure, orphans>>
    BY <1>7 DEF Intervene, host, links, service, script
  <2> HIDE DEF Known
  <2> QED BY <1>5, <2>2, <2>3
<1>8. CASE Boot \/ RestoreBackup \/ RestoreEnds \/ RestoreBreaks \/ UNCHANGED vars
  <2>1. UNCHANGED <<pc, container, current, displaced, goal, unsure, orphans>>
    BY <1>8 DEF Boot, RestoreBackup, RestoreEnds, RestoreBreaks, links, service, script, aux, vars
  <2> HIDE DEF Known
  <2> QED BY <1>5, <2>1
<1>9. ASSUME NEW q \in Runs, Orphan(q)
      PROVE  FALSE
  BY <1>9 DEF Orphan
<1> HIDE DEF Known
<1> QED BY <1>2, <1>3, <1>4, <1>6, <1>7, <1>8, <1>9 DEF Next
-----------------------------------------------------------------------------
(***************************************************************************)
(* Theorems                                                                *)
(***************************************************************************)
\* The invariant holds at first.
LEMMA BaseInit == Init => IInv
<1> SUFFICES ASSUME Init
             PROVE  IInv
  OBVIOUS
<1>1. TypeOK
  BY TypeInit
<1>2. \A s \in Scripts : pc[s] = "idle"
  BY DEF Init
<1>3. PlaceInv /\ ReadyInv /\ NamedInv /\ FilesInv
  BY <1>2 DEF Init, PlaceInv, ReadyInv, NamedInv, FilesInv, Vouched, Scripts, UnderWay, Staged,
     Staging, Replacing, Trap, RollingBack
<1>4. SchemaInv /\ BackedUpFirst /\ SoloInv /\ LinksInv
  BY <1>2 DEF SchemaInv, BackedUpFirst, SoloInv, LinksInv, LinksOf, Displacing, Scripts, UnderWay,
     Staging, Replacing, Trap, RollingBack
<1>5. ServiceInv
  BY <1>2 DEF Init, ServiceInv, ServiceOf, Replaced, Switched, Trap
<1> QED BY <1>1, <1>3, <1>4, <1>5 DEF IInv

\* Every step keeps the invariant.
LEMMA Preserved == IInv /\ [Next]_vars => IInv'
<1> SUFFICES ASSUME IInv, [Next]_vars
             PROVE  IInv'
  OBVIOUS
<1> USE DEF IInv
<1>1. FilesInv' /\ backups' \subseteq BackupFile
  <2>1. FilesInv'
    BY FilesStep
  <2> QED BY <2>1 DEF FilesInv, Sound
<1>2. pc' \in [Scripts -> Place] /\ PlaceInv'
  BY PlaceStep
<1>3. TypeOK'
  BY <1>1, <1>2, TypeStep
<1> QED BY <1>1, <1>2, <1>3, ReadyStep, NamedStep, SchemaStep, BackedUpStep, SoloStep, LinksStep,
           ServiceStep

\* All parts of the invariant hold in every reachable state.
THEOREM Invariant == Spec => []IInv
BY BaseInit, Preserved, PTL DEF Spec

\* Every variable keeps its type.
THEOREM TypeCorrect == Spec => []TypeOK
<1>1. IInv => TypeOK
  BY DEF IInv
<1> QED BY <1>1, Invariant, PTL

\* What a rollback starts has worked before: the links only ever name complete releases
\* that were ready, whatever fails, dies or runs beside.
THEOREM LinksAreSafe == Spec => []LinkedWereReady
<1>1. IInv => LinkedWereReady
  BY DEF IInv, ReadyInv, Vouched, LinkedWereReady
<1> QED BY <1>1, Invariant, PTL

\* A deployment that displaces a release has a sealed backup, of at least the schema it
\* met, from before it touches the containers.
THEOREM BackupComesFirst == Spec => []BackedUpFirst
<1>1. IInv => BackedUpFirst
  BY DEF IInv
<1> QED BY <1>1, Invariant, PTL

\* Once no script is under way the containers are the current link's, unless a script
\* was killed or failed without restoring.
THEOREM CurrentIsWhatRuns == Spec => []LinkTellsWhatRuns
<1>1. ASSUME IInv, Quiet, orphans = {}, ~unsure
      PROVE  container = current
  <2>1. \A s \in Scripts : ~Between(s)
    BY <1>1, AtRest DEF Quiet
  <2> QED BY <1>1, <2>1 DEF IInv, ServiceInv
<1>2. IInv => LinkTellsWhatRuns
  BY <1>1 DEF LinkTellsWhatRuns
<1> QED BY <1>2, Invariant, PTL

\* A rollback after a failed smoke test goes back to the release its deployment displaced,
\* unless compose exec consumed the script of the deployment: then it leaves that release,
\* which went on running and is the one that was tested, for an older one.
THEOREM RollbackIsExact == Spec => []RollbackGoesBack
<1>1. IInv => RollbackGoesBack
  BY DEF IInv, LinksInv, LinksOf, RollbackGoesBack
<1> QED BY <1>1, Invariant, PTL
===============================================================================
