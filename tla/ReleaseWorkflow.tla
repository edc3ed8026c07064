-------------------------- MODULE ReleaseWorkflow --------------------------
(***************************************************************************)
(* blockwart-release: one host, one managed container, one SQLite database. *)
(* An attempt proves a release on a copy of the database, replaces the      *)
(* service, proves it again and commits the pointers; a failure after the   *)
(* service was stopped rolls everything back.  Every command can fail, and  *)
(* the controller can die between any two steps, while the service keeps    *)
(* accepting writes.  release_lock admits one attempt at a time and fails   *)
(* fast, so that attempts follow one another.                               *)
(***************************************************************************)
EXTENDS Integers, Sequences, FiniteSets

CONSTANTS
    Releases,        \* release IDs; each has an image of its own
    Schema,          \* the packaged schema revision of each release
    BaseSchema,      \* the revision of a database no managed release has used
    None,            \* no pointer, no container, no file
    Retention,       \* spec.state.retention
    MaxHistory,      \* entries that fit _MAX_HISTORY_BYTES
    InspectMayFail,  \* whether "container inspect" may fail for a container that exists
    MaxAttempts,     \* bound: attempts that get past the pointer verification
    MaxWrites        \* bound: writes the services accept

ASSUME ReleaseAssumption ==
    /\ Schema \in [Releases -> Nat]
    /\ BaseSchema \in Nat
    /\ Retention \in Nat /\ Retention >= 2
    /\ MaxHistory \in Nat /\ MaxHistory >= 2
    /\ InspectMayFail \in BOOLEAN
    /\ MaxAttempts \in Nat /\ MaxWrites \in Nat

VARIABLES
    pointers,   \* pointers.json: the current and the previous release
    history,    \* history.jsonl
    bundles,    \* complete bundles under releases/
    staging,    \* staging directories, left behind ones included
    images,     \* releases whose image the engine still has
    container,  \* the managed service container
    db,         \* the live database file
    backups,    \* attempt directories under the backup root, oldest first
    attempt,    \* _ApplyState, and where the attempt is
    outcome,    \* how the last attempt ended, "none" while one is under way
    attempts,   \* attempts so far
    issued,     \* writes accepted so far
    owed        \* accepted writes that no rollback may drop

files == <<history, bundles, staging, images>>
counts == <<attempts, issued>>
vars == <<pointers, files, container, db, backups, attempt, outcome, counts, owed>>

Writes == 1..MaxWrites
Pointer == [release: Releases, generation: 1..(MaxAttempts + 2)]
Container == [release: Releases, running: BOOLEAN]
Database == [schema: {BaseSchema} \cup {Schema[r] : r \in Releases}, writes: SUBSET Writes]
Backup == [pre: Database, final: Database \cup {None}, rollback: Database \cup {None},
           failed: Database \cup {None}]

ASSUME NoneAssumption == None \notin Releases \cup Pointer \cup Container \cup Database

ForwardStages == {"image", "bundle", "rename", "backup", "candidate", "stop", "remove", "snapshot",
                  "start", "verify", "commit", "history", "retention", "report"}
RollbackStages == {"rb_stop", "rb_remove", "rb_backup", "rb_aside", "rb_restore", "rb_start",
                   "rb_verify", "rb_pointers", "rb_history", "contain"}

Attempt == [release: Releases \cup {None}, at: ForwardStages \cup RollbackStages \cup {"idle"},
            current: Pointer \cup {None}, previous: Pointer \cup {None},
            backup: {"none", "pre", "final", "rollback"}, cutoverStarted: BOOLEAN,
            pointersTouched: BOOLEAN, committed: 0..(MaxAttempts + 2)]

NoAttempt == [release |-> None, at |-> "idle", current |-> None, previous |-> None,
              backup |-> "none", cutoverStarted |-> FALSE, pointersTouched |-> FALSE,
              committed |-> 0]

TypeOK ==
    /\ pointers \in [current: Pointer \cup {None}, previous: Pointer \cup {None}]
    /\ history \in Seq([generation: 0..(MaxAttempts + 2), release: Releases,
                        outcome: {"succeeded", "rolled_back"}])
    /\ Len(history) <= MaxHistory
    /\ bundles \subseteq Releases /\ staging \subseteq Releases /\ images \subseteq Releases
    /\ container \in Container \cup {None}
    /\ db \in Database \cup {None}
    /\ backups \in Seq(Backup)
    /\ attempt \in Attempt
    /\ outcome \in {"none", "refused", "replayed", "failed", "succeeded", "rolled_back",
                    "rollback_failed", "crashed"}
    /\ attempts \in 0..MaxAttempts
    /\ issued \in 0..MaxWrites
    /\ owed \subseteq Writes

Running(r) == [release |-> r, running |-> TRUE]
Stopped(r) == [release |-> r, running |-> FALSE]

(* Either nothing is managed yet, or one release has replaced another.       *)
Init ==
    /\ \/ /\ pointers = [current |-> None, previous |-> None]
          /\ history = <<>>
          /\ bundles = {} /\ images = {}
          /\ container = None
          /\ db = [schema |-> BaseSchema, writes |-> {}]
       \/ \E old, new \in Releases :
             /\ old # new /\ Schema[old] <= Schema[new]
             /\ pointers = [current |-> [release |-> new, generation |-> 2],
                            previous |-> [release |-> old, generation |-> 1]]
             /\ history = <<[generation |-> 1, release |-> old, outcome |-> "succeeded"],
                            [generation |-> 2, release |-> new, outcome |-> "succeeded"]>>
             /\ bundles = {old, new} /\ images = {old, new}
             /\ container = Running(new)
             /\ db = [schema |-> Schema[new], writes |-> {}]
    /\ staging = {}
    /\ backups = <<>>
    /\ attempt = NoAttempt
    /\ outcome = "none"
    /\ attempts = 0
    /\ issued = 0
    /\ owed = {}

-----------------------------------------------------------------------------
(* The service: it migrates the database as it starts and then serves.       *)

Tentative == attempt.at # "idle" /\ container.release = attempt.release

Migrate ==
    /\ container # None /\ container.running
    /\ db # None /\ db.schema < Schema[container.release]
    /\ db' = [db EXCEPT !.schema = Schema[container.release]]
    /\ UNCHANGED <<pointers, files, container, backups, attempt, outcome, counts, owed>>

(* A release under proof may still be rolled back with what it accepted.     *)
AcceptWrite ==
    /\ container # None /\ container.running
    /\ db # None /\ db.schema = Schema[container.release]
    /\ issued < MaxWrites
    /\ issued' = issued + 1
    /\ db' = [db EXCEPT !.writes = @ \cup {issued'}]
    /\ owed' = IF Tentative THEN owed ELSE owed \cup {issued'}
    /\ UNCHANGED <<pointers, files, container, backups, attempt, outcome, attempts>>

-----------------------------------------------------------------------------
(* Where an attempt goes next and how it ends.                               *)

Goto(stage) == attempt' = [attempt EXCEPT !.at = stage]

(* What the live database holds once the attempt is over is there to stay.   *)
LiveWrites == IF db = None THEN {} ELSE db.writes
OwedAtEnd == owed \cup LiveWrites

End(how) ==
    /\ outcome' = how
    /\ attempt' = NoAttempt

Fail == End("failed")

(* _rollback re-raises the failure of an attempt that never stopped the      *)
(* service.                                                                  *)
Abort(state) ==
    IF state.cutoverStarted
    THEN attempt' = [state EXCEPT !.at = "rb_stop"] /\ UNCHANGED outcome
    ELSE Fail

Crash ==
    /\ attempt.at # "idle"
    /\ End("crashed")
    /\ owed' = OwedAtEnd
    /\ UNCHANGED <<pointers, files, container, db, backups, counts>>

(* "container inspect" answers for the container; a failed call reads as no  *)
(* container.                                                                *)
Looks(seen) == seen = container \/ (InspectMayFail /\ seen = None)

-----------------------------------------------------------------------------
(* Before the cutover: nothing here touches the service or its database.     *)

(* Seeded fault: any running container will do.                              *)
AnyRunning(expect, seen) ==
    LET current == pointers.current
    IN  IF current = None
        THEN expect = None /\ seen = None
        ELSE expect = current.release /\ expect \in bundles \cap images /\ seen # None

(* The running container must be the one that the current pointer names, and *)
(* the evidence of that release must be complete.                            *)
VerifiedCurrent(expect, seen) ==
    LET current == pointers.current
    IN  IF current = None
        THEN expect = None /\ seen = None
        ELSE /\ expect = current.release
             /\ expect \in bundles /\ expect \in images
             /\ seen = Running(expect)

Refuse ==
    /\ attempt.at = "idle"
    /\ \E expect \in Releases \cup {None}, seen \in {container, None} :
          Looks(seen) /\ ~VerifiedCurrent(expect, seen)
    /\ outcome' = "refused"
    /\ UNCHANGED <<pointers, files, container, db, backups, attempt, counts, owed>>

IsReplay(r) == pointers.current # None /\ pointers.current.release = r

Replay(r) ==
    /\ attempt.at = "idle"
    /\ IsReplay(r) /\ Looks(container) /\ VerifiedCurrent(r, container)
    /\ outcome' = "replayed"
    /\ UNCHANGED <<pointers, files, container, db, backups, attempt, counts, owed>>

Begin(r) ==
    /\ attempt.at = "idle" /\ attempts < MaxAttempts
    /\ ~IsReplay(r)
    /\ \E expect \in Releases \cup {None}, seen \in {container, None} :
          Looks(seen) /\ VerifiedCurrent(expect, seen)
    /\ attempts' = attempts + 1
    /\ attempt' = [NoAttempt EXCEPT !.release = r, !.at = "image",
                                    !.current = pointers.current,
                                    !.previous = pointers.previous]
    /\ outcome' = "none"
    /\ UNCHANGED <<pointers, files, container, db, backups, issued, owed>>

ResolveImage ==
    /\ attempt.at = "image"
    /\ \/ images' = images \cup {attempt.release} /\ Goto("bundle") /\ UNCHANGED outcome
       \/ images' \in {images, images \cup {attempt.release}} /\ Fail
    /\ UNCHANGED <<pointers, history, bundles, staging, container, db, backups, counts, owed>>

(* write_bundle: an identical bundle is confirmed, a staging directory that  *)
(* a dead attempt left behind is refused.                                    *)
StageBundle ==
    LET r == attempt.release
    IN  /\ attempt.at = "bundle"
        /\ \/ r \in bundles /\ Goto("backup") /\ UNCHANGED <<staging, outcome>>
           \/ /\ r \notin bundles \cup staging
              /\ staging' = staging \cup {r} /\ Goto("rename") /\ UNCHANGED outcome
           \/ Fail /\ UNCHANGED staging
        /\ UNCHANGED <<pointers, history, bundles, images, container, db, backups, counts, owed>>

(* Only a failed rename removes the staging directory.                       *)
RenameBundle ==
    LET r == attempt.release
    IN  /\ attempt.at = "rename"
        /\ \/ /\ staging' = staging \ {r} /\ bundles' = bundles \cup {r}
              /\ (Goto("backup") /\ UNCHANGED outcome) \/ Fail
           \/ staging' \in {staging, staging \ {r}} /\ Fail /\ UNCHANGED bundles
        /\ UNCHANGED <<pointers, history, images, container, db, backups, counts, owed>>

NewBackup == [pre |-> db, final |-> None, rollback |-> None, failed |-> None]

CreateBackup ==
    /\ attempt.at = "backup"
    /\ \/ /\ db # None
          /\ backups' = Append(backups, NewBackup)
          /\ \/ attempt' = [attempt EXCEPT !.at = "candidate", !.backup = "pre"]
                /\ UNCHANGED outcome
             \/ Fail
       \/ Fail /\ UNCHANGED backups
    /\ UNCHANGED <<pointers, files, container, db, counts, owed>>

Own == Len(backups)

(* The rollback image is pinned; the candidate migrates and serves a copy of *)
(* the backup and is removed.  An older release cannot serve a newer schema. *)
ProveCandidate ==
    /\ attempt.at = "candidate"
    /\ \/ /\ backups[Own].pre.schema <= Schema[attempt.release]
          /\ Goto("stop") /\ UNCHANGED outcome
       \/ Fail
    /\ UNCHANGED <<pointers, files, container, db, backups, counts, owed>>
-----------------------------------------------------------------------------
(* The cutover.                                                              *)

(* A stop or remove that fails or times out may still have taken effect.     *)
MaybeStopped == {container, Stopped(container.release)}
MaybeRemoved == {container, None}

(* The stop command that returned, in whatever way, is the point of no       *)
(* return.                                                                   *)
StopService ==
    LET stopping == [attempt EXCEPT !.cutoverStarted = TRUE]
    IN  /\ attempt.at = "stop"
        /\ \/ Looks(None) /\ Goto("snapshot") /\ UNCHANGED <<container, outcome>>
           \/ Fail /\ UNCHANGED container
           \/ /\ container # None
              /\ \/ /\ container' = Stopped(container.release)
                    /\ attempt' = [stopping EXCEPT !.at = "remove"] /\ UNCHANGED outcome
                 \/ container' \in MaybeStopped /\ Abort(stopping)
        /\ UNCHANGED <<pointers, files, db, backups, counts, owed>>

RemoveService ==
    /\ attempt.at = "remove"
    /\ \/ container' = None /\ Goto("snapshot") /\ UNCHANGED outcome
       \/ container' \in MaybeRemoved /\ Abort(attempt)
    /\ UNCHANGED <<pointers, files, db, backups, counts, owed>>

(* _refresh_backup_after_stop: the proof holds for an unchanged database     *)
(* only.                                                                     *)
Snapshot ==
    LET taken == [attempt EXCEPT !.backup = "final"]
    IN  /\ attempt.at = "snapshot"
        /\ \/ /\ db # None
              /\ backups' = [backups EXCEPT ![Own].final = db]
              /\ IF db = backups[Own].pre
                 THEN attempt' = [taken EXCEPT !.at = "start"] /\ UNCHANGED outcome
                 ELSE Abort(taken)
           \/ Abort(attempt) /\ UNCHANGED backups
        /\ UNCHANGED <<pointers, files, container, db, counts, owed>>

(* "run --detach": the name must be free; a run that fails or times out may  *)
(* have created or started the container.                                    *)
StartFails(r) ==
    IF container = None THEN container' \in {None, Stopped(r), Running(r)} ELSE UNCHANGED container

StartService ==
    LET starting == [attempt EXCEPT !.cutoverStarted = TRUE]
        r == attempt.release
    IN  /\ attempt.at = "start"
        /\ \/ /\ container = None /\ container' = Running(r)
              /\ attempt' = [starting EXCEPT !.at = "verify"] /\ UNCHANGED outcome
           \/ StartFails(r) /\ Abort(starting)
        /\ UNCHANGED <<pointers, files, db, backups, counts, owed>>

(* What readiness, schema and layout gates can see of a release's service.   *)
Serves(r) == container = Running(r) /\ db # None /\ db.schema = Schema[r]

(* Seeded fault: the gates are polled without a deadline.                    *)
VerifyWithoutDeadline ==
    /\ attempt.at = "verify"
    /\ Serves(attempt.release) /\ Goto("commit")
    /\ UNCHANGED <<pointers, files, container, db, backups, outcome, counts, owed>>

(* Layout, readiness, fresh health, schema, integrity and the hooks.         *)
VerifyService ==
    /\ attempt.at = "verify"
    /\ \/ Serves(attempt.release) /\ Goto("commit") /\ UNCHANGED outcome
       \/ Abort(attempt)
    /\ UNCHANGED <<pointers, files, container, db, backups, counts, owed>>

(* Seeded fault: the history is not looked at.                               *)
PointerGenerations == {0} \cup {p.generation : p \in {pointers.current, pointers.previous} \ {None}}

Generations ==
    {0} \cup {history[i].generation : i \in DOMAIN history}
        \cup {p.generation : p \in {pointers.current, pointers.previous} \ {None}}

NextGeneration == 1 + CHOOSE g \in Generations : \A h \in Generations : h <= g

(* The pair of pointers is one atomic file; an error after the replacement   *)
(* is still an error.                                                        *)
CommitPointers ==
    LET g == NextGeneration
        new == [current |-> [release |-> attempt.release, generation |-> g],
                previous |-> attempt.current]
        touched == [attempt EXCEPT !.pointersTouched = TRUE]
    IN  /\ attempt.at = "commit"
        /\ \/ /\ container = Running(attempt.release)
              /\ pointers' = new
              /\ attempt' = [touched EXCEPT !.at = "history", !.committed = g]
              /\ UNCHANGED outcome
           \/ /\ container = Running(attempt.release)
              /\ pointers' \in {pointers, new} /\ Abort(touched)
           \/ Abort(attempt) /\ UNCHANGED pointers
        /\ UNCHANGED <<files, container, db, backups, counts, owed>>

Extended(how) ==
    Append(history, [generation |-> attempt.committed, release |-> attempt.release,
                     outcome |-> how])
(* Seeded fault: the size of the history is not looked at.                   *)
AlwaysRoom == TRUE

HasRoom == Len(history) < MaxHistory

AppendHistory ==
    /\ attempt.at = "history"
    /\ \/ /\ HasRoom /\ history' = Extended("succeeded")
          /\ (Goto("retention") /\ UNCHANGED outcome) \/ Abort(attempt)
       \/ Abort(attempt) /\ UNCHANGED history
    /\ UNCHANGED <<pointers, bundles, staging, images, container, db, backups, counts, owed>>

(* The newest entries of the history; sorted() keeps the order of equals.    *)
Newest(n) ==
    {i \in DOMAIN history :
        Cardinality({j \in DOMAIN history :
            \/ history[j].generation > history[i].generation
            \/ history[j].generation = history[i].generation /\ j < i}) < n}

(* Seeded fault: the pointer that a late rollback restores is not protected. *)
CommittedOnly == {attempt.release} \cup {p.release : p \in {attempt.current} \ {None}}

Protected == {attempt.release} \cup {p.release : p \in {attempt.current, attempt.previous} \ {None}}
Prunable == bundles \ (Protected \cup {history[i].release : i \in Newest(Retention)})

Kept == SubSeq(backups, (IF Own > Retention THEN Own - Retention ELSE 0) + 1, Own)

(* Housekeeping never fails an attempt; what it removes before an error      *)
(* stays removed.                                                            *)
ApplyRetention ==
    /\ attempt.at = "retention"
    /\ \E gone \in SUBSET Prunable :
          /\ bundles' = bundles \ gone
          /\ \/ images' = images /\ backups' \in {backups, Kept}
             \/ gone = Prunable /\ backups' = Kept /\ images' = images \ gone
    /\ Goto("report")
    /\ UNCHANGED <<pointers, history, staging, container, db, outcome, counts, owed>>

WriteReport ==
    /\ attempt.at = "report"
    /\ \/ End("succeeded") /\ owed' = OwedAtEnd
       \/ Abort(attempt) /\ UNCHANGED owed
    /\ UNCHANGED <<pointers, files, container, db, backups, counts>>
-----------------------------------------------------------------------------
(* The rollback.  An error in it contains the service and gives up.          *)

Contain == Goto("contain")

RollbackStop ==
    /\ attempt.at = "rb_stop"
    /\ \/ Looks(None) /\ Goto("rb_backup") /\ UNCHANGED container
       \/ /\ container # None
          /\ \/ container' = Stopped(container.release) /\ Goto("rb_remove")
             \/ container' \in MaybeStopped /\ Contain
    /\ UNCHANGED <<pointers, files, db, backups, outcome, counts, owed>>

RollbackRemove ==
    /\ attempt.at = "rb_remove"
    /\ \/ container' = None /\ Goto("rb_backup")
       \/ container' \in MaybeRemoved /\ Contain
    /\ UNCHANGED <<pointers, files, db, backups, outcome, counts, owed>>

(* Seeded fault: the pre-release backup is restored as it is.                *)
NeverRefresh == FALSE

(* _refresh_rollback_backup_if_needed: the pre-release backup is older than  *)
(* the last write the service accepted.                                      *)
MustRefresh == attempt.backup = "pre"

RefreshBackup ==
    /\ attempt.at = "rb_backup"
    /\ \/ /\ MustRefresh /\ db # None
          /\ backups' = [backups EXCEPT ![Own].rollback = db]
          /\ attempt' = [attempt EXCEPT !.at = "rb_aside", !.backup = "rollback"]
       \/ ~MustRefresh /\ Goto("rb_aside") /\ UNCHANGED backups
       \/ Contain /\ UNCHANGED backups
    /\ UNCHANGED <<pointers, files, container, db, outcome, counts, owed>>

(* restore_live_database: the failed database is moved aside first.  An      *)
(* error leaves no database file, or the failed one.                         *)
MoveAside ==
    /\ attempt.at = "rb_aside"
    /\ \/ /\ backups' = [backups EXCEPT ![Own].failed = db] /\ db' = None
          /\ Goto("rb_restore") \/ Contain
       \/ Contain /\ UNCHANGED <<db, backups>>
    /\ UNCHANGED <<pointers, files, container, outcome, counts, owed>>

BackupPath == CASE attempt.backup = "pre"      -> backups[Own].pre
                [] attempt.backup = "final"    -> backups[Own].final
                [] attempt.backup = "rollback" -> backups[Own].rollback

RestoreDatabase ==
    /\ attempt.at = "rb_restore"
    /\ \/ db' = BackupPath /\ Goto("rb_start")
       \/ db' \in {db, BackupPath} /\ Contain
    /\ UNCHANGED <<pointers, files, container, backups, outcome, counts, owed>>

(* Without a recorded predecessor the service stays stopped.                 *)
RestartPrevious ==
    /\ attempt.at = "rb_start"
    /\ IF attempt.current = None
       THEN Goto("rb_pointers") /\ UNCHANGED container
       ELSE \/ /\ container = None /\ container' = Running(attempt.current.release)
               /\ Goto("rb_verify")
            \/ StartFails(attempt.current.release) /\ Contain
    /\ UNCHANGED <<pointers, files, db, backups, outcome, counts, owed>>

VerifyPrevious ==
    /\ attempt.at = "rb_verify"
    /\ \/ Serves(attempt.current.release) /\ Goto("rb_pointers")
       \/ Contain
    /\ UNCHANGED <<pointers, files, container, db, backups, outcome, counts, owed>>

(* Seeded fault: only the current pointer is restored.                       *)
OnlyCurrent == [current |-> attempt.current, previous |-> pointers.previous]

OldPointers == [current |-> attempt.current, previous |-> attempt.previous]

(* _restore_pointers: nothing to do unless the commit touched the file.      *)
RestorePointers ==
    /\ attempt.at = "rb_pointers"
    /\ \/ ~attempt.pointersTouched /\ End("rolled_back") /\ UNCHANGED pointers
       \/ /\ attempt.pointersTouched
          /\ \/ pointers' = OldPointers /\ Goto("rb_history")
             \/ pointers' \in {pointers, OldPointers} /\ Contain
          /\ UNCHANGED outcome
    /\ UNCHANGED <<files, container, db, backups, counts, owed>>

RecordRollback ==
    /\ attempt.at = "rb_history"
    /\ \/ /\ HasRoom /\ history' = Extended("rolled_back")
          /\ End("rolled_back") \/ (Contain /\ UNCHANGED outcome)
       \/ Contain /\ UNCHANGED <<history, outcome>>
    /\ UNCHANGED <<pointers, bundles, staging, images, container, db, backups, counts, owed>>

(* _contain_failed_service: stop and remove, whatever is left of it.         *)
ContainService ==
    /\ attempt.at = "contain"
    /\ \/ Looks(None) /\ UNCHANGED container
       \/ container # None /\ container' \in MaybeStopped \cup MaybeRemoved
    /\ End("rollback_failed")
    /\ owed' = OwedAtEnd
    /\ UNCHANGED <<pointers, files, db, backups, counts>>

-----------------------------------------------------------------------------
Prove == ResolveImage \/ StageBundle \/ RenameBundle \/ CreateBackup \/ ProveCandidate

Cutover == StopService \/ RemoveService \/ Snapshot \/ StartService \/ VerifyService

Commit == CommitPointers \/ AppendHistory \/ ApplyRetention \/ WriteReport

Rollback ==
    \/ RollbackStop \/ RollbackRemove \/ RefreshBackup \/ MoveAside \/ RestoreDatabase
    \/ RestartPrevious \/ VerifyPrevious \/ RestorePointers \/ RecordRollback \/ ContainService

Step == Prove \/ Cutover \/ Commit \/ Rollback

Next ==
    \/ Refuse \/ \E r \in Releases : Replay(r) \/ Begin(r)
    \/ Step
    \/ Migrate \/ AcceptWrite
    \/ Crash

Spec == Init /\ [][Next]_vars

(* The controller never waits for another process without a timeout.         *)
FairSpec == Spec /\ WF_vars(Step)

-----------------------------------------------------------------------------
(* Writes that a service accepted are in the live database when an attempt   *)
(* has succeeded or was rolled back, and no step, crash or error leaves one   *)
(* in neither the live nor a preserved database.  Only what the new release  *)
(* accepted before it was proved may be rolled back.                         *)
WritesKept ==
    /\ outcome \in {"succeeded", "rolled_back"} => owed \subseteq LiveWrites
    /\ owed \subseteq LiveWrites \cup
          UNION {backups[i].failed.writes : i \in {j \in DOMAIN backups : backups[j].failed # None}}

(* The outcome that an attempt reports tells the state it leaves: succeeded  *)
(* means that the pointers name the release that serves, rolled back that the *)
(* former release serves under the former pointers, failed that service and  *)
(* pointers are as before.                                                   *)
OutcomeTellsTheState ==
    [][LET former == IF attempt.current = None THEN None ELSE Running(attempt.current.release)
       IN  attempt.at # "idle" /\ attempt'.at = "idle" =>
             /\ outcome' = "succeeded" =>
                   /\ pointers'.current.release = attempt.release
                   /\ pointers'.previous = attempt.current
                   /\ container' = Running(attempt.release)
                   /\ db' # None /\ db'.schema = Schema[attempt.release]
             /\ outcome' \in {"failed", "rolled_back"} =>
                   /\ pointers' = [current |-> attempt.current, previous |-> attempt.previous]
                   /\ container' = former
                   /\ former # None => db' # None /\ db'.schema = Schema[former.release]]_vars

(* An attempt over a managed release starts from a coherent state only: that *)
(* release serves its own schema and holds every owed write.  What a crash or *)
(* a failed rollback left behind is never taken for a good state.            *)
StartsCoherent ==
    [][attempt.at = "idle" /\ attempt'.at # "idle" /\ pointers.current # None =>
          /\ container = Running(pointers.current.release)
          /\ db # None /\ db.schema = Schema[pointers.current.release]
          /\ owed \subseteq db.writes]_vars

(* An attempt starts from a coherent state only and reports the one it leaves. *)
AttemptsTellTheState == OutcomeTellsTheState /\ StartsCoherent

(* The current and the previous pointer name releases whose bundle and image *)
(* are still there, whatever retention removed and a late error restored.    *)
PointersAreBacked ==
    \A p \in {pointers.current, pointers.previous} \ {None} :
        p.release \in bundles /\ p.release \in images

(* A generation is committed once, also after rollbacks and crashes: the      *)
(* order that retention and the operators read from the history is total.    *)
GenerationsAreUnique ==
    \A i, j \in DOMAIN history :
        /\ history[i].outcome = "succeeded" /\ history[j].outcome = "succeeded"
        /\ history[i].generation = history[j].generation
        => i = j

(* What the files say stays in its types, backed and ordered.                *)
PointersSound == TypeOK /\ PointersAreBacked /\ GenerationsAreUnique

(* Every attempt ends, with an outcome or in a crash.                        *)
AttemptsEnd == attempt.at # "idle" ~> attempt.at = "idle"
=============================================================================
