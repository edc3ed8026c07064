------------------------- MODULE ReleaseAndLoginProofs -------------------------
(***************************************************************************)
(* Proofs about the components that MCReleaseAndLogin puts side by side.         *)
(*                                                                         *)
(* ReleaseWorkflow, for any releases and schemas, any number of attempts and      *)
(* writes, any retention and any failures.  Two invariants carry them.  FileInv    *)
(* is about the release state alone and holds whatever "container inspect"        *)
(* answers: the pointers are those that the attempt found or those that it         *)
(* committed (PointersFollow), a generation in use is bounded by the attempts so    *)
(* far (GenerationsBounded), and what either pair names is backed all the while     *)
(* (AttemptBacked).  ServiceInv needs an engine that answers for the containers it   *)
(* has: where the container and the database are at each stage, and that what a     *)
(* rollback is about to restore holds every owed write (BackupHoldsOwed), which is    *)
(* why the last backup is taken with no container in the way.                    *)
(*                                                                         *)
(* BrowserLogin, for any threads, sources, accounts, limits and durations.         *)
(* LoginInv counts: within a window the verifications of an account and its logins   *)
(* at work are no more than its attempts of that window and one for each slot       *)
(* (VerifiedAreAttempts), and who passes a challenge that is still fresh has read it  *)
(* while nobody had signed in by it (PassingLimited).                             *)
(*                                                                         *)
(* GiteaExport, for any repository, page size and number of writes.  What Gitea     *)
(* holds only grows (Grown): what is deleted stays deleted, and what has a stamp of    *)
(* an earlier instant is what it was then.  A listing is as long as what was stored    *)
(* when its last page was read in the first pass (Captured) and when its first page     *)
(* was read in the second (Again), so two equal listings are what was stored between     *)
(* the passes (SameListing).                                                     *)
(***************************************************************************)
EXTENDS MCReleaseAndLogin, FiniteSetTheorems, SequenceTheorems, WellFoundedInduction, TLAPS

Under(stages) == attempt.at \in stages

BeforeBackup == {"image", "bundle", "rename", "backup"}
Before == BeforeBackup \cup {"candidate", "stop"}
Committed == {"history", "retention", "report"}
Serving == {"commit"} \cup Committed

(* How far the attempt has got.                                              *)
Shape ==
    /\ Under({"idle"}) => attempt = NoAttempt
    /\ ~Under({"idle"}) => /\ attempt.release \in Releases /\ outcome = "none"
                           /\ attempt.current # None => attempt.current.release # attempt.release
    /\ Under(BeforeBackup) => attempt.backup = "none" /\ ~attempt.cutoverStarted
    /\ Under({"candidate", "stop"}) => attempt.backup = "pre" /\ ~attempt.cutoverStarted
    /\ Under({"remove"}) => attempt.backup = "pre" /\ attempt.cutoverStarted
    /\ Under({"snapshot"}) => attempt.backup = "pre"
    /\ Under({"start"}) => attempt.backup = "final"
    /\ Under({"verify"} \cup Serving) => attempt.backup = "final" /\ attempt.cutoverStarted
    /\ Under({"rb_stop", "rb_remove", "rb_backup"}) => attempt.backup \in {"pre", "final"}
    /\ Under({"rb_aside", "rb_restore"}) => attempt.backup \in {"final", "rollback"}
    /\ ~Under({"idle"} \cup BeforeBackup) => backups # <<>>

PointersNew ==
    /\ pointers.current # None /\ pointers.current.release = attempt.release
    /\ pointers.previous = attempt.current

PointersFollow ==
    /\ attempt.pointersTouched => Under(Committed \cup RollbackStages)
    /\ ~Under({"idle"}) => pointers = OldPointers \/ (attempt.pointersTouched /\ PointersNew)
    /\ Under(Committed) => PointersNew /\ attempt.pointersTouched
    /\ Under({"rb_history"}) => pointers = OldPointers /\ attempt.pointersTouched

GenerationsBounded ==
    /\ \A g \in Generations :
          g <= attempts + (IF Under({"idle"}) \/ attempt.pointersTouched THEN 2 ELSE 1)
    /\ attempt.committed <= attempts + 2
    /\ \A p \in {attempt.current, attempt.previous} \ {None} : p.generation <= attempts + 2

CommittedIsNew ==
    Under({"history"}) => \A i \in DOMAIN history : history[i].generation < attempt.committed

Backed(r) == r \in bundles /\ r \in images

AttemptBacked ==
    ~Under({"idle"}) =>
        /\ \A p \in {attempt.current, attempt.previous} \ {None} : Backed(p.release)
        /\ ~Under({"image"}) => attempt.release \in images
        /\ ~Under({"image", "bundle", "rename"}) => attempt.release \in bundles

FileInv ==
    /\ TypeOK /\ Shape /\ PointersFollow /\ GenerationsBounded /\ CommittedIsNew
    /\ GenerationsAreUnique /\ PointersAreBacked /\ AttemptBacked

-----------------------------------------------------------------------------
Former == IF attempt.current = None THEN None ELSE Running(attempt.current.release)

OldSchema(database) == attempt.current # None => database.schema = Schema[attempt.current.release]

(* Where the container of which release is.                                    *)
ContainerFollows ==
    /\ Under(Before) => container = Former
    /\ Under({"remove"}) => attempt.current # None /\ container = Stopped(attempt.current.release)
    /\ Under({"snapshot"}) => attempt.cutoverStarted \/ attempt.current = None
    /\ Under({"snapshot", "start", "rb_backup", "rb_aside", "rb_restore", "rb_start"}) => container = None
    /\ Under({"verify"} \cup Serving) => container = Running(attempt.release)
    /\ Under({"rb_stop", "rb_remove"}) /\ container # None =>
          \/ attempt.backup = "final" /\ container.release = attempt.release
          \/ /\ attempt.backup = "pre" /\ attempt.current # None
             /\ container.release = attempt.current.release
    /\ Under({"rb_remove"}) => container # None /\ ~container.running
    /\ Under({"rb_verify"}) => attempt.current # None
    /\ Under({"rb_verify", "rb_pointers", "rb_history"}) => container = Former

(* What the database is meanwhile.                                            *)
DatabaseFollows ==
    /\ ~Under({"idle", "rb_restore", "contain"} \cup BeforeBackup) => db # None
    /\ Under(Before) /\ attempt.current # None => db # None
    /\ Under(Before \cup {"remove", "snapshot", "start", "rb_start", "rb_verify", "rb_pointers",
                        "rb_history"}) =>
          OldSchema(db)
    /\ Under({"rb_stop", "rb_remove", "rb_backup"}) /\ attempt.backup = "pre" => OldSchema(db)
    /\ Under(Serving) => db.schema = Schema[attempt.release]
    /\ outcome \in {"succeeded", "rolled_back"} => db # None

(* The running release that the pointers name serves its own schema.           *)
Coherent ==
    pointers.current # None /\ container = Running(pointers.current.release) =>
        db # None /\ db.schema = Schema[pointers.current.release]

OwedIsLive == db # None => owed \subseteq db.writes

OwedIsPreserved ==
    db = None =>
        \E i \in DOMAIN backups : backups[i].failed # None /\ owed \subseteq backups[i].failed.writes

(* What a rollback restores holds what is owed.                                *)
Restorable(backup) == backup # None /\ owed \subseteq backup.writes /\ OldSchema(backup)

BackupHoldsOwed ==
    /\ Under({"start", "verify", "rb_stop", "rb_remove", "rb_backup", "rb_aside", "rb_restore"} \cup Serving)
          /\ attempt.backup = "final" => Restorable(backups[Own].final)
    /\ Under({"rb_aside", "rb_restore"}) /\ attempt.backup = "rollback" =>
          Restorable(backups[Own].rollback)

ServiceInv ==
    /\ ContainerFollows /\ DatabaseFollows /\ Coherent
    /\ OwedIsLive /\ OwedIsPreserved /\ BackupHoldsOwed
-----------------------------------------------------------------------------
(* Where a step takes the attempt, field by field.                             *)
Stages == ForwardStages \cup RollbackStages \cup {"idle"}

Ends == attempt' \in Attempt /\ attempt' = NoAttempt /\ attempt'.at = "idle"

GoesOn(stage) ==
    /\ attempt' \in Attempt /\ attempt'.at = stage
    /\ attempt'.release = attempt.release
    /\ attempt'.current = attempt.current /\ attempt'.previous = attempt.previous

Goes(stage, backup, cutover) ==
    /\ GoesOn(stage)
    /\ attempt'.backup = backup /\ attempt'.cutoverStarted = cutover
    /\ attempt'.pointersTouched = attempt.pointersTouched
    /\ attempt'.committed = attempt.committed

Aborts(backup, cutover) ==
    \/ cutover /\ Goes("rb_stop", backup, cutover) /\ outcome' = outcome
    \/ ~cutover /\ Ends /\ outcome' = "failed"

LEMMA GotoGoes ==
    ASSUME attempt \in Attempt, NEW stage \in Stages, Goto(stage)
    PROVE  Goes(stage, attempt.backup, attempt.cutoverStarted)
BY DEF Goto, Goes, GoesOn, Attempt, Stages

LEMMA EndEnds ==
    ASSUME NEW how, End(how)
    PROVE  Ends /\ outcome' = how
BY ReleaseAssumption DEF Attempt, Ends, NoAttempt, End

LEMMA FailEnds == Fail => Ends /\ outcome' = "failed"
BY EndEnds DEF Fail

LEMMA AbortGoes ==
    ASSUME attempt \in Attempt, Abort(attempt)
    PROVE  Aborts(attempt.backup, attempt.cutoverStarted)
<1>1. ASSUME attempt.cutoverStarted
      PROVE  Goes("rb_stop", attempt.backup, attempt.cutoverStarted) /\ outcome' = outcome
  BY <1>1 DEF Abort, Goes, GoesOn, Attempt, RollbackStages
<1>2. QED
  BY <1>1, FailEnds DEF Abort, Aborts

LEMMA StopControl ==
    ASSUME attempt \in Attempt, StopService
    PROVE  \/ Looks(None) /\ Goes("snapshot", attempt.backup, attempt.cutoverStarted)
              /\ UNCHANGED <<container, outcome>>
           \/ Ends /\ outcome' = "failed" /\ UNCHANGED container
           \/ /\ container # None /\ container' = Stopped(container.release)
              /\ Goes("remove", attempt.backup, TRUE) /\ UNCHANGED outcome
           \/ /\ container # None /\ container' \in MaybeStopped
              /\ Goes("rb_stop", attempt.backup, TRUE) /\ UNCHANGED outcome
<1> DEFINE stopping == [attempt EXCEPT !.cutoverStarted = TRUE]
<1>1. ASSUME NEW stage \in Stages, attempt' = [stopping EXCEPT !.at = stage]
      PROVE  Goes(stage, attempt.backup, TRUE)
  BY <1>1 DEF Attempt, Goes, GoesOn, Stages
<1>2. Abort(stopping) => Goes("rb_stop", attempt.backup, TRUE) /\ outcome' = outcome
  BY <1>1 DEF Abort, Attempt, Stages, RollbackStages
<1>3. attempt' = [stopping EXCEPT !.at = "remove"] => Goes("remove", attempt.backup, TRUE)
  BY <1>1 DEF Stages, ForwardStages
<1>4. Goto("snapshot") => Goes("snapshot", attempt.backup, attempt.cutoverStarted)
  BY GotoGoes DEF Stages, ForwardStages
<1> HIDE DEF stopping
<1>5. QED
  BY <1>2, <1>3, <1>4, FailEnds DEF StopService, stopping

LEMMA StartControl ==
    ASSUME attempt \in Attempt, StartService
    PROVE  \/ /\ container = None /\ container' = Running(attempt.release)
              /\ Goes("verify", attempt.backup, TRUE) /\ UNCHANGED outcome
           \/ /\ StartFails(attempt.release)
              /\ Goes("rb_stop", attempt.backup, TRUE) /\ UNCHANGED outcome
<1> DEFINE starting == [attempt EXCEPT !.cutoverStarted = TRUE]
<1>1. Abort(starting) => Goes("rb_stop", attempt.backup, TRUE) /\ outcome' = outcome
  BY DEF Abort, Attempt, RollbackStages, Goes, GoesOn
<1>2. attempt' = [starting EXCEPT !.at = "verify"] => Goes("verify", attempt.backup, TRUE)
  BY DEF Attempt, ForwardStages, Goes, GoesOn
<1> HIDE DEF starting
<1>3. QED
  BY <1>1, <1>2 DEF StartService, starting

LEMMA SnapshotControl ==
    ASSUME attempt \in Attempt, Snapshot
    PROVE  \/ /\ db # None /\ backups' = [backups EXCEPT ![Own].final = db]
              /\ \/ /\ db = backups[Own].pre
                    /\ Goes("start", "final", attempt.cutoverStarted) /\ UNCHANGED outcome
                 \/ Aborts("final", attempt.cutoverStarted)
           \/ Aborts(attempt.backup, attempt.cutoverStarted) /\ UNCHANGED backups
<1> DEFINE taken == [attempt EXCEPT !.backup = "final"]
<1>1. taken.cutoverStarted = attempt.cutoverStarted
  BY DEF Attempt
<1>2. ASSUME Abort(taken)
      PROVE  Aborts("final", attempt.cutoverStarted)
  <2>1. CASE attempt.cutoverStarted
    <3>1. attempt' = [taken EXCEPT !.at = "rb_stop"] /\ outcome' = outcome
      BY <1>1, <1>2, <2>1 DEF Abort
    <3>2. Goes("rb_stop", "final", attempt.cutoverStarted)
      BY <3>1 DEF Goes, GoesOn, Attempt, RollbackStages
    <3>3. QED
      BY <2>1, <3>1, <3>2 DEF Aborts
  <2>2. CASE ~attempt.cutoverStarted
    BY <1>1, <1>2, <2>2, FailEnds DEF Abort, Aborts
  <2>3. QED
    BY <2>1, <2>2
<1>3. attempt' = [taken EXCEPT !.at = "start"] => Goes("start", "final", attempt.cutoverStarted)
  BY DEF Attempt, ForwardStages, Goes, GoesOn
<1> HIDE DEF taken
<1>4. QED
  BY <1>2, <1>3, AbortGoes DEF Snapshot, taken

LEMMA BackupControl ==
    ASSUME attempt \in Attempt, CreateBackup
    PROVE  \/ /\ db # None /\ backups' = Append(backups, NewBackup)
              /\ \/ Goes("candidate", "pre", attempt.cutoverStarted) /\ UNCHANGED outcome
                 \/ Ends /\ outcome' = "failed"
           \/ Ends /\ outcome' = "failed" /\ UNCHANGED backups
<1>1. attempt' = [attempt EXCEPT !.at = "candidate", !.backup = "pre"]
         => Goes("candidate", "pre", attempt.cutoverStarted)
  BY DEF Attempt, ForwardStages, Goes, GoesOn
<1>2. QED
  BY <1>1, FailEnds DEF CreateBackup

LEMMA RefreshControl ==
    ASSUME attempt \in Attempt, RefreshBackup
    PROVE  \/ /\ attempt.backup = "pre" /\ db # None
              /\ backups' = [backups EXCEPT ![Own].rollback = db]
              /\ Goes("rb_aside", "rollback", attempt.cutoverStarted)
           \/ /\ attempt.backup # "pre" /\ UNCHANGED backups
              /\ Goes("rb_aside", attempt.backup, attempt.cutoverStarted)
           \/ Goes("contain", attempt.backup, attempt.cutoverStarted) /\ UNCHANGED backups
<1>1. attempt' = [attempt EXCEPT !.at = "rb_aside", !.backup = "rollback"]
         => Goes("rb_aside", "rollback", attempt.cutoverStarted)
  BY DEF Attempt, RollbackStages, Goes, GoesOn
<1>2. QED
  BY <1>1, GotoGoes DEF RefreshBackup, Contain, MustRefresh, Stages, RollbackStages

(* The commit under way, with the generation that it takes.                    *)
Commits(stage, committed) ==
    /\ GoesOn(stage)
    /\ attempt'.backup = attempt.backup /\ attempt'.cutoverStarted = attempt.cutoverStarted
    /\ attempt'.pointersTouched /\ attempt'.committed = committed

NewPointers == [current |-> [release |-> attempt.release, generation |-> NextGeneration],
                previous |-> attempt.current]

LEMMA CommitControl ==
    ASSUME attempt \in Attempt, attempt.cutoverStarted, CommitPointers,
           NextGeneration \in 0..(MaxAttempts + 2)
    PROVE  /\ outcome' = outcome
           /\ \/ /\ container = Running(attempt.release) /\ pointers' = NewPointers
                 /\ Commits("history", NextGeneration)
              \/ /\ container = Running(attempt.release) /\ pointers' \in {pointers, NewPointers}
                 /\ Commits("rb_stop", attempt.committed)
              \/ /\ Goes("rb_stop", attempt.backup, attempt.cutoverStarted) /\ UNCHANGED pointers
<1> DEFINE touched == [attempt EXCEPT !.pointersTouched = TRUE]
           g == NextGeneration
<1>1. ASSUME Abort(touched)
      PROVE  Commits("rb_stop", attempt.committed) /\ outcome' = outcome
  <2>1. touched.cutoverStarted
    BY DEF Attempt
  <2> HIDE DEF touched
  <2>2. attempt' = [touched EXCEPT !.at = "rb_stop"] /\ outcome' = outcome
    BY <1>1, <2>1 DEF Abort
  <2> USE DEF touched
  <2>3. attempt' = [attempt EXCEPT !.pointersTouched = TRUE, !.at = "rb_stop"]
    BY <2>2 DEF Attempt
  <2>4. QED
    BY <2>2, <2>3 DEF Attempt, RollbackStages, Commits, GoesOn
<1>2. attempt' = [touched EXCEPT !.at = "history", !.committed = g] => Commits("history", g)
  BY DEF Attempt, ForwardStages, Commits, GoesOn
<1>3. Abort(attempt) => Goes("rb_stop", attempt.backup, attempt.cutoverStarted) /\ outcome' = outcome
  BY AbortGoes DEF Aborts
<1> HIDE DEF touched, g
<1>4. QED
  BY <1>1, <1>2, <1>3 DEF CommitPointers, NewPointers, touched, g

LEMMA BeginControl ==
    ASSUME TypeOK, NEW r \in Releases, Begin(r)
    PROVE  /\ attempt' \in Attempt /\ attempt'.at = "image" /\ attempt'.release = r
           /\ attempt'.current = pointers.current /\ attempt'.previous = pointers.previous
           /\ attempt'.backup = "none" /\ ~attempt'.cutoverStarted
           /\ ~attempt'.pointersTouched /\ attempt'.committed = 0
<1>1. pointers.current \in Pointer \cup {None} /\ pointers.previous \in Pointer \cup {None}
  BY DEF TypeOK
<1>2. attempt' = [release |-> r, at |-> "image", current |-> pointers.current,
                  previous |-> pointers.previous, backup |-> "none", cutoverStarted |-> FALSE,
                  pointersTouched |-> FALSE, committed |-> 0]
  BY DEF Begin, NoAttempt
<1>3. QED
  BY <1>1, <1>2, ReleaseAssumption DEF Attempt, ForwardStages

-----------------------------------------------------------------------------
(* The types that the steps need again and again.                              *)
LEMMA LatestBackup ==
    ASSUME TypeOK, backups # <<>>
    PROVE  Own \in DOMAIN backups /\ Own \in Nat \ {0} /\ backups[Own] \in Backup
BY DEF TypeOK, Own

LEMMA LiveWritesTyped == TypeOK => LiveWrites \subseteq Writes /\ OwedAtEnd \subseteq Writes
BY NoneAssumption DEF TypeOK, LiveWrites, OwedAtEnd, Database

LEMMA ContainerTyped ==
    ASSUME TypeOK
    PROVE  /\ container # None => MaybeStopped \subseteq Container
           /\ container # None => Stopped(container.release) \in Container
           /\ MaybeRemoved \subseteq Container \cup {None}
           /\ \A r \in Releases : Running(r) \in Container /\ Stopped(r) \in Container
BY DEF TypeOK, MaybeStopped, MaybeRemoved, Stopped, Running, Container

LEMMA StartFailsTyped ==
    ASSUME TypeOK, NEW r \in Releases, StartFails(r)
    PROVE  container' \in Container \cup {None}
BY ContainerTyped DEF StartFails, TypeOK

LEMMA BackupTyped ==
    ASSUME TypeOK, backups # <<>>, NEW b \in Backup
    PROVE  [backups EXCEPT ![Own] = b] \in Seq(Backup)
BY LatestBackup DEF TypeOK

LEMMA ExtendedTyped ==
    ASSUME TypeOK, attempt.release \in Releases, HasRoom,
           NEW how \in {"succeeded", "rolled_back"}, history' = Extended(how)
    PROVE  /\ history' \in Seq([generation: 0..(MaxAttempts + 2), release: Releases,
                               outcome: {"succeeded", "rolled_back"}])
           /\ Len(history') <= MaxHistory
           /\ Len(history') = Len(history) + 1
           /\ \A i \in DOMAIN history : i \in DOMAIN history' /\ history'[i] = history[i]
           /\ history'[Len(history')] = [generation |-> attempt.committed,
                                         release |-> attempt.release, outcome |-> how]
<1> DEFINE e == [generation |-> attempt.committed, release |-> attempt.release, outcome |-> how]
           Entry == [generation: 0..(MaxAttempts + 2), release: Releases,
                     outcome: {"succeeded", "rolled_back"}]
<1>1. e \in Entry
  BY DEF TypeOK, Attempt
<1>2. history \in Seq(Entry) /\ Len(history) \in Nat
  BY DEF TypeOK
<1>3. history' = Append(history, e)
  BY DEF Extended
<1> HIDE DEF e, Entry
<1>4. history' \in Seq(Entry) /\ Len(history') = Len(history) + 1
      /\ (\A i \in DOMAIN history : i \in DOMAIN history' /\ history'[i] = history[i])
      /\ history'[Len(history')] = e
  BY <1>1, <1>2, <1>3
<1>5. Len(history') <= MaxHistory
  BY <1>2, <1>4, ReleaseAssumption DEF HasRoom
<1>6. QED
  BY <1>4, <1>5 DEF e, Entry

LEMMA KeptTyped == TypeOK /\ backups # <<>> => Kept \in Seq(Backup) /\ Kept # <<>>
<1> SUFFICES ASSUME TypeOK, backups # <<>>
             PROVE  Kept \in Seq(Backup) /\ Kept # <<>>
  OBVIOUS
<1> DEFINE from == (IF Own > Retention THEN Own - Retention ELSE 0) + 1
<1>1. Own \in Nat \ {0} /\ Own = Len(backups) /\ backups \in Seq(Backup)
  BY LatestBackup DEF TypeOK, Own
<1>2. from \in 1..Own
  BY <1>1, ReleaseAssumption
<1> HIDE DEF from
<1>3. SubSeq(backups, from, Own) \in Seq(Backup) /\ Len(SubSeq(backups, from, Own)) = Own - from + 1
  BY <1>1, <1>2
<1>4. Own - from + 1 # 0 /\ Kept = SubSeq(backups, from, Own)
  BY <1>1, <1>2 DEF Kept, from
<1>5. QED
  BY <1>3, <1>4

LEMMA KeptLatest == TypeOK /\ backups # <<>> => Kept[Len(Kept)] = backups[Own]
<1> SUFFICES ASSUME TypeOK, backups # <<>>
             PROVE  Kept[Len(Kept)] = backups[Own]
  OBVIOUS
<1> DEFINE from == (IF Own > Retention THEN Own - Retention ELSE 0) + 1
<1>1. Own \in Nat \ {0} /\ Own = Len(backups) /\ backups \in Seq(Backup)
  BY LatestBackup DEF TypeOK, Own
<1>2. from \in 1..Own
  BY <1>1, ReleaseAssumption
<1> HIDE DEF from
<1>3. /\ Len(SubSeq(backups, from, Own)) = Own - from + 1
      /\ SubSeq(backups, from, Own)[Own - from + 1] = backups[Own]
  BY <1>1, <1>2
<1>4. QED
  BY <1>3 DEF Kept, from

LEMMA GenerationsTyped == TypeOK => Generations \subseteq 0..(MaxAttempts + 2)
<1> SUFFICES ASSUME TypeOK
             PROVE  Generations \subseteq 0..(MaxAttempts + 2)
  OBVIOUS
<1>1. {history[i].generation : i \in DOMAIN history} \subseteq 0..(MaxAttempts + 2)
  <2>1. \A i \in DOMAIN history : history[i].generation \in 0..(MaxAttempts + 2)
    <3> DEFINE Entry == [generation: 0..(MaxAttempts + 2), release: Releases,
                         outcome: {"succeeded", "rolled_back"}]
    <3>1. history \in Seq(Entry)
      BY DEF TypeOK
    <3> HIDE DEF Entry
    <3>2. \A i \in DOMAIN history : history[i] \in Entry
      BY <3>1
    <3>3. QED
      BY <3>2 DEF Entry
  <2>2. QED
    BY <2>1
<1>2. \A p \in {pointers.current, pointers.previous} \ {None} : p.generation \in 0..(MaxAttempts + 2)
  BY ReleaseAssumption DEF TypeOK, Pointer
<1>3. QED
  BY <1>1, <1>2, ReleaseAssumption DEF Generations


(* What a bounded set of numbers has at its end: the last generation.          *)
LEMMA LastOfBounded ==
    ASSUME NEW n \in Nat, NEW S, S \subseteq 0..n, S # {}
    PROVE  \E g \in S : \A h \in S : h <= g
<1> DEFINE T == {n - s : s \in S}
<1>1. T \subseteq Nat /\ T # {}
  <2>1. \A s \in S : n - s \in Nat
    OBVIOUS
  <2>2. QED
    BY <2>1
<1> HIDE DEF T
<1>2. PICK m \in T : \A t \in T : ~(<<t, m>> \in OpToRel(<, Nat))
  BY <1>1, NatLessThanWellFounded, WFMin, Zenon
<1>3. \A t \in T : m <= t
  <2> TAKE t \in T
  <2>1. t \in Nat /\ m \in Nat
    BY <1>1
  <2>2. ~(t < m)
    BY <1>2, <2>1 DEF OpToRel
  <2>3. QED
    BY <2>1, <2>2
<1>4. PICK g \in S : m = n - g
  BY DEF T
<1>5. \A h \in S : n - h \in T
  BY DEF T
<1>6. QED
  BY <1>3, <1>4, <1>5

(* The next generation is larger than every one in use, and not by more than one. *)
LEMMA NextGenerationIsNew ==
    ASSUME TypeOK
    PROVE  /\ NextGeneration \in Nat \ {0}
           /\ NextGeneration - 1 \in Generations
           /\ \A h \in Generations : h < NextGeneration
<1>1. PICK g \in Generations : \A h \in Generations : h <= g
  <2>1. 0 \in Generations
    BY DEF Generations
  <2>2. QED
    BY <2>1, GenerationsTyped, LastOfBounded, ReleaseAssumption
<1> DEFINE last == CHOOSE x \in Generations : \A h \in Generations : h <= x
<1>2. last \in Generations /\ \A h \in Generations : h <= last
  BY <1>1
<1>3. NextGeneration = 1 + last
  BY DEF NextGeneration
<1> HIDE DEF last
<1>4. QED
  BY <1>2, <1>3, GenerationsTyped, ReleaseAssumption

LEMMA CommittableGeneration ==
    ASSUME FileInv, CommitPointers
    PROVE  NextGeneration \in 1..(MaxAttempts + 2) /\ attempt.cutoverStarted
<1>1. TypeOK /\ Under({"commit"}) /\ attempts \in 0..MaxAttempts
  BY DEF FileInv, TypeOK, CommitPointers, Under
<1>2. ~attempt.pointersTouched /\ ~Under({"idle"})
  BY <1>1 DEF FileInv, PointersFollow, Under, Committed, RollbackStages, TypeOK, Attempt
<1>3. NextGeneration - 1 <= attempts + 1
  BY <1>1, <1>2, NextGenerationIsNew DEF FileInv, GenerationsBounded
<1>4. attempt.cutoverStarted
  BY <1>1 DEF FileInv, Shape, Under, Serving
<1>5. QED
  BY <1>1, <1>3, <1>4, NextGenerationIsNew, ReleaseAssumption

-----------------------------------------------------------------------------
LEMMA TypesStep ==
    ASSUME FileInv, Next, attempt' \in Attempt
    PROVE  TypeOK'
<1> USE ReleaseAssumption, FailEnds, EndEnds DEF files, counts
<1>0. TypeOK /\ Shape /\ attempt \in Attempt
  BY DEF FileInv, TypeOK
<1>1. CASE Refuse
  BY <1>0, <1>1 DEF TypeOK, Refuse
<1>2. CASE \E r \in Releases : Replay(r) \/ Begin(r)
  BY <1>0, <1>2 DEF TypeOK, Replay, Begin
<1>3. CASE ResolveImage
  BY <1>0, <1>3 DEF TypeOK, ResolveImage, Shape, Under
<1>4. CASE StageBundle
  BY <1>0, <1>4 DEF TypeOK, StageBundle, Shape, Under
<1>5. CASE RenameBundle
  BY <1>0, <1>5 DEF TypeOK, RenameBundle, Shape, Under
<1>6. CASE CreateBackup
  <2>1. db # None => NewBackup \in Backup
    BY <1>0 DEF NewBackup, Backup, TypeOK
  <2>2. backups' \in Seq(Backup)
    <3>1. backups \in Seq(Backup)
      BY <1>0 DEF TypeOK
    <3>2. db # None => Append(backups, NewBackup) \in Seq(Backup)
      BY <2>1, <3>1
    <3>3. QED
      BY <1>0, <1>6, <3>1, <3>2, BackupControl
  <2>3. QED
    BY <1>0, <1>6, <2>2, BackupControl DEF TypeOK, CreateBackup
<1>7. CASE ProveCandidate
  BY <1>0, <1>7 DEF TypeOK, ProveCandidate
<1>8. CASE StopService
  <2>1. container' \in Container \cup {None}
    BY <1>0, <1>8, StopControl, ContainerTyped DEF TypeOK, StopService
  <2>2. QED
    BY <1>0, <1>8, <2>1, StopControl DEF TypeOK, StopService
<1>9. CASE RemoveService
  <2>1. container' \in Container \cup {None}
    BY <1>0, <1>9, ContainerTyped DEF TypeOK, RemoveService
  <2>2. outcome' = outcome \/ outcome' = "failed"
    BY <1>0, <1>9, AbortGoes DEF RemoveService, Aborts
  <2>3. QED
    BY <1>0, <1>9, <2>1, <2>2 DEF TypeOK, RemoveService
<1>10. CASE Snapshot
  <2>1. backups # <<>>
    BY <1>0, <1>10 DEF Shape, Under, Snapshot, BeforeBackup
  <2>2. db # None => [backups[Own] EXCEPT !.final = db] \in Backup
    BY <1>0, <2>1, LatestBackup DEF TypeOK, Backup
  <2>3. backups' \in Seq(Backup)
    BY <1>0, <1>10, <2>1, <2>2, SnapshotControl, BackupTyped DEF TypeOK
  <2>4. outcome' = outcome \/ outcome' = "failed"
    BY <1>0, <1>10, SnapshotControl DEF Aborts
  <2>5. QED
    BY <1>0, <1>10, <2>3, <2>4 DEF TypeOK, Snapshot
<1>11. CASE StartService
  <2>1. container' \in Container \cup {None} /\ outcome' = outcome
    BY <1>0, <1>11, StartControl, StartFailsTyped, ContainerTyped DEF TypeOK, Shape, Under, StartService
  <2>2. QED
    BY <1>0, <1>11, <2>1 DEF TypeOK, StartService
<1>12. CASE VerifyService
  <2>1. outcome' = outcome \/ outcome' = "failed"
    BY <1>0, <1>12, AbortGoes DEF VerifyService, Aborts
  <2>2. QED
    BY <1>0, <1>12, <2>1 DEF TypeOK, VerifyService
<1>13. CASE CommitPointers
  <2>1. NextGeneration \in 1..(MaxAttempts + 2) /\ attempt.cutoverStarted
    BY <1>0, <1>13, CommittableGeneration
  <2>2. outcome' = outcome /\ pointers' \in {pointers, NewPointers}
    <3>1. NextGeneration \in 0..(MaxAttempts + 2)
      BY <2>1
    <3>2. QED
      BY <1>0, <1>13, <2>1, <3>1, CommitControl
  <2>3. NewPointers.current \in Pointer /\ NewPointers.previous \in Pointer \cup {None}
    BY <1>0, <1>13, <2>1 DEF NewPointers, Pointer, Attempt, Shape, Under, CommitPointers
  <2>4. NewPointers \in [current: Pointer \cup {None}, previous: Pointer \cup {None}]
    BY <2>3 DEF NewPointers
  <2>5. QED
    BY <1>0, <1>13, <2>2, <2>4 DEF TypeOK, CommitPointers
<1>14. CASE AppendHistory
  <2>1. outcome' = outcome \/ outcome' = "failed"
    BY <1>0, <1>14, AbortGoes DEF AppendHistory, Aborts
  <2>2. CASE UNCHANGED history
    BY <1>0, <1>14, <2>1, <2>2 DEF TypeOK, AppendHistory
  <2>3. CASE HasRoom /\ history' = Extended("succeeded")
    <3>1. attempt.release \in Releases
      BY <1>0, <1>14 DEF AppendHistory, Shape, Under
    <3>2. QED
      BY <1>0, <1>14, <2>1, <2>3, <3>1, ExtendedTyped DEF TypeOK, AppendHistory
  <2>4. QED
    BY <1>14, <2>2, <2>3 DEF AppendHistory
<1>15. CASE ApplyRetention
  <2>1. backups # <<>>
    BY <1>0, <1>15 DEF Shape, Under, ApplyRetention, BeforeBackup
  <2>2. backups' \in Seq(Backup)
    BY <1>0, <1>15, <2>1, KeptTyped DEF ApplyRetention, TypeOK
  <2>3. QED
    BY <1>0, <1>15, <2>2 DEF TypeOK, ApplyRetention
<1>16. CASE WriteReport
  <2>1. outcome' \in {outcome, "failed", "succeeded"}
    BY <1>0, <1>16, AbortGoes DEF WriteReport, Aborts
  <2>2. owed' \subseteq Writes
    BY <1>0, <1>16, LiveWritesTyped DEF WriteReport, TypeOK
  <2>3. QED
    BY <1>0, <1>16, <2>1, <2>2 DEF TypeOK, WriteReport
<1>17. CASE RollbackStop
  <2>1. container' \in Container \cup {None}
    BY <1>0, <1>17, ContainerTyped DEF TypeOK, RollbackStop
  <2>2. QED
    BY <1>0, <1>17, <2>1 DEF TypeOK, RollbackStop
<1>18. CASE RollbackRemove
  <2>1. container' \in Container \cup {None}
    BY <1>0, <1>18, ContainerTyped DEF TypeOK, RollbackRemove
  <2>2. QED
    BY <1>0, <1>18, <2>1 DEF TypeOK, RollbackRemove
<1>19. CASE RefreshBackup
  <2>1. backups # <<>>
    BY <1>0, <1>19 DEF Shape, Under, RefreshBackup, BeforeBackup
  <2>2. db # None => [backups[Own] EXCEPT !.rollback = db] \in Backup
    BY <1>0, <2>1, LatestBackup DEF TypeOK, Backup
  <2>3. backups' \in Seq(Backup)
    BY <1>0, <1>19, <2>1, <2>2, RefreshControl, BackupTyped DEF TypeOK
  <2>4. QED
    BY <1>0, <1>19, <2>3 DEF TypeOK, RefreshBackup
<1>20. CASE MoveAside
  <2>1. backups # <<>>
    BY <1>0, <1>20 DEF Shape, Under, MoveAside, BeforeBackup
  <2>2. [backups[Own] EXCEPT !.failed = db] \in Backup
    BY <1>0, <2>1, LatestBackup DEF TypeOK, Backup
  <2>3. backups' \in Seq(Backup) /\ db' \in Database \cup {None}
    BY <1>0, <1>20, <2>1, <2>2, BackupTyped DEF TypeOK, MoveAside
  <2>4. QED
    BY <1>0, <1>20, <2>3 DEF TypeOK, MoveAside
<1>21. CASE RestoreDatabase
  <2>1. backups # <<>> /\ attempt.backup \in {"final", "rollback"}
    BY <1>0, <1>21 DEF Shape, Under, RestoreDatabase, BeforeBackup
  <2>2. BackupPath \in Database \cup {None}
    BY <1>0, <2>1, LatestBackup DEF BackupPath, Backup
  <2>3. QED
    BY <1>0, <1>21, <2>2 DEF TypeOK, RestoreDatabase
<1>22. CASE RestartPrevious
  <2>1. container' \in Container \cup {None}
    <3>1. attempt.current # None => attempt.current.release \in Releases
      BY <1>0 DEF Attempt, Pointer
    <3>2. QED
      BY <1>0, <1>22, <3>1, ContainerTyped, StartFailsTyped DEF TypeOK, RestartPrevious
  <2>2. QED
    BY <1>0, <1>22, <2>1 DEF TypeOK, RestartPrevious
<1>23. CASE VerifyPrevious
  BY <1>0, <1>23 DEF TypeOK, VerifyPrevious
<1>24. CASE RestorePointers
  <2>1. OldPointers \in [current: Pointer \cup {None}, previous: Pointer \cup {None}]
    BY <1>0 DEF OldPointers, Attempt
  <2>2. QED
    BY <1>0, <1>24, <2>1 DEF TypeOK, RestorePointers
<1>25. CASE RecordRollback
  <2>1. CASE UNCHANGED history
    BY <1>0, <1>25, <2>1 DEF TypeOK, RecordRollback
  <2>2. CASE HasRoom /\ history' = Extended("rolled_back")
    <3>1. attempt.release \in Releases
      BY <1>0, <1>25 DEF RecordRollback, Shape, Under
    <3>2. QED
      BY <1>0, <1>25, <2>2, <3>1, ExtendedTyped DEF TypeOK, RecordRollback
  <2>3. QED
    BY <1>25, <2>1, <2>2 DEF RecordRollback
<1>26. CASE ContainService
  <2>1. container' \in Container \cup {None} /\ owed' \subseteq Writes
    BY <1>0, <1>26, ContainerTyped, LiveWritesTyped DEF TypeOK, ContainService
  <2>2. QED
    BY <1>0, <1>26, <2>1 DEF TypeOK, ContainService
<1>27. CASE Migrate
  <2>1. db' \in Database
    BY <1>0, <1>27 DEF TypeOK, Migrate, Database, Container
  <2>2. QED
    BY <1>0, <1>27, <2>1 DEF TypeOK, Migrate
<1>28. CASE AcceptWrite
  <2>1. issued' \in Writes /\ issued' \in 0..MaxWrites
    BY <1>0, <1>28 DEF TypeOK, AcceptWrite, Writes
  <2>2. db' \in Database /\ owed' \subseteq Writes
    BY <1>0, <1>28, <2>1 DEF TypeOK, AcceptWrite, Database
  <2>3. QED
    BY <1>0, <1>28, <2>1, <2>2 DEF TypeOK, AcceptWrite
<1>29. CASE Crash
  BY <1>0, <1>29, LiveWritesTyped DEF TypeOK, Crash
<1>30. QED
  BY <1>1, <1>2, <1>3, <1>4, <1>5, <1>6, <1>7, <1>8, <1>9, <1>10, <1>11, <1>12, <1>13, <1>14,
     <1>15, <1>16, <1>17, <1>18, <1>19, <1>20, <1>21, <1>22, <1>23, <1>24, <1>25, <1>26, <1>27,
     <1>28, <1>29
     DEF Next, Step, Prove, Cutover, Commit, Rollback

-----------------------------------------------------------------------------
(* Each step takes the attempt from stage to stage as Shape says.             *)
LEMMA ShapeStep ==
    ASSUME FileInv, Next
    PROVE  attempt' \in Attempt /\ Shape'
<1> USE GotoGoes, EndEnds, FailEnds, AbortGoes
    DEF Shape, Under, Stages, ForwardStages, RollbackStages, Goes, GoesOn, Ends, Aborts,
        BeforeBackup, Serving, Committed, Contain
<1>0. Shape /\ attempt \in Attempt
  BY DEF FileInv, TypeOK
<1>1. CASE UNCHANGED <<attempt, backups>> /\ (UNCHANGED outcome \/ attempt.at = "idle")
  BY <1>0, <1>1
<1>2. CASE ResolveImage
  BY <1>0, <1>2 DEF ResolveImage
<1>3. CASE StageBundle
  BY <1>0, <1>3 DEF StageBundle
<1>4. CASE RenameBundle
  BY <1>0, <1>4 DEF RenameBundle
<1>5. CASE CreateBackup
  BY <1>0, <1>5, BackupControl DEF CreateBackup, NewBackup
<1>6. CASE ProveCandidate
  BY <1>0, <1>6 DEF ProveCandidate
<1>7. CASE StopService
  BY <1>0, <1>7, StopControl DEF StopService
<1>8. CASE RemoveService
  BY <1>0, <1>8 DEF RemoveService
<1>9. CASE Snapshot
  BY <1>0, <1>9, SnapshotControl DEF Snapshot
<1>10. CASE StartService
  BY <1>0, <1>10, StartControl DEF StartService
<1>11. CASE VerifyService
  BY <1>0, <1>11 DEF VerifyService
<1>12. CASE CommitPointers
  <2>1. attempt.cutoverStarted /\ NextGeneration \in 0..(MaxAttempts + 2)
    BY <1>12, CommittableGeneration
  <2>2. QED
    BY <1>0, <1>12, <2>1, CommitControl DEF CommitPointers, Commits
<1>13. CASE AppendHistory
  BY <1>0, <1>13 DEF AppendHistory
<1>14. CASE ApplyRetention
  <2>1. backups # <<>> /\ backups' \in {backups, Kept}
    BY <1>0, <1>14 DEF ApplyRetention
  <2>2. backups' # <<>>
    BY <2>1, KeptTyped DEF FileInv
  <2>3. QED
    BY <1>0, <1>14, <2>2 DEF ApplyRetention
<1>15. CASE WriteReport
  BY <1>0, <1>15 DEF WriteReport
<1>16. CASE RollbackStop
  BY <1>0, <1>16 DEF RollbackStop
<1>17. CASE RollbackRemove
  BY <1>0, <1>17 DEF RollbackRemove
<1>18. CASE RefreshBackup
  BY <1>0, <1>18, RefreshControl DEF RefreshBackup
<1>19. CASE MoveAside
  BY <1>0, <1>19 DEF MoveAside
<1>20. CASE RestoreDatabase
  BY <1>0, <1>20 DEF RestoreDatabase
<1>21. CASE RestartPrevious
  BY <1>0, <1>21 DEF RestartPrevious
<1>22. CASE VerifyPrevious
  BY <1>0, <1>22 DEF VerifyPrevious
<1>23. CASE RestorePointers
  BY <1>0, <1>23 DEF RestorePointers
<1>24. CASE RecordRollback
  BY <1>0, <1>24 DEF RecordRollback
<1>25. CASE ContainService
  BY <1>0, <1>25 DEF ContainService
<1>26. CASE Crash
  BY <1>0, <1>26 DEF Crash
<1>27. CASE \E r \in Releases : Begin(r)
  <2>1. PICK r \in Releases : Begin(r)
    BY <1>27
  <2>2. TypeOK
    BY DEF FileInv
  <2>3. QED
    BY <1>0, <2>1, <2>2, BeginControl DEF Begin, IsReplay
<1>28. CASE Refuse \/ \E r \in Releases : Replay(r)
  BY <1>1, <1>28 DEF Refuse, Replay
<1>29. CASE Migrate \/ AcceptWrite
  BY <1>1, <1>29 DEF Migrate, AcceptWrite
<1>30. QED
  BY <1>2, <1>3, <1>4, <1>5, <1>6, <1>7, <1>8, <1>9, <1>10, <1>11, <1>12, <1>13, <1>14, <1>15,
     <1>16, <1>17, <1>18, <1>19, <1>20, <1>21, <1>22, <1>23, <1>24, <1>25, <1>26, <1>27, <1>28,
     <1>29
     DEF Next, Step, Prove, Cutover, Commit, Rollback

-----------------------------------------------------------------------------
(* A step that leaves the pointers, the files and the count of attempts alone,   *)
(* and goes on, if at all, within the later stages.                            *)
Late == (ForwardStages \ {"image", "bundle", "rename"}) \cup (RollbackStages \ {"rb_history"})

Quiet ==
    /\ UNCHANGED <<pointers, history, bundles, images, attempts>>
    /\ \/ UNCHANGED attempt
       \/ Ends
       \/ \E stage \in Late \ Committed :
             /\ GoesOn(stage) /\ attempt'.pointersTouched = attempt.pointersTouched
             /\ attempt'.committed = attempt.committed
             /\ attempt.at \in Late \cup {"rb_history"}
             /\ stage \in RollbackStages \/ attempt.at \notin Committed \cup RollbackStages

LEMMA QuietStep ==
    ASSUME FileInv, Quiet, TypeOK', Shape'
    PROVE  FileInv'
<1>0. /\ attempt \in Attempt /\ attempts \in Nat
      /\ Generations \subseteq Nat
  BY GenerationsTyped, ReleaseAssumption DEF FileInv, TypeOK
<1>1. CASE UNCHANGED attempt
  BY <1>1 DEF FileInv, Quiet, PointersFollow, Under, OldPointers, PointersNew, GenerationsBounded,
     Generations, CommittedIsNew, GenerationsAreUnique, PointersAreBacked, AttemptBacked, Backed
<1>2. CASE Ends
  <2>1. /\ ~attempt'.pointersTouched /\ attempt'.committed = 0
        /\ attempt'.current = None /\ attempt'.previous = None
    BY <1>2 DEF Ends, NoAttempt
  <2>2. PointersFollow' /\ CommittedIsNew' /\ AttemptBacked'
    BY <1>2, <2>1 DEF Ends, PointersFollow, CommittedIsNew, AttemptBacked, Under, Committed
  <2>3. GenerationsBounded'
    BY <1>0, <1>2, <2>1 DEF FileInv, Ends, Quiet, GenerationsBounded, Generations, Under
  <2>4. QED
    BY <2>2, <2>3 DEF FileInv, Quiet, GenerationsAreUnique, PointersAreBacked
<1>3. ASSUME NEW stage \in Late \ Committed,
             GoesOn(stage), attempt'.pointersTouched = attempt.pointersTouched,
             attempt'.committed = attempt.committed,
             attempt.at \in Late \cup {"rb_history"},
             stage \in RollbackStages \/ attempt.at \notin Committed \cup RollbackStages
      PROVE  FileInv'
  <2>1. PointersFollow'
    BY <1>3 DEF FileInv, Quiet, GoesOn, PointersFollow, OldPointers, PointersNew, Under, Committed,
       Late, ForwardStages, RollbackStages
  <2>2. GenerationsBounded'
    BY <1>0, <1>3 DEF FileInv, GoesOn, Quiet, GenerationsBounded, Generations, Under, Late,
       ForwardStages, RollbackStages
  <2>3. CommittedIsNew' /\ AttemptBacked'
    BY <1>3 DEF FileInv, GoesOn, Quiet, CommittedIsNew, AttemptBacked, Backed, Under, Committed,
       Late, ForwardStages, RollbackStages
  <2>4. QED
    BY <2>1, <2>2, <2>3 DEF FileInv, Quiet, GenerationsAreUnique, PointersAreBacked
<1>4. QED
  BY <1>1, <1>2, <1>3 DEF Quiet

(* Which steps are quiet.                                                      *)
QuietActions ==
    \/ Refuse \/ \E r \in Releases : Replay(r)
    \/ CreateBackup \/ ProveCandidate \/ Cutover \/ WriteReport
    \/ RollbackStop \/ RollbackRemove \/ RefreshBackup \/ MoveAside \/ RestoreDatabase
    \/ RestartPrevious \/ VerifyPrevious \/ ContainService
    \/ Migrate \/ AcceptWrite \/ Crash

LEMMA QuietActionsAreQuiet ==
    ASSUME attempt \in Attempt, QuietActions
    PROVE  Quiet
<1> USE GotoGoes, EndEnds, FailEnds, AbortGoes
    DEF Quiet, Late, Stages, ForwardStages, RollbackStages, Committed, Goes, Aborts, Contain,
        files, counts
<1>1. CASE Refuse \/ \E r \in Releases : Replay(r)
  BY <1>1 DEF Refuse, Replay
<1>2. CASE CreateBackup
  BY <1>2, BackupControl DEF CreateBackup
<1>3. CASE ProveCandidate
  BY <1>3 DEF ProveCandidate
<1>4. CASE StopService
  BY <1>4, StopControl DEF StopService
<1>5. CASE RemoveService
  BY <1>5 DEF RemoveService
<1>6. CASE Snapshot
  BY <1>6, SnapshotControl DEF Snapshot
<1>7. CASE StartService
  BY <1>7, StartControl DEF StartService
<1>8. CASE VerifyService
  BY <1>8 DEF VerifyService
<1>9. CASE WriteReport
  BY <1>9 DEF WriteReport
<1>10. CASE RollbackStop
  BY <1>10 DEF RollbackStop
<1>11. CASE RollbackRemove
  BY <1>11 DEF RollbackRemove
<1>12. CASE RefreshBackup
  BY <1>12, RefreshControl DEF RefreshBackup
<1>13. CASE MoveAside
  BY <1>13 DEF MoveAside
<1>14. CASE RestoreDatabase
  BY <1>14 DEF RestoreDatabase
<1>15. CASE RestartPrevious
  BY <1>15 DEF RestartPrevious
<1>16. CASE VerifyPrevious
  BY <1>16 DEF VerifyPrevious
<1>17. CASE ContainService
  BY <1>17 DEF ContainService
<1>18. CASE Migrate \/ AcceptWrite
  BY <1>18 DEF Migrate, AcceptWrite
<1>19. CASE Crash
  BY <1>19 DEF Crash
<1>20. QED
  BY <1>1, <1>2, <1>3, <1>4, <1>5, <1>6, <1>7, <1>8, <1>9, <1>10, <1>11, <1>12, <1>13, <1>14,
     <1>15, <1>16, <1>17, <1>18, <1>19 DEF QuietActions, Cutover

-----------------------------------------------------------------------------
(* The other steps, with what each disturbs.                                   *)

LEMMA BeginFiles ==
    ASSUME FileInv, NEW r \in Releases, Begin(r), TypeOK', Shape'
    PROVE  FileInv'
<1> USE DEF Begin, files, counts
<1>1. /\ attempt'.at = "image" /\ ~attempt'.pointersTouched /\ attempt'.committed = 0
      /\ attempt'.current = pointers.current /\ attempt'.previous = pointers.previous
  BY BeginControl DEF FileInv
<1>2. PointersFollow'
  <2>1. pointers' = OldPointers'
    BY <1>1 DEF FileInv, TypeOK, OldPointers
  <2>2. QED
    BY <1>1, <2>1 DEF PointersFollow, Under, Committed
<1>3. GenerationsBounded'
  <2>1. Generations \subseteq Nat /\ attempts \in Nat
    BY GenerationsTyped, ReleaseAssumption DEF FileInv, TypeOK
  <2>2. Generations' = Generations /\ attempts' = attempts + 1
    BY DEF Generations
  <2>3. \A p \in {pointers.current, pointers.previous} \ {None} : p.generation \in Generations
    BY DEF Generations
  <2>4. QED
    BY <1>1, <2>1, <2>2, <2>3 DEF FileInv, GenerationsBounded, Under
<1>4. CommittedIsNew'
  BY <1>1 DEF CommittedIsNew, Under
<1>5. AttemptBacked'
  BY <1>1 DEF FileInv, PointersAreBacked, AttemptBacked, Backed, Under
<1>6. QED
  BY <1>2, <1>3, <1>4, <1>5 DEF FileInv, GenerationsAreUnique, PointersAreBacked

(* Before the backup: image, bundle and staging directory come about.          *)
LEMMA ProveFiles ==
    ASSUME FileInv, ResolveImage \/ StageBundle \/ RenameBundle, TypeOK', Shape'
    PROVE  FileInv'
<1>0. attempt \in Attempt /\ attempt.release \in Releases /\ TypeOK
  BY DEF FileInv, TypeOK, Shape, Under, ResolveImage, StageBundle, RenameBundle
<1> USE <1>0, GotoGoes, FailEnds
    DEF Stages, ForwardStages, RollbackStages, Goes, GoesOn, Ends, Under, Committed, files, counts
<1>1. /\ UNCHANGED <<pointers, history, attempts>>
      /\ bundles \subseteq bundles' /\ images \subseteq images'
  BY DEF ResolveImage, StageBundle, RenameBundle
<1>2. \/ /\ Ends /\ ~attempt'.pointersTouched /\ attempt'.committed = 0
         /\ attempt'.current = None /\ attempt'.previous = None
      \/ \E stage \in {"bundle", "rename", "backup"} :
            /\ GoesOn(stage) /\ attempt'.pointersTouched = attempt.pointersTouched
            /\ attempt'.committed = attempt.committed
  BY DEF ResolveImage, StageBundle, RenameBundle, NoAttempt
<1>3. attempt.at \in {"image", "bundle", "rename"} /\ ~attempt.pointersTouched
  BY DEF FileInv, PointersFollow, ResolveImage, StageBundle, RenameBundle, Attempt
<1>4. PointersFollow'
  BY <1>1, <1>2, <1>3 DEF FileInv, PointersFollow, OldPointers
<1>5. GenerationsBounded'
  <2>1. Generations \subseteq Nat /\ attempts \in Nat
    BY GenerationsTyped, ReleaseAssumption DEF TypeOK
  <2>2. Generations' = Generations
    BY <1>1 DEF Generations
  <2>3. /\ \A g \in Generations : g <= attempts + 1
        /\ attempt.committed <= attempts + 2
        /\ \A p \in {attempt.current, attempt.previous} \ {None} : p.generation <= attempts + 2
    BY <1>3 DEF FileInv, GenerationsBounded
  <2>4. /\ attempt'.committed \in {0, attempt.committed} /\ attempts' = attempts
        /\ \A p \in {attempt'.current, attempt'.previous} \ {None} :
              p \in {attempt.current, attempt.previous}
    BY <1>1, <1>2
  <2>5. \A g \in Generations' : g <= attempts' + 1 /\ g <= attempts' + 2
    BY <2>1, <2>2, <2>3, <2>4
  <2>6. attempt'.committed <= attempts' + 2
    BY <2>1, <2>3, <2>4
  <2>7. QED
    BY <2>3, <2>4, <2>5, <2>6 DEF GenerationsBounded
<1>6. CommittedIsNew'
  BY <1>2 DEF CommittedIsNew
<1>7. AttemptBacked'
  <2>1. CASE ResolveImage
    BY <1>1, <2>1 DEF FileInv, AttemptBacked, Backed, ResolveImage
  <2>2. CASE StageBundle
    BY <1>1, <2>2 DEF FileInv, AttemptBacked, Backed, StageBundle
  <2>3. CASE RenameBundle
    BY <1>1, <2>3 DEF FileInv, AttemptBacked, Backed, RenameBundle
  <2>4. QED
    BY <2>1, <2>2, <2>3
<1>8. PointersAreBacked' /\ GenerationsAreUnique'
  BY <1>1 DEF FileInv, PointersAreBacked, GenerationsAreUnique
<1>9. QED
  BY <1>4, <1>5, <1>6, <1>7, <1>8 DEF FileInv

LEMMA CommitFiles ==
    ASSUME FileInv, CommitPointers, TypeOK', Shape'
    PROVE  FileInv'
<1> USE DEF CommitPointers, files, counts
<1>0. /\ TypeOK /\ attempt \in Attempt /\ attempt.at = "commit" /\ ~attempt.pointersTouched
      /\ attempt.release \in Releases
  BY DEF FileInv, TypeOK, PointersFollow, Shape, Under, Committed, RollbackStages, Attempt
<1>1. pointers.current = attempt.current /\ pointers.previous = attempt.previous
  BY <1>0 DEF FileInv, PointersFollow, Under, OldPointers
<1>2. attempt.cutoverStarted /\ NextGeneration \in 0..(MaxAttempts + 2)
  BY CommittableGeneration
<1>3. \/ /\ pointers' = NewPointers /\ Commits("history", NextGeneration)
      \/ pointers' \in {pointers, NewPointers} /\ Commits("rb_stop", attempt.committed)
      \/ Goes("rb_stop", attempt.backup, attempt.cutoverStarted) /\ UNCHANGED pointers
  BY <1>0, <1>2, CommitControl
<1>4. /\ NewPointers.current # None /\ NewPointers.current.release = attempt.release
      /\ NewPointers.current.generation = NextGeneration /\ NewPointers.previous = attempt.current
  <2>1. NewPointers.current \in Pointer
    BY <1>0, <1>2, NextGenerationIsNew DEF NewPointers, Pointer
  <2>2. QED
    BY <2>1, NoneAssumption DEF NewPointers
<1>5. PointersFollow'
  <2>1. pointers' = NewPointers /\ GoesOn(attempt'.at) => PointersNew'
    BY <1>4 DEF GoesOn, PointersNew
  <2>2. pointers' = pointers /\ GoesOn(attempt'.at) => pointers' = OldPointers'
    BY <1>0 DEF FileInv, PointersFollow, Under, OldPointers, GoesOn
  <2>3. QED
    BY <1>0, <1>3, <2>1, <2>2 DEF PointersFollow, Under, Committed, Commits, Goes, GoesOn, RollbackStages
<1>6. GenerationsBounded'
  <2>1. Generations \subseteq Nat /\ attempts \in Nat /\ attempts' = attempts
    BY <1>0, GenerationsTyped, ReleaseAssumption DEF TypeOK
  <2>2. \A g \in Generations : g <= attempts + 1
    BY <1>0 DEF FileInv, GenerationsBounded, Under
  <2>3. NextGeneration <= attempts + 2
    BY <1>0, <2>1, <2>2, NextGenerationIsNew
  <2>4. Generations' \subseteq Generations \cup {NextGeneration}
    <3>1. \A p \in {pointers'.current, pointers'.previous} \ {None} :
              p \in {pointers.current, pointers.previous} \/ p.generation = NextGeneration
      BY <1>1, <1>3, <1>4
    <3>2. QED
      BY <3>1 DEF Generations
  <2>5. attempt'.committed \in {attempt.committed, NextGeneration}
    BY <1>3 DEF Commits, Goes
  <2>6. attempt'.pointersTouched \/ Generations' = Generations
    BY <1>3 DEF Commits, Generations
  <2>7. QED
    BY <1>0, <1>3, <2>1, <2>2, <2>3, <2>4, <2>5, <2>6
       DEF FileInv, GenerationsBounded, Under, Commits, Goes, GoesOn
<1>7. CommittedIsNew'
  <2>1. \A i \in DOMAIN history : history[i].generation \in Generations
    BY DEF Generations
  <2>2. QED
    BY <1>0, <1>3, <2>1, NextGenerationIsNew DEF CommittedIsNew, Under, Commits, Goes, GoesOn
<1>8. Backed(attempt.release) /\ AttemptBacked'
  BY <1>0, <1>3 DEF FileInv, AttemptBacked, Backed, Under, Commits, Goes, GoesOn
<1>9. PointersAreBacked'
  BY <1>1, <1>3, <1>4, <1>8 DEF FileInv, PointersAreBacked, Backed
<1>10. GenerationsAreUnique'
  BY DEF FileInv, GenerationsAreUnique
<1>11. QED
  BY <1>5, <1>6, <1>7, <1>8, <1>9, <1>10 DEF FileInv

(* A new entry of the history: of the generation that the attempt committed, or of *)
(* a rollback.                                                                 *)
LEMMA ExtendedHistory ==
    ASSUME FileInv, HasRoom, attempt.release \in Releases,
           NEW how \in {"succeeded", "rolled_back"}, history' = Extended(how),
           how = "succeeded" => attempt.at = "history"
    PROVE  /\ GenerationsAreUnique'
           /\ \A i \in DOMAIN history' :
                 history'[i].generation = attempt.committed
                 \/ (i \in DOMAIN history /\ history'[i] = history[i])
<1>0. TypeOK /\ Len(history) \in Nat /\ DOMAIN history = 1..Len(history)
  BY DEF FileInv, TypeOK
<1> DEFINE n == Len(history')
<1>1. /\ n = Len(history) + 1 /\ history'[n].generation = attempt.committed
      /\ history'[n].outcome = how
      /\ DOMAIN history' = 1..n
      /\ \A i \in DOMAIN history : i \in DOMAIN history' /\ history'[i] = history[i]
  <2>1. history' \in Seq([generation: 0..(MaxAttempts + 2), release: Releases,
                          outcome: {"succeeded", "rolled_back"}])
        /\ Len(history') = Len(history) + 1
        /\ history'[Len(history')] = [generation |-> attempt.committed,
                                      release |-> attempt.release, outcome |-> how]
        /\ \A i \in DOMAIN history : i \in DOMAIN history' /\ history'[i] = history[i]
    BY <1>0, ExtendedTyped
  <2>2. QED
    BY <2>1
<1> HIDE DEF n
<1>2. \A i \in DOMAIN history' : i = n \/ (i \in DOMAIN history /\ history'[i] = history[i])
  BY <1>0, <1>1
<1>3. \A i \in DOMAIN history : how = "succeeded" => history[i].generation # attempt.committed
  <2>1. \A i \in DOMAIN history : how = "succeeded" => history[i].generation < attempt.committed
    BY DEF FileInv, CommittedIsNew, Under
  <2>2. \A i \in DOMAIN history : history[i].generation \in Nat
    <3>1. \A i \in DOMAIN history : history[i].generation \in Generations
      BY DEF Generations
    <3>2. QED
      BY <1>0, <3>1, GenerationsTyped, ReleaseAssumption
  <2>3. QED
    BY <2>1, <2>2
<1>4. GenerationsAreUnique'
  BY <1>1, <1>2, <1>3 DEF FileInv, GenerationsAreUnique
<1>5. QED
  BY <1>1, <1>2, <1>4

LEMMA HistoryFiles ==
    ASSUME FileInv, AppendHistory \/ RecordRollback, TypeOK', Shape'
    PROVE  FileInv'
<1>0. /\ TypeOK /\ attempt \in Attempt /\ attempt.at \in {"history", "rb_history"}
      /\ attempt.release \in Releases /\ attempt.pointersTouched
      /\ attempts \in Nat
  BY ReleaseAssumption DEF FileInv, TypeOK, Shape, Under, PointersFollow, Committed, AppendHistory,
     RecordRollback
<1>1. UNCHANGED <<pointers, bundles, images, attempts>>
  BY DEF AppendHistory, RecordRollback, counts
<1>2. \/ /\ Ends /\ ~attempt'.pointersTouched /\ attempt'.committed = 0
         /\ attempt'.current = None /\ attempt'.previous = None
      \/ \E stage \in {"retention", "rb_stop", "contain"} :
            /\ GoesOn(stage) /\ attempt'.pointersTouched = attempt.pointersTouched
            /\ attempt'.committed = attempt.committed
            /\ stage = "retention" => attempt.at = "history"
  <2>1. Abort(attempt) /\ attempt.at = "history" => Goes("rb_stop", attempt.backup, attempt.cutoverStarted)
    BY <1>0, AbortGoes DEF FileInv, Shape, Under, Serving, Committed, Aborts
  <2>2. /\ Goto("retention") => Goes("retention", attempt.backup, attempt.cutoverStarted)
        /\ Contain => Goes("contain", attempt.backup, attempt.cutoverStarted)
    BY <1>0, GotoGoes DEF Stages, ForwardStages, RollbackStages, Contain
  <2>3. Ends => /\ ~attempt'.pointersTouched /\ attempt'.committed = 0
                /\ attempt'.current = None /\ attempt'.previous = None
    BY DEF Ends, NoAttempt
  <2>4. QED
    BY <1>0, <2>1, <2>2, <2>3, EndEnds DEF AppendHistory, RecordRollback, Goes
<1>3. /\ GenerationsAreUnique'
      /\ \A i \in DOMAIN history' : history'[i].generation = attempt.committed
            \/ (i \in DOMAIN history /\ history'[i] = history[i])
  <2>1. \/ UNCHANGED history
        \/ HasRoom /\ history' = Extended("succeeded") /\ attempt.at = "history"
        \/ HasRoom /\ history' = Extended("rolled_back")
    BY DEF AppendHistory, RecordRollback
  <2>2. QED
    BY <1>0, <2>1, ExtendedHistory DEF FileInv, GenerationsAreUnique
<1>4. PointersFollow'
  BY <1>0, <1>1, <1>2 DEF FileInv, PointersFollow, OldPointers, PointersNew, Under, Committed,
     RollbackStages, Ends, GoesOn
<1>5. GenerationsBounded'
  <2>1. Generations' \subseteq Generations \cup {attempt.committed}
    BY <1>1, <1>3 DEF Generations
  <2>2. Generations \subseteq Nat /\ attempt.committed \in Nat
    BY <1>0, GenerationsTyped, ReleaseAssumption DEF Attempt
  <2>3. /\ \A g \in Generations : g <= attempts + 2
        /\ attempt.committed <= attempts + 2
    BY <1>0, <2>2 DEF FileInv, GenerationsBounded
  <2>4. attempt'.at = "idle" \/ attempt'.pointersTouched
    BY <1>0, <1>2 DEF Ends
  <2>5. attempt'.committed <= attempts' + 2
    <3>1. attempt'.committed \in {0, attempt.committed} /\ attempts' = attempts
      BY <1>1, <1>2
    <3>2. QED
      BY <1>0, <2>3, <3>1
  <2>7. \A p \in {attempt'.current, attempt'.previous} \ {None} :
            p \in {attempt.current, attempt.previous}
    BY <1>2 DEF GoesOn
  <2>6. QED
    BY <1>0, <1>1, <2>1, <2>3, <2>4, <2>5, <2>7 DEF FileInv, GenerationsBounded, Under
<1>6. CommittedIsNew' /\ AttemptBacked'
  BY <1>0, <1>1, <1>2 DEF FileInv, CommittedIsNew, AttemptBacked, Backed, Under, Ends, GoesOn
<1>7. QED
  BY <1>1, <1>3, <1>4, <1>5, <1>6 DEF FileInv, PointersAreBacked

(* Retention spares what the pointers name, before the commit and after it.    *)
LEMMA RetentionFiles ==
    ASSUME FileInv, ApplyRetention, TypeOK', Shape'
    PROVE  FileInv'
<1> USE DEF ApplyRetention, files, counts
<1>0. /\ TypeOK /\ attempt \in Attempt /\ attempt.at = "retention" /\ PointersNew
  BY DEF FileInv, TypeOK, PointersFollow, Under, Committed
<1>1. Goes("report", attempt.backup, attempt.cutoverStarted)
  BY <1>0, GotoGoes DEF Stages, ForwardStages
<1>2. \A r \in Protected : (r \in bundles => r \in bundles') /\ (r \in images => r \in images')
  BY DEF Prunable
<1>3. /\ attempt.release \in Protected
      /\ \A p \in {attempt.current, attempt.previous} \ {None} : p.release \in Protected
  BY DEF Protected
<1>4. AttemptBacked'
  BY <1>0, <1>1, <1>2, <1>3 DEF FileInv, AttemptBacked, Backed, Under, Goes, GoesOn
<1>5. PointersAreBacked'
  BY <1>0, <1>2, <1>3 DEF FileInv, PointersAreBacked, PointersNew
<1>6. PointersFollow'
  BY <1>0, <1>1 DEF FileInv, PointersFollow, PointersNew, Under, Committed, Goes, GoesOn
<1>7. GenerationsBounded'
  BY <1>0, <1>1 DEF FileInv, GenerationsBounded, Generations, Under, Goes, GoesOn
<1>8. CommittedIsNew' /\ GenerationsAreUnique'
  BY <1>1 DEF FileInv, CommittedIsNew, GenerationsAreUnique, Under, Goes, GoesOn
<1>9. QED
  BY <1>4, <1>5, <1>6, <1>7, <1>8 DEF FileInv

(* What a late rollback puts back is still there.                              *)
LEMMA RestorePointersFiles ==
    ASSUME FileInv, RestorePointers, TypeOK', Shape'
    PROVE  FileInv'
<1> USE DEF RestorePointers, files, counts
<1>0. /\ TypeOK /\ attempt \in Attempt /\ attempt.at = "rb_pointers" /\ attempts \in Nat
      /\ Generations \subseteq Nat
  BY GenerationsTyped, ReleaseAssumption DEF FileInv, TypeOK
<1>1. \/ /\ Ends /\ ~attempt'.pointersTouched /\ attempt'.committed = 0 /\ UNCHANGED pointers
         /\ attempt'.current = None /\ attempt'.previous = None
      \/ /\ attempt.pointersTouched
         /\ \E stage \in {"rb_history", "contain"} :
               /\ Goes(stage, attempt.backup, attempt.cutoverStarted)
               /\ pointers' \in {pointers, OldPointers}
               /\ stage = "rb_history" => pointers' = OldPointers
  <2>1. /\ Goto("rb_history") => Goes("rb_history", attempt.backup, attempt.cutoverStarted)
        /\ Contain => Goes("contain", attempt.backup, attempt.cutoverStarted)
    BY <1>0, GotoGoes DEF Stages, RollbackStages, Contain
  <2>2. Ends => /\ ~attempt'.pointersTouched /\ attempt'.committed = 0
                /\ attempt'.current = None /\ attempt'.previous = None
    BY DEF Ends, NoAttempt
  <2>3. QED
    BY <2>1, <2>2, EndEnds
<1>2. PointersFollow'
  BY <1>0, <1>1 DEF FileInv, PointersFollow, OldPointers, PointersNew, Under, Committed,
     RollbackStages, Ends, Goes, GoesOn
<1>3. GenerationsBounded'
  <2>1. \A p \in {pointers'.current, pointers'.previous, attempt'.current, attempt'.previous} \ {None} :
            p \in {pointers.current, pointers.previous, attempt.current, attempt.previous}
    BY <1>1 DEF OldPointers, Ends, Goes, GoesOn
  <2>2. \A g \in Generations' :
            \/ g \in Generations
            \/ \E p \in {attempt.current, attempt.previous} \ {None} : g = p.generation
    BY <2>1 DEF Generations
  <2>3. \A g \in Generations : g <= attempts + 2
    BY <1>0 DEF FileInv, GenerationsBounded
  <2>4. \/ UNCHANGED pointers /\ attempt'.at = "idle"
        \/ attempt'.pointersTouched
    BY <1>1 DEF Ends, Goes
  <2>5. attempt'.committed \in {0, attempt.committed} /\ attempts' = attempts
    BY <1>1 DEF Goes
  <2>6. attempt'.committed <= attempts' + 2
    BY <1>0, <2>5 DEF FileInv, GenerationsBounded
  <2>7. \A p \in {attempt'.current, attempt'.previous} \ {None} :
            p \in {attempt.current, attempt.previous}
    BY <1>1 DEF Goes, GoesOn
  <2>8. \A g \in Generations' : g <= attempts' + 2
    BY <2>2, <2>3, <2>5 DEF FileInv, GenerationsBounded
  <2>9. QED
    BY <2>4, <2>5, <2>6, <2>7, <2>8 DEF FileInv, GenerationsBounded, Under
<1>4. CommittedIsNew' /\ AttemptBacked'
  BY <1>0, <1>1 DEF FileInv, CommittedIsNew, AttemptBacked, Backed, Under, Ends, Goes, GoesOn
<1>5. PointersAreBacked'
  BY <1>0, <1>1 DEF FileInv, PointersAreBacked, AttemptBacked, Backed, Under, OldPointers
<1>6. QED
  BY <1>2, <1>3, <1>4, <1>5 DEF FileInv, GenerationsAreUnique

-----------------------------------------------------------------------------
LEMMA FileInvStep == FileInv /\ [Next]_vars => FileInv'
<1> SUFFICES ASSUME FileInv, [Next]_vars
             PROVE  FileInv'
  OBVIOUS
<1>1. CASE UNCHANGED vars
  BY <1>1 DEF vars, files, counts, FileInv, TypeOK, Shape, Under, PointersFollow, OldPointers,
     PointersNew, GenerationsBounded, Generations, CommittedIsNew, GenerationsAreUnique,
     PointersAreBacked, AttemptBacked, Backed
<1>2. CASE Next
  <2>1. TypeOK' /\ Shape'
    BY <1>2, ShapeStep, TypesStep
  <2>2. CASE QuietActions
    BY <2>1, <2>2, QuietStep, QuietActionsAreQuiet DEF FileInv, TypeOK
  <2>3. CASE \E r \in Releases : Begin(r)
    BY <2>1, <2>3, BeginFiles
  <2>4. CASE ResolveImage \/ StageBundle \/ RenameBundle
    BY <2>1, <2>4, ProveFiles
  <2>5. CASE CommitPointers
    BY <2>1, <2>5, CommitFiles
  <2>6. CASE AppendHistory \/ RecordRollback
    BY <2>1, <2>6, HistoryFiles
  <2>7. CASE ApplyRetention
    BY <2>1, <2>7, RetentionFiles
  <2>8. CASE RestorePointers
    BY <2>1, <2>8, RestorePointersFiles
  <2>9. QED
    BY <1>2, <2>2, <2>3, <2>4, <2>5, <2>6, <2>7, <2>8
       DEF Next, Step, Prove, Commit, Rollback, QuietActions
<1>3. QED
  BY <1>1, <1>2

LEMMA FileInvInit == Init => FileInv
<1> SUFFICES ASSUME Init
             PROVE  FileInv
  OBVIOUS
<1> USE ReleaseAssumption, NoneAssumption
<1>1. attempt = NoAttempt /\ attempt \in Attempt /\ attempts = 0 /\ outcome = "none"
  BY DEF Init, NoAttempt, Attempt
<1>2. TypeOK
  <2> DEFINE Entry == [generation: 0..(MaxAttempts + 2), release: Releases,
                       outcome: {"succeeded", "rolled_back"}]
  <2>1. CASE /\ pointers = [current |-> None, previous |-> None] /\ history = <<>>
             /\ container = None /\ db = [schema |-> BaseSchema, writes |-> {}]
    <3>1. history \in Seq(Entry) /\ Len(history) = 0
      BY <2>1
    <3>2. QED
      BY <1>1, <2>1, <3>1 DEF Init, TypeOK, Database
  <2>2. ASSUME NEW old \in Releases, NEW new \in Releases,
               pointers = [current |-> [release |-> new, generation |-> 2],
                           previous |-> [release |-> old, generation |-> 1]],
               history = <<[generation |-> 1, release |-> old, outcome |-> "succeeded"],
                           [generation |-> 2, release |-> new, outcome |-> "succeeded"]>>,
               container = Running(new), db = [schema |-> Schema[new], writes |-> {}]
        PROVE  TypeOK
    <3>1. /\ [generation |-> 1, release |-> old, outcome |-> "succeeded"] \in Entry
          /\ [generation |-> 2, release |-> new, outcome |-> "succeeded"] \in Entry
      OBVIOUS
    <3> HIDE DEF Entry
    <3>2. history \in Seq(Entry) /\ Len(history) = 2
      BY <2>2, <3>1
    <3>3. pointers.current \in Pointer /\ pointers.previous \in Pointer
      BY <2>2 DEF Pointer
    <3>4. container \in Container
      BY <2>2 DEF Running, Container
    <3>5. db \in Database
      BY <2>2 DEF Database
    <3>6. pointers \in [current: Pointer \cup {None}, previous: Pointer \cup {None}]
      BY <2>2, <3>3
    <3>7. bundles \subseteq Releases /\ images \subseteq Releases
      BY DEF Init
    <3>8. QED
      BY <1>1, <3>2, <3>4, <3>5, <3>6, <3>7 DEF Init, TypeOK, Entry
  <2>3. QED
    BY <2>1, <2>2 DEF Init
<1>3. Shape
  BY <1>1 DEF Shape, Under, NoAttempt, BeforeBackup, Serving, Committed
<1>4. PointersFollow /\ CommittedIsNew /\ AttemptBacked
  BY <1>1 DEF PointersFollow, CommittedIsNew, AttemptBacked, Under, NoAttempt, Committed
<1>5. GenerationsBounded
  <2>1. \A i \in DOMAIN history : history[i].generation \in {1, 2}
    BY DEF Init
  <2>2. \A p \in {pointers.current, pointers.previous} \ {None} : p.generation \in {1, 2}
    BY DEF Init
  <2>3. QED
    BY <1>1, <2>1, <2>2 DEF GenerationsBounded, Generations, Under, NoAttempt
<1>6. GenerationsAreUnique /\ PointersAreBacked
  BY DEF Init, GenerationsAreUnique, PointersAreBacked
<1>7. QED
  BY <1>2, <1>3, <1>4, <1>5, <1>6 DEF FileInv

LEMMA FilesStaySound == Spec => []FileInv
<1>1. QED
  BY FileInvInit, FileInvStep, PTL DEF Spec

-----------------------------------------------------------------------------
(* The service and its database, when "container inspect" tells the truth.     *)
LEMMA ServiceFields ==
    \A r \in Releases :
        /\ Running(r) # None /\ Running(r).release = r /\ Running(r).running
        /\ Stopped(r) # None /\ Stopped(r).release = r /\ ~Stopped(r).running
<1> SUFFICES ASSUME NEW r \in Releases
             PROVE  /\ Running(r) # None /\ Running(r).release = r /\ Running(r).running
                    /\ Stopped(r) # None /\ Stopped(r).release = r /\ ~Stopped(r).running
  OBVIOUS
<1>1. Running(r) \in Container /\ Stopped(r) \in Container
  BY DEF Running, Stopped, Container
<1>2. QED
  BY <1>1, NoneAssumption DEF Running, Stopped

LEMMA AttemptFields ==
    ASSUME FileInv
    PROVE  /\ attempt \in Attempt /\ Shape
           /\ container \in Container \cup {None}
           /\ attempt.at # "idle" => attempt.release \in Releases
           /\ attempt.current # None => attempt.current.release \in Releases
           /\ pointers.current # None => pointers.current.release \in Releases
           /\ container # None => container.release \in Releases
           /\ backups # <<>> => Own \in DOMAIN backups /\ backups[Own] \in Backup
BY LatestBackup DEF FileInv, TypeOK, Shape, Under, Attempt, Pointer, Container

LEMMA MigrateKeeps ==
    ASSUME TypeOK, Migrate
    PROVE  /\ db' \in Database /\ db' # None
           /\ db'.schema = Schema[container.release] /\ db'.writes = db.writes
BY NoneAssumption DEF TypeOK, Migrate, Database, Container

LEMMA AcceptAdds ==
    ASSUME TypeOK, AcceptWrite
    PROVE  /\ db' \in Database /\ db' # None
           /\ db'.schema = db.schema /\ db'.writes = db.writes \cup {issued'}
<1>1. issued' \in Writes
  BY ReleaseAssumption DEF TypeOK, AcceptWrite, Writes
<1>2. QED
  BY <1>1, NoneAssumption DEF TypeOK, AcceptWrite, Database

LEMMA ContainerStep ==
    ASSUME FileInv, ServiceInv, ~InspectMayFail, Next, TypeOK', Shape'
    PROVE  ContainerFollows'
<1>0. TypeOK /\ ServiceInv
  BY DEF FileInv
<1> USE <1>0, AttemptFields, ServiceFields, NoneAssumption, GotoGoes, EndEnds, FailEnds, AbortGoes
    DEF Shape, Under, Stages, ForwardStages, RollbackStages, Goes, GoesOn, Ends, Aborts, NoAttempt,
        Looks, Contain, ServiceInv, Before, BeforeBackup, Serving, Committed,
        ContainerFollows, Former
<1>1. CASE Refuse \/ \E r \in Releases : Replay(r)
  BY <1>1 DEF Refuse, Replay
<1>2. CASE \E r \in Releases : Begin(r)
  <2>1. PICK r \in Releases : Begin(r)
    BY <1>2
  <2>2. container = IF pointers.current = None THEN None ELSE Running(pointers.current.release)
    BY <2>1 DEF Begin, VerifiedCurrent
  <2>3. QED
    BY <2>1, <2>2, BeginControl DEF Begin
<1>3. CASE ResolveImage
  BY <1>3 DEF ResolveImage
<1>4. CASE StageBundle
  BY <1>4 DEF StageBundle
<1>5. CASE RenameBundle
  BY <1>5 DEF RenameBundle
<1>6. CASE CreateBackup
  BY <1>6, BackupControl DEF CreateBackup, NewBackup
<1>7. CASE ProveCandidate
  BY <1>7 DEF ProveCandidate
<1>8. CASE StopService
  <2>1. container = Former /\ attempt.backup = "pre"
    BY <1>8 DEF StopService
  <2>2. /\ container = None <=> attempt.current = None
        /\ container # None => container.release = attempt.current.release
    BY <2>1
  <2>3. CASE Goes("snapshot", attempt.backup, attempt.cutoverStarted) /\ Looks(None)
             /\ UNCHANGED container
    BY <2>2, <2>3
  <2>4. CASE Ends
    BY <2>4
  <2>5. CASE Goes("remove", attempt.backup, TRUE) /\ container # None
             /\ container' = Stopped(container.release)
    BY <2>1, <2>2, <2>5
  <2>6. CASE Goes("rb_stop", attempt.backup, TRUE) /\ container # None
             /\ container' \in MaybeStopped
    BY <2>1, <2>2, <2>6 DEF MaybeStopped
  <2>7. QED
    BY <1>8, <2>3, <2>4, <2>5, <2>6, StopControl
<1>9. CASE RemoveService
  BY <1>9 DEF RemoveService, MaybeRemoved
<1>10. CASE Snapshot
  BY <1>10, SnapshotControl DEF Snapshot
<1>11. CASE StartService
  <2>1. container = None /\ attempt.backup = "final" /\ attempt.release \in Releases
    BY <1>11 DEF StartService
  <2>2. QED
    BY <1>11, <2>1, StartControl DEF StartFails
<1>12. CASE VerifyService
  BY <1>12 DEF VerifyService, Serves
<1>13. CASE CommitPointers
  <2>1. attempt.cutoverStarted /\ NextGeneration \in 0..(MaxAttempts + 2)
    BY <1>13, CommittableGeneration
  <2>2. QED
    BY <1>13, <2>1, CommitControl DEF CommitPointers, Commits, NewPointers
<1>14. CASE AppendHistory
  BY <1>14 DEF AppendHistory
<1>15. CASE ApplyRetention
  BY <1>15 DEF ApplyRetention
<1>16. CASE WriteReport
  BY <1>16 DEF WriteReport
<1>17. CASE RollbackStop
  BY <1>17 DEF RollbackStop, MaybeStopped
<1>18. CASE RollbackRemove
  BY <1>18 DEF RollbackRemove, MaybeRemoved
<1>19. CASE RefreshBackup
  BY <1>19, RefreshControl DEF RefreshBackup, MustRefresh
<1>20. CASE MoveAside
  BY <1>20 DEF MoveAside
<1>21. CASE RestoreDatabase
  BY <1>21 DEF RestoreDatabase, BackupPath
<1>22. CASE RestartPrevious
  BY <1>22 DEF RestartPrevious, StartFails
<1>23. CASE VerifyPrevious
  BY <1>23 DEF VerifyPrevious, Serves
<1>24. CASE RestorePointers
  BY <1>24 DEF RestorePointers
<1>25. CASE RecordRollback
  BY <1>25 DEF RecordRollback
<1>26. CASE ContainService
  BY <1>26 DEF ContainService, MaybeStopped, MaybeRemoved
<1>27. CASE Migrate
  BY <1>27, MigrateKeeps DEF Migrate
<1>28. CASE AcceptWrite
  BY <1>28, AcceptAdds DEF AcceptWrite
<1>29. CASE Crash
  BY <1>29 DEF Crash
<1>30. QED
  BY <1>1, <1>2, <1>3, <1>4, <1>5, <1>6, <1>7, <1>8, <1>9, <1>10, <1>11, <1>12, <1>13, <1>14,
     <1>15, <1>16, <1>17, <1>18, <1>19, <1>20, <1>21, <1>22, <1>23, <1>24, <1>25, <1>26, <1>27,
     <1>28, <1>29
     DEF Next, Step, Prove, Cutover, Commit, Rollback

LEMMA DatabaseStep ==
    ASSUME FileInv, ServiceInv, ~InspectMayFail, Next, TypeOK', Shape'
    PROVE  DatabaseFollows'
<1>0. TypeOK /\ ServiceInv
  BY DEF FileInv
<1> USE <1>0, AttemptFields, ServiceFields, NoneAssumption, GotoGoes, EndEnds, FailEnds, AbortGoes
    DEF Shape, Under, Stages, ForwardStages, RollbackStages, Goes, GoesOn, Ends, Aborts, NoAttempt,
        Looks, Contain, ServiceInv, Before, BeforeBackup, Serving, Committed,
        ContainerFollows, DatabaseFollows, Former, OldSchema
<1>1. CASE Refuse \/ \E r \in Releases : Replay(r)
  BY <1>1 DEF Refuse, Replay
<1>2. CASE \E r \in Releases : Begin(r)
  <2>1. PICK r \in Releases : Begin(r)
    BY <1>2
  <2>2. pointers.current # None => db # None /\ db.schema = Schema[pointers.current.release]
    BY <2>1 DEF Begin, VerifiedCurrent, Coherent
  <2>3. QED
    BY <2>1, <2>2, BeginControl DEF Begin
<1>3. CASE ResolveImage
  BY <1>3 DEF ResolveImage
<1>4. CASE StageBundle
  BY <1>4 DEF StageBundle
<1>5. CASE RenameBundle
  BY <1>5 DEF RenameBundle
<1>6. CASE CreateBackup
  BY <1>6, BackupControl DEF CreateBackup, NewBackup
<1>7. CASE ProveCandidate
  BY <1>7 DEF ProveCandidate
<1>8. CASE StopService
  BY <1>8, StopControl DEF StopService, MaybeStopped
<1>9. CASE RemoveService
  BY <1>9 DEF RemoveService, MaybeRemoved
<1>10. CASE Snapshot
  BY <1>10, SnapshotControl DEF Snapshot
<1>11. CASE StartService
  BY <1>11, StartControl DEF StartService, StartFails
<1>12. CASE VerifyService
  BY <1>12 DEF VerifyService, Serves
<1>13. CASE CommitPointers
  <2>1. attempt.cutoverStarted /\ NextGeneration \in 0..(MaxAttempts + 2)
    BY <1>13, CommittableGeneration
  <2>2. QED
    BY <1>13, <2>1, CommitControl DEF CommitPointers, Commits, NewPointers
<1>14. CASE AppendHistory
  BY <1>14 DEF AppendHistory
<1>15. CASE ApplyRetention
  BY <1>15 DEF ApplyRetention
<1>16. CASE WriteReport
  BY <1>16 DEF WriteReport
<1>17. CASE RollbackStop
  BY <1>17 DEF RollbackStop, MaybeStopped
<1>18. CASE RollbackRemove
  BY <1>18 DEF RollbackRemove, MaybeRemoved
<1>19. CASE RefreshBackup
  BY <1>19, RefreshControl DEF RefreshBackup, MustRefresh
<1>20. CASE MoveAside
  BY <1>20 DEF MoveAside
<1>21. CASE RestoreDatabase
  <2>1. BackupPath # None /\ OldSchema(BackupPath)
    BY <1>21 DEF RestoreDatabase, BackupHoldsOwed, Restorable, BackupPath
  <2>2. QED
    BY <1>21, <2>1 DEF RestoreDatabase
<1>22. CASE RestartPrevious
  BY <1>22 DEF RestartPrevious, StartFails
<1>23. CASE VerifyPrevious
  BY <1>23 DEF VerifyPrevious, Serves
<1>24. CASE RestorePointers
  BY <1>24 DEF RestorePointers
<1>25. CASE RecordRollback
  BY <1>25 DEF RecordRollback
<1>26. CASE ContainService
  BY <1>26 DEF ContainService, MaybeStopped, MaybeRemoved
<1>27. CASE Migrate
  BY <1>27, MigrateKeeps DEF Migrate
<1>28. CASE AcceptWrite
  BY <1>28, AcceptAdds DEF AcceptWrite
<1>29. CASE Crash
  BY <1>29 DEF Crash
<1>30. QED
  BY <1>1, <1>2, <1>3, <1>4, <1>5, <1>6, <1>7, <1>8, <1>9, <1>10, <1>11, <1>12, <1>13, <1>14,
     <1>15, <1>16, <1>17, <1>18, <1>19, <1>20, <1>21, <1>22, <1>23, <1>24, <1>25, <1>26, <1>27,
     <1>28, <1>29
     DEF Next, Step, Prove, Cutover, Commit, Rollback

LEMMA CoherentStep ==
    ASSUME FileInv, ServiceInv, ~InspectMayFail, Next, TypeOK', Shape'
    PROVE  Coherent'
<1>0. TypeOK /\ ServiceInv
  BY DEF FileInv
<1> USE <1>0, AttemptFields, ServiceFields, NoneAssumption, GotoGoes, EndEnds, FailEnds, AbortGoes
    DEF Shape, Under, Stages, ForwardStages, RollbackStages, Goes, GoesOn, Ends, Aborts, NoAttempt,
        Looks, Contain, ServiceInv, Before, BeforeBackup, Serving, Committed,
        ContainerFollows, DatabaseFollows, Coherent, Former, OldSchema, FileInv, PointersFollow,
        OldPointers, PointersNew
<1>1. CASE Refuse \/ \E r \in Releases : Replay(r)
  BY <1>1 DEF Refuse, Replay
<1>2. CASE \E r \in Releases : Begin(r)
  BY <1>2, BeginControl DEF Begin, VerifiedCurrent
<1>3. CASE ResolveImage
  BY <1>3 DEF ResolveImage
<1>4. CASE StageBundle
  BY <1>4 DEF StageBundle
<1>5. CASE RenameBundle
  BY <1>5 DEF RenameBundle
<1>6. CASE CreateBackup
  BY <1>6, BackupControl DEF CreateBackup, NewBackup
<1>7. CASE ProveCandidate
  BY <1>7 DEF ProveCandidate
<1>8. CASE StopService
  BY <1>8, StopControl DEF StopService, MaybeStopped
<1>9. CASE RemoveService
  BY <1>9 DEF RemoveService, MaybeRemoved
<1>10. CASE Snapshot
  BY <1>10, SnapshotControl DEF Snapshot
<1>11. CASE StartService
  BY <1>11, StartControl DEF StartService, StartFails
<1>12. CASE VerifyService
  BY <1>12 DEF VerifyService, Serves
<1>13. CASE CommitPointers
  <2>1. attempt.cutoverStarted /\ NextGeneration \in 0..(MaxAttempts + 2)
    BY <1>13, CommittableGeneration
  <2>2. QED
    BY <1>13, <2>1, CommitControl DEF CommitPointers, Commits, NewPointers
<1>14. CASE AppendHistory
  BY <1>14 DEF AppendHistory
<1>15. CASE ApplyRetention
  BY <1>15 DEF ApplyRetention
<1>16. CASE WriteReport
  BY <1>16 DEF WriteReport
<1>17. CASE RollbackStop
  BY <1>17 DEF RollbackStop, MaybeStopped
<1>18. CASE RollbackRemove
  BY <1>18 DEF RollbackRemove, MaybeRemoved
<1>19. CASE RefreshBackup
  BY <1>19, RefreshControl DEF RefreshBackup, MustRefresh
<1>20. CASE MoveAside
  BY <1>20 DEF MoveAside
<1>21. CASE RestoreDatabase
  BY <1>21 DEF RestoreDatabase, BackupPath
<1>22. CASE RestartPrevious
  BY <1>22 DEF RestartPrevious, StartFails
<1>23. CASE VerifyPrevious
  BY <1>23 DEF VerifyPrevious, Serves
<1>24. CASE RestorePointers
  BY <1>24 DEF RestorePointers
<1>25. CASE RecordRollback
  BY <1>25 DEF RecordRollback
<1>26. CASE ContainService
  BY <1>26 DEF ContainService, MaybeStopped, MaybeRemoved
<1>27. CASE Migrate
  BY <1>27, MigrateKeeps DEF Migrate
<1>28. CASE AcceptWrite
  BY <1>28, AcceptAdds DEF AcceptWrite
<1>29. CASE Crash
  BY <1>29 DEF Crash
<1>30. QED
  BY <1>1, <1>2, <1>3, <1>4, <1>5, <1>6, <1>7, <1>8, <1>9, <1>10, <1>11, <1>12, <1>13, <1>14,
     <1>15, <1>16, <1>17, <1>18, <1>19, <1>20, <1>21, <1>22, <1>23, <1>24, <1>25, <1>26, <1>27,
     <1>28, <1>29
     DEF Next, Step, Prove, Cutover, Commit, Rollback

LEMMA BackupStep ==
    ASSUME FileInv, ServiceInv, ~InspectMayFail, Next, TypeOK', Shape'
    PROVE  BackupHoldsOwed'
<1>0. TypeOK /\ ServiceInv
  BY DEF FileInv
<1> USE <1>0, AttemptFields, ServiceFields, NoneAssumption, GotoGoes, EndEnds, FailEnds, AbortGoes
    DEF Shape, Under, Stages, ForwardStages, RollbackStages, Goes, GoesOn, Ends, Aborts, NoAttempt,
        Looks, Contain, ServiceInv, Before, BeforeBackup, Serving, Committed,
        ContainerFollows, DatabaseFollows, BackupHoldsOwed, Restorable, OldSchema, OwedIsLive, Own
<1>1. CASE Refuse \/ \E r \in Releases : Replay(r)
  BY <1>1 DEF Refuse, Replay
<1>2. CASE \E r \in Releases : Begin(r)
  BY <1>2, BeginControl DEF Begin, VerifiedCurrent
<1>3. CASE ResolveImage
  BY <1>3 DEF ResolveImage
<1>4. CASE StageBundle
  BY <1>4 DEF StageBundle
<1>5. CASE RenameBundle
  BY <1>5 DEF RenameBundle
<1>6. CASE CreateBackup
  BY <1>6, BackupControl DEF CreateBackup, NewBackup
<1>7. CASE ProveCandidate
  BY <1>7 DEF ProveCandidate
<1>8. CASE StopService
  BY <1>8, StopControl DEF StopService, MaybeStopped
<1>9. CASE RemoveService
  BY <1>9 DEF RemoveService, MaybeRemoved
<1>10. CASE Snapshot
  <2>1. backups' = [backups EXCEPT ![Own].final = db] => backups'[Own'].final = db
    BY <1>10 DEF Snapshot, Backup, TypeOK
  <2>2. db # None => Restorable(db)
    BY <1>10 DEF Snapshot
  <2>3. QED
    BY <1>10, <2>1, <2>2, SnapshotControl DEF Snapshot
<1>11. CASE StartService
  BY <1>11, StartControl DEF StartService, StartFails
<1>12. CASE VerifyService
  BY <1>12 DEF VerifyService, Serves
<1>13. CASE CommitPointers
  <2>1. attempt.cutoverStarted /\ NextGeneration \in 0..(MaxAttempts + 2)
    BY <1>13, CommittableGeneration
  <2>2. QED
    BY <1>13, <2>1, CommitControl DEF CommitPointers, Commits, NewPointers
<1>14. CASE AppendHistory
  BY <1>14 DEF AppendHistory
<1>15. CASE ApplyRetention
  <2>1. backups # <<>> /\ backups' \in {backups, Kept}
    BY <1>15 DEF ApplyRetention
  <2>2. Kept[Len(Kept)] = backups[Own]
    BY <2>1, KeptLatest DEF FileInv
  <2>3. QED
    BY <1>15, <2>1, <2>2 DEF ApplyRetention
<1>16. CASE WriteReport
  BY <1>16 DEF WriteReport
<1>17. CASE RollbackStop
  BY <1>17 DEF RollbackStop, MaybeStopped
<1>18. CASE RollbackRemove
  BY <1>18 DEF RollbackRemove, MaybeRemoved
<1>19. CASE RefreshBackup
  <2>1. backups' = [backups EXCEPT ![Own].rollback = db] => backups'[Own'].rollback = db
    BY <1>19 DEF RefreshBackup, Backup, TypeOK
  <2>2. db # None /\ attempt.backup = "pre" => Restorable(db)
    BY <1>19 DEF RefreshBackup
  <2>3. QED
    BY <1>19, <2>1, <2>2, RefreshControl DEF RefreshBackup
<1>20. CASE MoveAside
  <2>1. backups' = [backups EXCEPT ![Own].failed = db] =>
            /\ backups'[Own'].final = backups[Own].final
            /\ backups'[Own'].rollback = backups[Own].rollback
    BY <1>20 DEF MoveAside, Backup, TypeOK
  <2>2. QED
    BY <1>20, <2>1 DEF MoveAside
<1>21. CASE RestoreDatabase
  BY <1>21 DEF RestoreDatabase, BackupPath
<1>22. CASE RestartPrevious
  BY <1>22 DEF RestartPrevious, StartFails
<1>23. CASE VerifyPrevious
  BY <1>23 DEF VerifyPrevious, Serves
<1>24. CASE RestorePointers
  BY <1>24 DEF RestorePointers
<1>25. CASE RecordRollback
  BY <1>25 DEF RecordRollback
<1>26. CASE ContainService
  BY <1>26 DEF ContainService, MaybeStopped, MaybeRemoved
<1>27. CASE Migrate
  BY <1>27, MigrateKeeps DEF Migrate
<1>28. CASE AcceptWrite
  <2>1. ASSUME attempt.at \in {"start", "verify", "rb_stop", "rb_remove", "rb_backup", "rb_aside", "rb_restore"}
                    \cup Serving,
               attempt.backup = "final" \/ attempt.at \in {"rb_aside", "rb_restore"}
        PROVE  Tentative
    BY <1>28, <2>1 DEF AcceptWrite, Tentative
  <2>2. QED
    BY <1>28, <2>1 DEF AcceptWrite
<1>29. CASE Crash
  BY <1>29 DEF Crash
<1>30. QED
  BY <1>1, <1>2, <1>3, <1>4, <1>5, <1>6, <1>7, <1>8, <1>9, <1>10, <1>11, <1>12, <1>13, <1>14,
     <1>15, <1>16, <1>17, <1>18, <1>19, <1>20, <1>21, <1>22, <1>23, <1>24, <1>25, <1>26, <1>27,
     <1>28, <1>29
     DEF Next, Step, Prove, Cutover, Commit, Rollback

(* The steps that touch what is owed, or where it is kept.                     *)
Writers ==
    \/ CreateBackup \/ Snapshot \/ ApplyRetention \/ WriteReport \/ RefreshBackup \/ MoveAside
    \/ RestoreDatabase \/ ContainService \/ Migrate \/ AcceptWrite \/ Crash

LEMMA OthersWriteNothing == Next => Writers \/ UNCHANGED <<db, owed, backups>>
BY DEF Next, Step, Prove, Cutover, Commit, Rollback, Writers, Refuse, Replay, Begin, ResolveImage,
   StageBundle, RenameBundle, ProveCandidate, StopService, RemoveService, StartService,
   VerifyService, CommitPointers, AppendHistory, RollbackStop, RollbackRemove, RestartPrevious,
   VerifyPrevious, RestorePointers, RecordRollback

LEMMA OwedStep ==
    ASSUME FileInv, ServiceInv, Next, TypeOK'
    PROVE  OwedIsLive' /\ OwedIsPreserved'
<1>0. TypeOK /\ ServiceInv
  BY DEF FileInv
<1> USE <1>0, AttemptFields DEF ServiceInv, OwedIsLive, OwedIsPreserved
<1>1. CASE UNCHANGED <<db, owed, backups>>
  BY <1>1
<1>2. CASE CreateBackup
  BY <1>2 DEF CreateBackup, TypeOK
<1>3. CASE Snapshot
  BY <1>3 DEF Snapshot, DatabaseFollows, Under, BeforeBackup
<1>4. CASE ApplyRetention
  BY <1>4 DEF ApplyRetention, DatabaseFollows, Under, BeforeBackup
<1>5. CASE WriteReport \/ ContainService \/ Crash
  BY <1>5 DEF WriteReport, ContainService, Crash, OwedAtEnd, LiveWrites
<1>6. CASE RefreshBackup
  BY <1>6 DEF RefreshBackup, DatabaseFollows, Under, BeforeBackup
<1>7. CASE MoveAside
  <2>1. CASE UNCHANGED <<db, backups>>
    BY <1>7, <2>1 DEF MoveAside
  <2>2. CASE backups' = [backups EXCEPT ![Own].failed = db] /\ db' = None
    <3>1. db # None /\ backups # <<>>
      BY <1>7 DEF MoveAside, DatabaseFollows, Shape, Under, BeforeBackup
    <3>2. Own \in DOMAIN backups' /\ backups'[Own].failed = db
      BY <2>2, <3>1 DEF Backup, TypeOK
    <3>3. owed' = owed
      BY <1>7 DEF MoveAside
    <3>4. QED
      BY <2>2, <3>1, <3>2, <3>3
  <2>3. QED
    BY <1>7, <2>1, <2>2 DEF MoveAside
<1>8. CASE RestoreDatabase
  <2>1. BackupPath # None /\ owed \subseteq BackupPath.writes
    BY <1>8 DEF RestoreDatabase, BackupHoldsOwed, Restorable, BackupPath, Shape, Under
  <2>2. QED
    BY <1>8, <2>1 DEF RestoreDatabase
<1>9. CASE Migrate
  BY <1>9, MigrateKeeps DEF Migrate
<1>10. CASE AcceptWrite
  BY <1>10, AcceptAdds DEF AcceptWrite
<1>11. QED
  BY <1>1, <1>2, <1>3, <1>4, <1>5, <1>6, <1>7, <1>8, <1>9, <1>10, OthersWriteNothing DEF Writers

-----------------------------------------------------------------------------
LEMMA ServiceInvInit == Init => ServiceInv
<1> SUFFICES ASSUME Init
             PROVE  ServiceInv
  OBVIOUS
<1>1. attempt.at = "idle" /\ outcome = "none" /\ owed = {}
  BY DEF Init, NoAttempt
<1>2. db # None
  <2>1. db \in Database
    BY FileInvInit DEF FileInv, TypeOK, Init, Database
  <2>2. QED
    BY <2>1, NoneAssumption
<1>3. Coherent
  <2>1. pointers.current # None => db.schema = Schema[pointers.current.release]
    BY DEF Init
  <2>2. QED
    BY <1>2, <2>1 DEF Coherent
<1>4. ContainerFollows /\ BackupHoldsOwed /\ DatabaseFollows
  BY <1>1, <1>2 DEF ContainerFollows, BackupHoldsOwed, DatabaseFollows, Under, Before, BeforeBackup,
     Serving, Committed
<1>5. QED
  BY <1>1, <1>2, <1>3, <1>4 DEF ServiceInv, OwedIsLive, OwedIsPreserved

LEMMA ServiceInvStep ==
    ASSUME ~InspectMayFail, FileInv, ServiceInv, [Next]_vars
    PROVE  ServiceInv'
<1>1. CASE UNCHANGED vars
  BY <1>1 DEF vars, files, counts, ServiceInv, ContainerFollows, Former, DatabaseFollows, OldSchema,
     Coherent, OwedIsLive, OwedIsPreserved, BackupHoldsOwed, Restorable, Own, Under
<1>2. CASE Next
  <2>1. TypeOK' /\ Shape'
    BY <1>2, ShapeStep, TypesStep
  <2>2. QED
    BY <1>2, <2>1, ContainerStep, DatabaseStep, CoherentStep, BackupStep, OwedStep DEF ServiceInv
<1>3. QED
  BY <1>1, <1>2

-----------------------------------------------------------------------------
(* Variables stay in their types, for any releases, bounds and failures.       *)
THEOREM TypeCorrect == Spec => []TypeOK
<1>1. FileInv => TypeOK
  BY DEF FileInv
<1>2. QED
  BY <1>1, FilesStaySound, PTL

(* Whatever fails and wherever the controller dies, what the pointers name is    *)
(* there and a generation has been committed once: retention never removes what  *)
(* a late rollback puts back.                                                  *)
THEOREM PointersStaySound == Spec => []PointersSound
<1>1. FileInv => PointersSound
  BY DEF FileInv, PointersSound
<1>2. QED
  BY <1>1, FilesStaySound, PTL

LEMMA ServiceStaysSound == ASSUME ~InspectMayFail PROVE Spec => [](FileInv /\ ServiceInv)
<1>1. FileInv /\ ServiceInv /\ [Next]_vars => (FileInv /\ ServiceInv)'
  BY FileInvStep, ServiceInvStep
<1>2. QED
  BY <1>1, FileInvInit, ServiceInvInit, PTL DEF Spec

(* With an engine that answers for its containers, no accepted write is lost     *)
(* from both the live and the preserved databases, and none is missing from the *)
(* live one when an attempt succeeded or was rolled back.                       *)
THEOREM WritesStayKept == ASSUME ~InspectMayFail PROVE Spec => []WritesKept
<1>1. FileInv /\ ServiceInv => WritesKept
  <2> SUFFICES ASSUME FileInv, ServiceInv
               PROVE  WritesKept
    OBVIOUS
  <2>1. CASE db = None
    <3>1. PICK i \in DOMAIN backups : backups[i].failed # None /\ owed \subseteq backups[i].failed.writes
      BY <2>1 DEF ServiceInv, OwedIsPreserved
    <3>2. outcome \notin {"succeeded", "rolled_back"}
      BY <2>1 DEF ServiceInv, DatabaseFollows
    <3>3. QED
      BY <3>1, <3>2 DEF WritesKept
  <2>2. CASE db # None
    BY <2>2 DEF ServiceInv, OwedIsLive, WritesKept, LiveWrites
  <2>3. QED
    BY <2>1, <2>2
<1>2. QED
  BY <1>1, ServiceStaysSound, PTL


-----------------------------------------------------------------------------
(* Which steps end an attempt, and as what.                                    *)
Failing ==
    \/ ResolveImage \/ StageBundle \/ RenameBundle \/ CreateBackup \/ ProveCandidate
    \/ StopService \/ Snapshot

EndsWell ==
    /\ outcome' = "succeeded" =>
          /\ pointers'.current.release = attempt.release
          /\ pointers'.previous = attempt.current
          /\ container' = Running(attempt.release)
          /\ db' # None /\ db'.schema = Schema[attempt.release]
    /\ outcome' \in {"failed", "rolled_back"} =>
          /\ pointers' = OldPointers /\ container' = Former
          /\ Former # None => db' # None /\ db'.schema = Schema[attempt.current.release]

LEMMA WhoEnds ==
    ASSUME FileInv, Next, attempt.at # "idle", attempt'.at = "idle"
    PROVE  \/ outcome' = "failed" /\ Failing
           \/ outcome' = "succeeded" /\ WriteReport
           \/ outcome' = "rolled_back" /\ (RestorePointers \/ RecordRollback)
           \/ outcome' \in {"rollback_failed", "crashed"}
<1> USE AttemptFields, GotoGoes, EndEnds, FailEnds, AbortGoes
    DEF Goes, GoesOn, Aborts, Stages, ForwardStages, RollbackStages, Contain, Failing
<1>1. CASE Prove
  <2>1. CASE ResolveImage \/ StageBundle \/ RenameBundle \/ ProveCandidate
    BY <2>1 DEF ResolveImage, StageBundle, RenameBundle, ProveCandidate
  <2>2. CASE CreateBackup
    BY <2>2, BackupControl
  <2>3. QED
    BY <1>1, <2>1, <2>2 DEF Prove
<1>2. CASE StopService
  BY <1>2, StopControl
<1>3. CASE Snapshot
  BY <1>3, SnapshotControl
<1>4. CASE RemoveService \/ VerifyService
  BY <1>4 DEF RemoveService, VerifyService, Shape, Under
<1>5. CASE StartService
  BY <1>5, StartControl
<1>6. CASE CommitPointers
  <2>1. attempt.cutoverStarted /\ NextGeneration \in 0..(MaxAttempts + 2)
    BY <1>6, CommittableGeneration
  <2>2. QED
    BY <1>6, <2>1, CommitControl DEF Commits
<1>7. CASE AppendHistory \/ ApplyRetention \/ WriteReport
  BY <1>7 DEF AppendHistory, ApplyRetention, WriteReport, Shape, Under, Serving, Committed
<1>8. CASE RollbackStop \/ RollbackRemove \/ MoveAside \/ RestoreDatabase
  BY <1>8 DEF RollbackStop, RollbackRemove, MoveAside, RestoreDatabase
<1>9. CASE RefreshBackup
  BY <1>9, RefreshControl
<1>10. CASE RestartPrevious \/ VerifyPrevious
  BY <1>10 DEF RestartPrevious, VerifyPrevious
<1>11. CASE RestorePointers \/ RecordRollback
  BY <1>11 DEF RestorePointers, RecordRollback
<1>12. CASE ContainService \/ Crash
  BY <1>12 DEF ContainService, Crash
<1>13. CASE Refuse \/ (\E r \in Releases : Replay(r) \/ Begin(r)) \/ Migrate \/ AcceptWrite
  BY <1>13 DEF Refuse, Replay, Begin, Migrate, AcceptWrite
<1>14. QED
  BY <1>1, <1>2, <1>3, <1>4, <1>5, <1>6, <1>7, <1>8, <1>9, <1>10, <1>11, <1>12, <1>13
     DEF Next, Step, Cutover, Commit, Rollback

LEMMA OutcomeStep ==
    ASSUME FileInv, ServiceInv, Next, attempt.at # "idle", attempt'.at = "idle"
    PROVE  EndsWell
<1>0. ~attempt.pointersTouched => pointers = OldPointers
  BY DEF FileInv, PointersFollow, Under
<1> USE AttemptFields, ServiceFields
    DEF Under, files, counts, Former, ContainerFollows, DatabaseFollows, OldSchema, EndsWell
<1>1. ASSUME outcome' = "failed", Failing
      PROVE  EndsWell
  <2>1. /\ UNCHANGED <<pointers, db>>
        /\ attempt.at \in {"image", "bundle", "rename", "backup", "candidate", "stop", "snapshot"}
    BY <1>1 DEF Failing, ResolveImage, StageBundle, RenameBundle, CreateBackup, ProveCandidate,
       StopService, Snapshot
  <2>2. ~attempt.pointersTouched
    BY <2>1 DEF FileInv, PointersFollow, Committed, RollbackStages, Attempt
  <2>3. container' = container
    <3>1. CASE StopService
      BY <3>1, StopControl DEF Goes, GoesOn
    <3>2. CASE ~StopService
      BY <1>1, <3>2 DEF Failing, ResolveImage, StageBundle, RenameBundle, CreateBackup,
         ProveCandidate, Snapshot
    <3>3. QED
      BY <3>1, <3>2
  <2>4. container = Former
    <3>1. CASE attempt.at = "snapshot"
      <4>1. ~attempt.cutoverStarted
        <5>1. Snapshot
          BY <1>1, <3>1 DEF Failing, ResolveImage, StageBundle, RenameBundle, CreateBackup,
             ProveCandidate, StopService
        <5>2. QED
          BY <5>1, SnapshotControl DEF Aborts, Goes, GoesOn
      <4>2. QED
        BY <3>1, <4>1 DEF ServiceInv
    <3>2. CASE attempt.at # "snapshot"
      BY <2>1, <3>2 DEF ServiceInv, Before, BeforeBackup
    <3>3. QED
      BY <3>1, <3>2
  <2>5. Former # None => db # None /\ db.schema = Schema[attempt.current.release]
    BY <2>1 DEF ServiceInv, Before, BeforeBackup
  <2>6. QED
    BY <1>0, <1>1, <2>1, <2>2, <2>3, <2>4, <2>5
<1>2. ASSUME outcome' = "succeeded", WriteReport
      PROVE  EndsWell
  <2>1. PointersNew
    BY <1>2 DEF WriteReport, FileInv, PointersFollow, Committed
  <2>2. container = Running(attempt.release) /\ db # None /\ db.schema = Schema[attempt.release]
    BY <1>2 DEF WriteReport, ServiceInv, Serving, Committed, BeforeBackup
  <2>3. QED
    BY <1>2, <2>1, <2>2 DEF WriteReport, PointersNew
<1>3. ASSUME outcome' = "rolled_back", RestorePointers \/ RecordRollback
      PROVE  EndsWell
  <2>1. pointers' = OldPointers
    <3>1. CASE RecordRollback
      BY <3>1 DEF RecordRollback, FileInv, PointersFollow
    <3>2. CASE RestorePointers
      <4>1. ~attempt.pointersTouched
        BY <1>3, <3>2 DEF RestorePointers, FileInv, Shape
      <4>2. QED
        BY <1>0, <3>2, <4>1 DEF RestorePointers
    <3>3. QED
      BY <1>3, <3>1, <3>2
  <2>2. /\ UNCHANGED <<container, db>> /\ attempt.at \in {"rb_pointers", "rb_history"}
    BY <1>3 DEF RestorePointers, RecordRollback
  <2>3. container = Former /\ db # None /\ OldSchema(db)
    BY <2>2 DEF ServiceInv, BeforeBackup
  <2>4. QED
    BY <1>3, <2>1, <2>2, <2>3
<1>4. QED
  BY <1>1, <1>2, <1>3, WhoEnds

(* An attempt begins over what the pointers say only.                          *)
LEMMA BeginStep ==
    ASSUME ~InspectMayFail, FileInv, ServiceInv, Next,
           attempt.at = "idle", attempt'.at # "idle", pointers.current # None
    PROVE  /\ container = Running(pointers.current.release)
           /\ db # None /\ db.schema = Schema[pointers.current.release]
           /\ owed \subseteq db.writes
<1>1. \E r \in Releases : Begin(r)
  BY DEF Next, Step, Prove, Cutover, Commit, Rollback, Refuse, Replay, ResolveImage, StageBundle,
     RenameBundle, CreateBackup, ProveCandidate, StopService, RemoveService, Snapshot, StartService,
     VerifyService, CommitPointers, AppendHistory, ApplyRetention, WriteReport, RollbackStop,
     RollbackRemove, RefreshBackup, MoveAside, RestoreDatabase, RestartPrevious, VerifyPrevious,
     RestorePointers, RecordRollback, ContainService, Migrate, AcceptWrite, Crash
<1>2. container = Running(pointers.current.release)
  BY <1>1 DEF Begin, VerifiedCurrent, Looks
<1>3. QED
  BY <1>2 DEF ServiceInv, Coherent, OwedIsLive

(* With an engine that answers for its containers, every attempt starts from a   *)
(* coherent state and reports the one that it leaves, whatever failed, was      *)
(* written or was moved by a restart of the service meanwhile.                  *)
THEOREM AttemptsTellTheStateHolds == ASSUME ~InspectMayFail PROVE Spec => AttemptsTellTheState
<1>1. FileInv /\ ServiceInv /\ [Next]_vars =>
         [LET former == IF attempt.current = None THEN None ELSE Running(attempt.current.release)
          IN  attempt.at # "idle" /\ attempt'.at = "idle" =>
                /\ outcome' = "succeeded" =>
                      /\ pointers'.current.release = attempt.release
                      /\ pointers'.previous = attempt.current
                      /\ container' = Running(attempt.release)
                      /\ db' # None /\ db'.schema = Schema[attempt.release]
                /\ outcome' \in {"failed", "rolled_back"} =>
                      /\ pointers' = [current |-> attempt.current, previous |-> attempt.previous]
                      /\ container' = former
                      /\ former # None => db' # None /\ db'.schema = Schema[former.release]]_vars
  <2> SUFFICES ASSUME FileInv, ServiceInv, Next, attempt.at # "idle", attempt'.at = "idle"
               PROVE  /\ EndsWell
                      /\ Former # None => Former.release = attempt.current.release
    BY DEF EndsWell, OldPointers, Former
  <2>1. Former # None => Former.release = attempt.current.release
    BY AttemptFields, ServiceFields DEF Former
  <2>2. QED
    BY <2>1, OutcomeStep
<1>2. FileInv /\ ServiceInv /\ [Next]_vars =>
         [attempt.at = "idle" /\ attempt'.at # "idle" /\ pointers.current # None =>
             /\ container = Running(pointers.current.release)
             /\ db # None /\ db.schema = Schema[pointers.current.release]
             /\ owed \subseteq db.writes]_vars
  BY BeginStep
<1>3. QED
  BY <1>1, <1>2, ServiceStaysSound, PTL
     DEF Spec, AttemptsTellTheState, OutcomeTellsTheState, StartsCoherent

-----------------------------------------------------------------------------
(* BrowserLogin: who is at work, by account; what has happened since an instant.   *)
Busy == {t \in Threads : lAt[t] # "idle"}
BusyFor(a) == {t \in Busy : login[t].account = a}
Since(a, from) == {e \in logins : e.account = a /\ e.time >= from}
VerifiedSince(a, from) == {i \in DOMAIN verified : verified[i].account = a /\ verified[i].time >= from}
Within(a, from) ==
    {i \in DOMAIN verified : verified[i].account = a /\ verified[i].time \in from..(from + Window - 1)}

(* The entries of a log are of the past, and those of this instant are numbered.    *)
Dated(log) ==
    /\ IsFiniteSet(log)
    /\ \A e \in log : /\ e.time <= clock
                      /\ e.time = clock => e.n <= Cardinality({x \in log : x.time = clock})

(* Who passes a challenge, and who has.                                       *)
Passing(c) == {t \in Threads : lAt[t] \in {"valid", "consumed"} /\ login[t].challenge = c}
SignedIn(c) == {i \in DOMAIN signedIn : signedIn[i] = c}

(* Within a window every verification is of an attempt of that window, or of one of  *)
(* the logins that were at work when it began.                                  *)
VerifiedAreAttempts ==
    \A a \in Accounts : \A from \in 0..MaxClock :
        clock < from + Window =>
            Cardinality(VerifiedSince(a, from)) + Cardinality(BusyFor(a)) <= Cardinality(Since(a, from)) + Slots

AttemptsLimited == \A a \in Accounts : Cardinality(L!For(L!Live(logins), a)) <= AccountLimit

(* Only what is fresh lets somebody pass, and whoever has passed has used it.      *)
PassingLimited ==
    \A c \in L!Ids :
        /\ Cardinality(SignedIn(c)) + Cardinality(Passing(c)) <= Slots
        /\ challenges[c].state \in {"none", "fresh"} =>
              SignedIn(c) = {} /\ \A t \in Passing(c) : lAt[t] = "valid"

LoginTypes ==
    /\ L!TypeOK
    /\ Dated(logins) /\ Dated(handedOut)
    /\ \A t \in Busy : login[t] \in L!Logins
    /\ \A i \in DOMAIN verified : verified[i].time <= clock

LoginInv ==
    /\ LoginTypes
    /\ AttemptsLimited /\ VerifiedAreAttempts /\ L!VerificationsBounded
    /\ PassingLimited

LEMMA LoginCardinality == \A S : L!Cardinality(S) = Cardinality(S)
  BY DEF L!Cardinality, Cardinality, L!IsFiniteSet, IsFiniteSet

LEMMA LoginConstants ==
    /\ IsFiniteSet(Threads) /\ Nobody \notin L!Logins
    /\ Window \in Nat \ {0} /\ AccountLimit \in Nat /\ Slots \in Nat
    /\ ChallengeTtl \in Nat /\ MaxClock \in Nat /\ MaxChallenges \in Nat
  <1>1. \A S : L!IsFiniteSet(S) <=> IsFiniteSet(S)
    BY DEF L!IsFiniteSet, IsFiniteSet
  <1>2. QED
    BY <1>1, LoginsAssumption DEF L!ConstantsSound

LEMMA BusyFinite ==
    ASSUME LoginTypes
    PROVE  /\ IsFiniteSet(Busy) /\ Cardinality(Busy) \in Nat /\ slots = Slots - Cardinality(Busy)
           /\ slots \in Nat /\ Cardinality(Busy) <= Slots
           /\ \A S \in SUBSET Busy : IsFiniteSet(S) /\ Cardinality(S) \in Nat /\ Cardinality(S) <= Cardinality(Busy)
  <1>1. Busy \subseteq Threads /\ IsFiniteSet(Busy)
    BY LoginConstants, FS_Subset DEF Busy
  <1>2. Cardinality(Busy) \in Nat
    BY <1>1, FS_CardinalityType
  <1>3. slots = Slots - Cardinality(Busy) /\ slots >= 0
    BY LoginCardinality DEF LoginTypes, L!TypeOK, Busy
  <1>4. \A S \in SUBSET Busy : IsFiniteSet(S) /\ Cardinality(S) \in Nat /\ Cardinality(S) <= Cardinality(Busy)
    BY <1>1, FS_Subset, FS_CardinalityType
  <1>5. QED
    BY <1>1, <1>2, <1>3, <1>4, LoginConstants

(* The log as it is purged, and with one more entry.                             *)
LEMMA LogPurged ==
    ASSUME NEW log, Dated(log), clock \in Nat, \A e \in log : e.time \in Nat
    PROVE  /\ L!Live(log) \subseteq log /\ IsFiniteSet(L!Live(log)) /\ Dated(L!Live(log))
  <1>1. L!Live(log) \subseteq log /\ IsFiniteSet(L!Live(log))
    BY FS_Subset DEF L!Live, Dated
  <1>2. {x \in L!Live(log) : x.time = clock} = {x \in log : x.time = clock}
    BY LoginConstants DEF L!Live
  <1>3. QED
    BY <1>1, <1>2 DEF Dated

LEMMA LogExtended ==
    ASSUME NEW log, Dated(log), clock \in Nat, \A x \in log : x.time \in Nat /\ x.n \in Nat,
           NEW e, e.time = clock, e.n = L!NextNumber(log)
    PROVE  /\ e \notin log /\ e.n \in Nat /\ Dated(L!Live(log) \cup {e})
  <1> DEFINE now == {x \in log : x.time = clock}
             new == L!Live(log) \cup {e}
  <1>1. IsFiniteSet(now) /\ Cardinality(now) \in Nat
    BY FS_Subset, FS_CardinalityType DEF Dated
  <1>2. e.n = Cardinality(now) + 1
    BY LoginCardinality DEF L!NextNumber
  <1>3. e \notin log
    BY <1>1, <1>2 DEF Dated
  <1>4. {x \in new : x.time = clock} = now \cup {e}
    BY LoginConstants DEF L!Live
  <1>5. Cardinality(now \cup {e}) = Cardinality(now) + 1
    BY <1>1, <1>3, FS_AddElement
  <1>6. IsFiniteSet(new) /\ Dated(L!Live(log))
    BY LogPurged, FS_AddElement
  <1>7. \A x \in L!Live(log) : x.time <= clock /\ (x.time = clock => x.n <= Cardinality(now))
    BY DEF Dated, L!Live
  <1>8. ASSUME NEW x \in new
        PROVE  x.time <= clock /\ (x.time = clock => x.n <= Cardinality(now) + 1)
    <2>1. CASE x = e
      BY <1>1, <1>2, <2>1
    <2>2. CASE x \in L!Live(log)
      BY <1>1, <1>7, <2>2 DEF L!Live
    <2>3. QED
      BY <2>1, <2>2
  <1>9. Cardinality({x \in new : x.time = clock}) = Cardinality(now) + 1
    BY <1>4, <1>5
  <1>10. Dated(new)
    <2> HIDE DEF new, now
    <2>1. QED
      BY <1>6, <1>8, <1>9 DEF Dated
  <1>11. QED
    BY <1>1, <1>2, <1>3, <1>10

LEMMA EntriesTyped == ASSUME NEW S, NEW s \in Seq(S) PROVE \A i \in DOMAIN s : s[i] \in S
  OBVIOUS

(* A page hands out at most one challenge, with a number of its own; none that was   *)
(* used or deleted becomes fresh again.                                         *)
LEMMA LeastId ==
    ASSUME NEW S \in SUBSET L!Ids, S # {}
    PROVE  \E x \in S : \A y \in S : x <= y
  <1>1. S \subseteq Nat
    BY LoginConstants DEF L!Ids
  <1>2. PICK n \in S : TRUE
    OBVIOUS
  <1>3. \E x \in S : \A y \in S : ~(<<y, x>> \in OpToRel(<, Nat))
    BY <1>1, <1>2, NatLessThanWellFounded, WFMin
  <1>4. PICK x \in S : \A y \in S : ~(<<y, x>> \in OpToRel(<, Nat))
    BY <1>3
  <1>5. ASSUME NEW y \in S PROVE x <= y
    <2>1. x \in Nat /\ y \in Nat /\ ~(y < x)
      BY <1>1, <1>4 DEF OpToRel
    <2>2. QED
      BY <2>1
  <1>6. QED
    BY <1>5

LEMMA ReplaceKeeps ==
    ASSUME LoginTypes, NEW s \in Sources, L!Replace(s, challenges)
    PROVE  /\ handedOut' \subseteq [time: 0..MaxClock, n: Nat, source: Sources] /\ Dated(handedOut')
           /\ challenges' \in [L!Ids -> [state: {"none", "fresh", "used", "deleted"}, expires: Nat]]
           /\ \A c \in L!Ids : challenges'[c].state \in {"none", "fresh"} =>
                                  challenges[c].state \in {"none", "fresh"}
  <1>0. clock \in Nat /\ clock \in 0..MaxClock /\ \A e \in handedOut : e.time \in Nat /\ e.n \in Nat
    BY LoginConstants DEF LoginTypes, L!TypeOK
  <1>1. CASE /\ handedOut' = L!Live(handedOut) \cup {[time |-> clock, n |-> L!NextNumber(handedOut), source |-> s]}
             /\ challenges' = L!Issued(challenges) /\ L!Unissued # {}
    <2> DEFINE e == [time |-> clock, n |-> L!NextNumber(handedOut), source |-> s]
    <2>1. e.n \in Nat /\ Dated(handedOut')
      BY <1>0, <1>1, LogExtended DEF LoginTypes
    <2>2. L!Live(handedOut) \subseteq handedOut
      BY DEF L!Live
    <2>3. handedOut' \subseteq [time: 0..MaxClock, n: Nat, source: Sources]
      BY <1>0, <1>1, <2>1, <2>2 DEF LoginTypes, L!TypeOK
    <2>4. PICK new : new = CHOOSE c \in L!Unissued : \A d \in L!Unissued : c <= d
      OBVIOUS
    <2>5. new \in L!Ids /\ challenges[new].state = "none"
      BY <1>1, <2>4, LeastId DEF L!Unissued
    <2>6. \A c \in L!Ids : challenges'[c] =
              IF c = new THEN [state |-> "fresh", expires |-> clock + ChallengeTtl]
              ELSE IF challenges[c].state = "used" \/ (challenges[c].state = "fresh" /\ challenges[c].expires <= clock)
                   THEN [challenges[c] EXCEPT !.state = "deleted"] ELSE challenges[c]
      BY <1>1, <2>4 DEF L!Issued
    <2>7. challenges' \in [L!Ids -> [state: {"none", "fresh", "used", "deleted"}, expires: Nat]]
      <3>1. challenges' = [c \in L!Ids |-> challenges'[c]]
        BY <1>1 DEF L!Issued
      <3>2. \A c \in L!Ids : challenges'[c] \in [state: {"none", "fresh", "used", "deleted"}, expires: Nat]
        <4> TAKE c \in L!Ids
        <4>1. challenges[c] \in [state: {"none", "fresh", "used", "deleted"}, expires: Nat]
          BY DEF LoginTypes, L!TypeOK
        <4>2. [challenges[c] EXCEPT !.state = "deleted"] \in [state: {"none", "fresh", "used", "deleted"}, expires: Nat]
          BY <4>1
        <4>3. clock + ChallengeTtl \in Nat
          BY <1>0, LoginConstants
        <4>4. QED
          BY <2>6, <4>1, <4>2, <4>3
      <3>3. QED
        BY <3>1, <3>2
    <2>8. \A c \in L!Ids : challenges'[c].state \in {"none", "fresh"} => challenges[c].state \in {"none", "fresh"}
      BY <2>5, <2>6 DEF LoginTypes, L!TypeOK
    <2>9. QED
      BY <2>1, <2>3, <2>7, <2>8
  <1>2. CASE handedOut' = L!Live(handedOut) /\ challenges' = challenges
    BY <1>0, <1>2, LogPurged DEF LoginTypes, L!TypeOK
  <1>3. QED
    BY <1>1, <1>2 DEF L!Replace

(* Who leaves gives back a slot.                                                *)
LEMMA LeaveKeeps ==
    ASSUME LoginTypes, NEW t \in Busy, L!Leave(t)
    PROVE  /\ Busy' = Busy \ {t} /\ slots' = Slots - Cardinality(Busy')
           /\ lAt' \in [Threads -> {"idle", "admitted", "valid", "refused", "consumed"}]
           /\ login' \in [Threads -> L!Logins \cup {Nobody}]
           /\ \A v \in Threads \ {t} : lAt'[v] = lAt[v] /\ login'[v] = login[v]
           /\ \A a : BusyFor(a)' = BusyFor(a) \ {t}
           /\ \A c : Passing(c)' = Passing(c) \ {t}
           /\ slots' >= 0
  <1>1. t \in Threads /\ lAt' = [lAt EXCEPT ![t] = "idle"] /\ login' = [login EXCEPT ![t] = Nobody]
    BY DEF L!Leave, Busy
  <1>2. /\ lAt \in [Threads -> {"idle", "admitted", "valid", "refused", "consumed"}]
        /\ login \in [Threads -> L!Logins \cup {Nobody}]
    BY DEF LoginTypes, L!TypeOK
  <1>3. Busy' = Busy \ {t}
    BY <1>1, <1>2 DEF Busy
  <1>4. Cardinality(Busy') = Cardinality(Busy) - 1
    BY <1>3, BusyFinite, FS_RemoveElement
  <1>5. slots' = Slots - Cardinality(Busy') /\ slots' >= 0
    BY <1>4, BusyFinite, LoginConstants DEF L!Leave
  <1>6. \A a : BusyFor(a)' = BusyFor(a) \ {t}
    BY <1>1, <1>2, <1>3 DEF BusyFor, Busy
  <1>7. \A c : Passing(c)' = Passing(c) \ {t}
    BY <1>1, <1>2 DEF Passing
  <1>8. QED
    BY <1>1, <1>2, <1>3, <1>5, <1>6, <1>7

(* Every count is a number.                                                     *)
Counted ==
    /\ \A a, from : /\ IsFiniteSet(Since(a, from)) /\ Cardinality(Since(a, from)) \in Nat
                    /\ IsFiniteSet(VerifiedSince(a, from)) /\ Cardinality(VerifiedSince(a, from)) \in Nat
                    /\ IsFiniteSet(L!For(L!Live(logins), a))
                    /\ Cardinality(L!For(L!Live(logins), a)) \in Nat
    /\ \A c : /\ IsFiniteSet(SignedIn(c)) /\ Cardinality(SignedIn(c)) \in Nat
              /\ IsFiniteSet(Passing(c)) /\ Cardinality(Passing(c)) \in Nat
              /\ Passing(c) \subseteq Busy /\ Cardinality(Passing(c)) <= Slots
    /\ \A a : /\ IsFiniteSet(BusyFor(a)) /\ Cardinality(BusyFor(a)) \in Nat
              /\ BusyFor(a) \subseteq Busy /\ Cardinality(BusyFor(a)) <= Slots

LEMMA CountsFinite == LoginTypes => Counted
  <1> SUFFICES ASSUME LoginTypes PROVE Counted
    OBVIOUS
  <1>1. IsFiniteSet(logins) /\ IsFiniteSet(DOMAIN verified) /\ IsFiniteSet(DOMAIN signedIn)
    <2>1. DOMAIN verified = 1..Len(verified) /\ Len(verified) \in Nat
      BY DEF LoginTypes, L!TypeOK
    <2>2. DOMAIN signedIn = 1..Len(signedIn) /\ Len(signedIn) \in Nat
      BY DEF LoginTypes, L!TypeOK
    <2>3. QED
      BY <2>1, <2>2, FS_Interval DEF LoginTypes, Dated
  <1>2. \A S : (S \subseteq logins \/ S \subseteq DOMAIN verified \/ S \subseteq DOMAIN signedIn)
                  => IsFiniteSet(S) /\ Cardinality(S) \in Nat
    BY <1>1, FS_Subset, FS_CardinalityType
  <1>3. \A a, from : /\ Since(a, from) \subseteq logins /\ VerifiedSince(a, from) \subseteq DOMAIN verified
                     /\ L!For(L!Live(logins), a) \subseteq logins
    BY DEF Since, VerifiedSince, L!For, L!Live
  <1>4. \A c : SignedIn(c) \subseteq DOMAIN signedIn /\ Passing(c) \subseteq Busy
    BY DEF SignedIn, Passing, Busy
  <1>5. \A a : BusyFor(a) \subseteq Busy
    BY DEF BusyFor
  <1>6. \A S \in SUBSET Busy : IsFiniteSet(S) /\ Cardinality(S) \in Nat /\ Cardinality(S) <= Slots
    BY BusyFinite, LoginConstants
  <1> HIDE DEF LoginTypes
  <1>7. QED
    BY <1>2, <1>3, <1>4, <1>5, <1>6 DEF Counted

(* What was verified within the present window is bounded by what was admitted in it. *)
LEMMA WindowBounded ==
    ASSUME LoginTypes, AttemptsLimited, VerifiedAreAttempts, NEW a \in Accounts, NEW from \in 0..MaxClock,
           clock < from + Window
    PROVE  Cardinality(Within(a, from)) <= AccountLimit + Slots
  <1>0. clock \in Nat /\ from \in Nat /\ \A e \in logins : e.time \in Nat
    BY LoginConstants DEF LoginTypes, L!TypeOK
  <1>1. Within(a, from) \subseteq VerifiedSince(a, from)
    <2>1. \A i \in DOMAIN verified : verified[i].time \in from..(from + Window - 1) => verified[i].time >= from
      BY <1>0, LoginConstants
    <2>2. QED
      BY <2>1 DEF Within, VerifiedSince
  <1>2. Since(a, from) \subseteq L!For(L!Live(logins), a)
    BY <1>0, LoginConstants DEF Since, L!For, L!Live
  <1>3. /\ IsFiniteSet(VerifiedSince(a, from)) /\ IsFiniteSet(L!For(L!Live(logins), a))
        /\ Cardinality(VerifiedSince(a, from)) \in Nat /\ Cardinality(BusyFor(a)) \in Nat
        /\ Cardinality(Since(a, from)) \in Nat /\ Cardinality(L!For(L!Live(logins), a)) \in Nat
    BY CountsFinite DEF Counted
  <1>4. /\ Cardinality(Within(a, from)) \in Nat /\ Cardinality(Within(a, from)) <= Cardinality(VerifiedSince(a, from))
        /\ Cardinality(Since(a, from)) <= Cardinality(L!For(L!Live(logins), a))
    BY <1>1, <1>2, <1>3, FS_Subset, FS_CardinalityType
  <1>5. Cardinality(L!For(L!Live(logins), a)) <= AccountLimit
    BY DEF AttemptsLimited
  <1>6. Cardinality(VerifiedSince(a, from)) + Cardinality(BusyFor(a)) <= Cardinality(Since(a, from)) + Slots
    BY DEF VerifiedAreAttempts
  <1>7. QED
    BY <1>3, <1>4, <1>5, <1>6, LoginConstants

PresentBounded ==
    \A a \in Accounts : \A from \in 0..MaxClock :
        clock < from + Window => Cardinality(Within(a, from)) <= AccountLimit + Slots

LEMMA PresentIsBounded == LoginTypes /\ AttemptsLimited /\ VerifiedAreAttempts => PresentBounded
  BY WindowBounded DEF PresentBounded

LEMMA BoundedIsWithin ==
    L!VerificationsBounded
      <=> \A a \in Accounts : \A from \in 0..MaxClock : Cardinality(Within(a, from)) <= AccountLimit + Slots
  BY LoginCardinality DEF L!VerificationsBounded, Within

-----------------------------------------------------------------------------
(* Whoever only leaves, or stays, takes nothing from the counts.                  *)
LEMMA CountsKept ==
    ASSUME LoginInv, clock' = clock, logins' = logins, verified' = verified,
           \A a : BusyFor(a)' \subseteq BusyFor(a)
    PROVE  VerifiedAreAttempts' /\ AttemptsLimited' /\ L!VerificationsBounded'
  <1>1. \A a, from : Since(a, from)' = Since(a, from) /\ VerifiedSince(a, from)' = VerifiedSince(a, from)
    BY DEF Since, VerifiedSince
  <1>2. \A a : /\ Cardinality(BusyFor(a)') \in Nat /\ Cardinality(BusyFor(a)') <= Cardinality(BusyFor(a))
               /\ Cardinality(BusyFor(a)) \in Nat
    BY CountsFinite, FS_Subset, FS_CardinalityType DEF LoginInv, Counted
  <1>3. ASSUME NEW a \in Accounts, NEW from \in 0..MaxClock, clock' < from + Window
        PROVE  Cardinality(VerifiedSince(a, from))' + Cardinality(BusyFor(a))' <= Cardinality(Since(a, from))' + Slots
    <2>1. Cardinality(VerifiedSince(a, from)) + Cardinality(BusyFor(a)) <= Cardinality(Since(a, from)) + Slots
      BY <1>3 DEF LoginInv, VerifiedAreAttempts
    <2>2. Cardinality(VerifiedSince(a, from)) \in Nat /\ Cardinality(Since(a, from)) \in Nat
      BY CountsFinite DEF LoginInv, Counted
    <2>3. QED
      BY <1>1, <1>2, <2>1, <2>2, LoginConstants
  <1>4. VerifiedAreAttempts'
    BY <1>3 DEF VerifiedAreAttempts
  <1>5. AttemptsLimited'
    BY DEF LoginInv, AttemptsLimited, L!For, L!Live
  <1>6. L!VerificationsBounded'
    BY DEF LoginInv, L!VerificationsBounded
  <1>7. QED
    BY <1>4, <1>5, <1>6

(* Nor does a challenge let in more when nobody else passes it.                   *)
LEMMA PassingKept ==
    ASSUME LoginInv, signedIn' = signedIn,
           \A c : Passing(c)' \subseteq Passing(c),
           \A c : \A t \in Passing(c)' : lAt'[t] = lAt[t],
           \A c \in L!Ids : challenges'[c].state \in {"none", "fresh"} => challenges[c].state \in {"none", "fresh"}
    PROVE  PassingLimited'
  <1> SUFFICES ASSUME NEW c \in L!Ids
               PROVE  /\ Cardinality(SignedIn(c)') + Cardinality(Passing(c)') <= Slots
                      /\ challenges'[c].state \in {"none", "fresh"} =>
                             SignedIn(c)' = {} /\ \A t \in Passing(c)' : lAt'[t] = "valid"
    BY DEF PassingLimited
  <1>1. SignedIn(c)' = SignedIn(c)
    BY DEF SignedIn
  <1>2. /\ Cardinality(Passing(c)') \in Nat /\ Cardinality(Passing(c)') <= Cardinality(Passing(c))
        /\ Cardinality(Passing(c)) \in Nat /\ Cardinality(SignedIn(c)) \in Nat
    BY CountsFinite, FS_Subset, FS_CardinalityType DEF LoginInv, Counted
  <1>3. /\ Cardinality(SignedIn(c)) + Cardinality(Passing(c)) <= Slots
        /\ challenges[c].state \in {"none", "fresh"} => SignedIn(c) = {} /\ \A t \in Passing(c) : lAt[t] = "valid"
    BY DEF LoginInv, PassingLimited
  <1>4. Cardinality(SignedIn(c)') + Cardinality(Passing(c)') <= Slots
    BY <1>1, <1>2, <1>3, LoginConstants
  <1>5. challenges'[c].state \in {"none", "fresh"} =>
            SignedIn(c)' = {} /\ \A t \in Passing(c)' : lAt'[t] = "valid"
    BY <1>1, <1>3
  <1>6. QED
    BY <1>4, <1>5

(* The types after a login leaves, or after a page.                              *)
LEMMA LeaveTypes ==
    ASSUME LoginTypes, NEW t \in Busy, L!Leave(t), UNCHANGED <<clock, logins>>,
           handedOut' \subseteq [time: 0..MaxClock, n: Nat, source: Sources], Dated(handedOut'),
           challenges' \in [L!Ids -> [state: {"none", "fresh", "used", "deleted"}, expires: Nat]],
           verified' \in Seq([time: 0..MaxClock, account: Accounts]), signedIn' \in Seq(L!Ids),
           \A i \in DOMAIN verified' : verified'[i].time <= clock
    PROVE  LoginTypes'
  <1>1. Dated(handedOut)' /\ Dated(logins)'
    BY DEF LoginTypes, Dated
  <1>2. \A v \in Busy' : login'[v] \in L!Logins
    <2>1. Busy' = Busy \ {t} /\ \A v \in Threads \ {t} : login'[v] = login[v]
      BY LeaveKeeps
    <2>2. \A v \in Busy : v \in Threads /\ login[v] \in L!Logins
      BY DEF LoginTypes, Busy
    <2>3. QED
      BY <2>1, <2>2
  <1>3. slots' = Slots - L!Cardinality({v \in Threads : lAt'[v] # "idle"}) /\ slots' >= 0
    BY LeaveKeeps, LoginCardinality DEF Busy
  <1>4. L!TypeOK'
    BY <1>3, LeaveKeeps DEF LoginTypes, L!TypeOK
  <1>5. QED
    BY <1>1, <1>2, <1>4 DEF LoginTypes

LEMMA LeaveOnly ==
    ASSUME LoginInv, NEW t \in Busy, L!Leave(t), UNCHANGED <<clock, logins, verified, signedIn>>,
           handedOut' \subseteq [time: 0..MaxClock, n: Nat, source: Sources], Dated(handedOut'),
           challenges' \in [L!Ids -> [state: {"none", "fresh", "used", "deleted"}, expires: Nat]],
           \A c \in L!Ids : challenges'[c].state \in {"none", "fresh"} => challenges[c].state \in {"none", "fresh"}
    PROVE  LoginInv'
  <1>1. LoginTypes'
    BY LeaveTypes DEF LoginInv, LoginTypes, L!TypeOK
  <1>2. /\ \A a : BusyFor(a)' \subseteq BusyFor(a)
        /\ \A c : Passing(c)' \subseteq Passing(c)
        /\ \A c : \A v \in Passing(c)' : lAt'[v] = lAt[v]
    BY LeaveKeeps DEF LoginInv, Passing
  <1>3. QED
    BY <1>1, <1>2, CountsKept, PassingKept DEF LoginInv

LEMMA LoginStarts == ASSUME L!Init PROVE LoginInv
  <1>1. Busy = {}
    BY DEF L!Init, Busy
  <1>2. LoginTypes
    <2>1. {t \in Threads : lAt[t] # "idle"} = {}
      BY DEF L!Init
    <2>2. slots = Slots - L!Cardinality({t \in Threads : lAt[t] # "idle"}) /\ slots >= 0
      <3>1. L!Cardinality({}) = 0
        BY LoginCardinality, FS_EmptySet
      <3>2. slots = Slots
        BY DEF L!Init
      <3>3. QED
        BY <2>1, <3>1, <3>2, LoginConstants
    <2>4. verified \in Seq([time: 0..MaxClock, account: Accounts]) /\ signedIn \in Seq(L!Ids)
      BY DEF L!Init
    <2>5. clock \in 0..MaxClock /\ challenges \in [L!Ids -> [state: {"none", "fresh", "used", "deleted"}, expires: Nat]]
      BY LoginConstants DEF L!Init, L!NoChallenge
    <2>6. L!TypeOK
      BY <2>2, <2>4, <2>5 DEF L!Init, L!TypeOK
    <2>3. QED
      BY <1>1, <2>6, FS_EmptySet DEF LoginTypes, Dated, L!Init
  <1>3. \A S : S \subseteq {} => Cardinality(S) = 0
    BY FS_EmptySet
  <1>4. AttemptsLimited /\ VerifiedAreAttempts
    <2>1. \A a : L!For(L!Live(logins), a) \subseteq {} /\ BusyFor(a) \subseteq {}
      BY <1>1 DEF L!For, L!Live, BusyFor, L!Init
    <2>2. \A a, from : Since(a, from) \subseteq {} /\ VerifiedSince(a, from) \subseteq {}
      BY DEF Since, VerifiedSince, L!Init
    <2>3. QED
      BY <1>3, <2>1, <2>2, LoginConstants DEF AttemptsLimited, VerifiedAreAttempts
  <1>5. L!VerificationsBounded
    <2>1. \A a, from : Within(a, from) \subseteq {}
      BY DEF Within, L!Init
    <2>2. QED
      BY <1>3, <2>1, BoundedIsWithin, LoginConstants
  <1>6. PassingLimited
    <2>1. \A c : SignedIn(c) \subseteq {} /\ Passing(c) \subseteq {}
      BY DEF SignedIn, Passing, L!Init
    <2>2. QED
      BY <1>3, <2>1, LoginConstants DEF PassingLimited
  <1>7. QED
    BY <1>2, <1>4, <1>5, <1>6 DEF LoginInv

LEMMA PageKeeps ==
    ASSUME LoginInv, NEW s \in Sources, L!Page(s)
    PROVE  LoginInv'
  <1>1. /\ L!Replace(s, challenges) /\ UNCHANGED <<clock, logins, login, lAt, slots, verified, signedIn>>
    BY DEF L!Page
  <1>2. /\ handedOut' \subseteq [time: 0..MaxClock, n: Nat, source: Sources] /\ Dated(handedOut')
        /\ challenges' \in [L!Ids -> [state: {"none", "fresh", "used", "deleted"}, expires: Nat]]
        /\ \A c \in L!Ids : challenges'[c].state \in {"none", "fresh"} => challenges[c].state \in {"none", "fresh"}
    BY <1>1, ReplaceKeeps DEF LoginInv
  <1>3. Busy' = Busy /\ \A a : BusyFor(a)' = BusyFor(a)
    BY <1>1 DEF Busy, BusyFor
  <1>4. \A c : Passing(c)' = Passing(c)
    BY <1>1 DEF Passing
  <1>5. LoginTypes'
    <2>1. Dated(handedOut)' /\ Dated(logins)'
      BY <1>1, <1>2 DEF LoginInv, LoginTypes, Dated
    <2>2. L!TypeOK'
      BY <1>1, <1>2 DEF LoginInv, LoginTypes, L!TypeOK
    <2>3. QED
      BY <1>1, <1>3, <2>1, <2>2 DEF LoginInv, LoginTypes
  <1>6. QED
    BY <1>1, <1>2, <1>3, <1>4, <1>5, CountsKept, PassingKept DEF LoginInv

LEMMA RejectKeeps ==
    ASSUME LoginInv, NEW t \in Threads, L!Reject(t)
    PROVE  LoginInv'
  <1>1. /\ t \in Busy /\ login[t].source \in Sources /\ L!Replace(login[t].source, challenges) /\ L!Leave(t)
        /\ UNCHANGED <<clock, logins, verified, signedIn>>
    BY DEF L!Reject, Busy, LoginInv, LoginTypes, L!Logins
  <1>2. QED
    BY <1>1, ReplaceKeeps, LeaveOnly DEF LoginInv

LEMMA RaiseKeeps ==
    ASSUME LoginInv, NEW t \in Threads, L!Raise(t)
    PROVE  LoginInv'
  <1>1. t \in Busy /\ L!Leave(t) /\ UNCHANGED <<clock, logins, handedOut, challenges, verified, signedIn>>
    BY DEF L!Raise, Busy
  <1>2. QED
    BY <1>1, LeaveOnly DEF LoginInv, LoginTypes, L!TypeOK

LEMMA ConsumeKeeps ==
    ASSUME LoginInv, NEW t \in Threads, L!Consume(t)
    PROVE  LoginInv'
  <1>0. t \in Busy /\ lAt[t] = "valid" /\ login[t].challenge \in L!Ids
    BY DEF L!Consume, Busy, LoginInv, LoginTypes, L!Logins
  <1>1. CASE L!Leave(t) /\ UNCHANGED challenges
    BY <1>0, <1>1, LeaveOnly DEF L!Consume, LoginInv, LoginTypes, L!TypeOK
  <1>2. CASE challenges[login[t].challenge].state # "deleted"
    <2> DEFINE used == login[t].challenge
    <2>1. /\ challenges' = [challenges EXCEPT ![used].state = "used"] /\ lAt' = [lAt EXCEPT ![t] = "consumed"]
          /\ UNCHANGED <<clock, logins, handedOut, login, slots, verified, signedIn>>
      BY <1>2 DEF L!Consume
    <2>2. Busy' = Busy /\ (\A a : BusyFor(a)' = BusyFor(a)) /\ \A c : Passing(c)' = Passing(c)
      BY <1>0, <2>1 DEF Busy, BusyFor, Passing, LoginInv, LoginTypes, L!TypeOK
    <2>3. LoginTypes'
      <3>1. /\ lAt' \in [Threads -> {"idle", "admitted", "valid", "refused", "consumed"}]
            /\ challenges' \in [L!Ids -> [state: {"none", "fresh", "used", "deleted"}, expires: Nat]]
        BY <1>0, <2>1 DEF LoginInv, LoginTypes, L!TypeOK
      <3>2. slots' = Slots - L!Cardinality({v \in Threads : lAt'[v] # "idle"}) /\ slots' >= 0
        BY <2>1, <2>2 DEF Busy, LoginInv, LoginTypes, L!TypeOK
      <3>3. L!TypeOK'
        BY <2>1, <3>1, <3>2 DEF LoginInv, LoginTypes, L!TypeOK
      <3>4. QED
        BY <2>1, <2>2, <3>3 DEF LoginInv, LoginTypes, Dated
    <2>4. PassingLimited'
      <3>1. \A c : SignedIn(c)' = SignedIn(c)
        BY <2>1 DEF SignedIn
      <3>2. ASSUME NEW c \in L!Ids, challenges'[c].state \in {"none", "fresh"}
            PROVE  challenges[c].state \in {"none", "fresh"} /\ t \notin Passing(c)
        BY <1>0, <2>1, <3>2 DEF LoginInv, LoginTypes, L!TypeOK, Passing
      <3>3. \A v \in Threads \ {t} : lAt'[v] = lAt[v]
        BY <2>1 DEF LoginInv, LoginTypes, L!TypeOK
      <3>4. \A c : Passing(c) \subseteq Threads
        BY DEF Passing
      <3>5. QED
        BY <2>2, <3>1, <3>2, <3>3, <3>4 DEF LoginInv, PassingLimited
    <2>5. QED
      BY <2>1, <2>2, <2>3, <2>4, CountsKept DEF LoginInv
  <1>3. QED
    BY <1>1, <1>2 DEF L!Consume

LEMMA ReadKeeps ==
    ASSUME LoginInv, NEW t \in Threads, L!ReadChallenge(t)
    PROVE  LoginInv'
  <1> DEFINE mine == login[t].challenge
             next == IF L!Usable(challenges[mine]) THEN "valid" ELSE "refused"
  <1>0. /\ lAt[t] = "admitted" /\ UNCHANGED <<clock, logins, handedOut, challenges, login, slots, verified, signedIn>>
        /\ lAt' = [lAt EXCEPT ![t] = next]
        /\ next = "refused" \/ (next = "valid" /\ challenges[mine].state = "fresh")
    <2>1. /\ lAt[t] = "admitted" /\ UNCHANGED <<clock, logins, handedOut, challenges, login, slots, verified, signedIn>>
          /\ lAt' = [lAt EXCEPT ![t] = next]
      BY Zenon DEF L!ReadChallenge
    <2>2. CASE L!Usable(challenges[mine])
      BY <2>1, <2>2 DEF L!Usable
    <2>3. CASE ~L!Usable(challenges[mine])
      BY <2>1, <2>3, Zenon
    <2>4. QED
      BY <2>2, <2>3
  <1> HIDE DEF next
  <1>1. /\ lAt[t] = "admitted" /\ UNCHANGED <<clock, logins, handedOut, challenges, login, slots, verified, signedIn>>
        /\ lAt' = [lAt EXCEPT ![t] = lAt'[t]]
        /\ lAt'[t] = "refused" \/ (lAt'[t] = "valid" /\ challenges[mine].state = "fresh")
    BY <1>0 DEF LoginInv, LoginTypes, L!TypeOK
  <1>2. Busy' = Busy /\ \A a : BusyFor(a)' = BusyFor(a)
    BY <1>1 DEF Busy, BusyFor, LoginInv, LoginTypes, L!TypeOK
  <1>3. LoginTypes'
    <2>1. lAt' \in [Threads -> {"idle", "admitted", "valid", "refused", "consumed"}]
      BY <1>1 DEF LoginInv, LoginTypes, L!TypeOK
    <2>2. slots' = Slots - L!Cardinality({v \in Threads : lAt'[v] # "idle"}) /\ slots' >= 0
      BY <1>1, <1>2 DEF Busy, LoginInv, LoginTypes, L!TypeOK
    <2>3. L!TypeOK'
      BY <1>1, <2>1, <2>2 DEF LoginInv, LoginTypes, L!TypeOK
    <2>4. QED
      BY <1>1, <1>2, <2>3 DEF LoginInv, LoginTypes, Dated
  <1>4. LoginTypes
    BY DEF LoginInv
  <1>5. PassingLimited'
    <2> SUFFICES ASSUME NEW c \in L!Ids
                 PROVE  /\ Cardinality(SignedIn(c)') + Cardinality(Passing(c)') <= Slots
                        /\ challenges'[c].state \in {"none", "fresh"} =>
                               SignedIn(c)' = {} /\ \A v \in Passing(c)' : lAt'[v] = "valid"
      BY DEF PassingLimited
    <2>1. SignedIn(c)' = SignedIn(c) /\ challenges' = challenges
      BY <1>1 DEF SignedIn
    <2>2. CASE lAt'[t] = "valid" /\ c = mine
      <3>1. SignedIn(c) = {} /\ \A v \in Passing(c) : lAt[v] = "valid"
        BY <1>1, <2>2 DEF LoginInv, PassingLimited
      <3>2. Passing(c)' = Passing(c) \cup {t}
        BY <1>1, <2>2 DEF Passing, LoginInv, LoginTypes, L!TypeOK
      <3>3. Passing(c)' \subseteq Busy
        BY <1>1, <3>2 DEF Passing, Busy
      <3>4. Cardinality(Passing(c)') \in Nat /\ Cardinality(Passing(c)') <= Slots
        BY <1>4, <3>3, BusyFinite, LoginConstants
      <3>5. Cardinality({}) = 0
        BY FS_EmptySet
      <3>6. \A v \in Passing(c)' : lAt'[v] = "valid"
        BY <1>1, <2>2, <3>1, <3>2 DEF Passing, LoginInv, LoginTypes, L!TypeOK
      <3>7. QED
        BY <2>1, <3>1, <3>4, <3>5, <3>6
    <2>3. CASE lAt'[t] # "valid" \/ c # mine
      <3>1. Passing(c)' = Passing(c)
        BY <1>1, <2>3 DEF Passing, LoginInv, LoginTypes, L!TypeOK
      <3>2. \A v \in Passing(c) : lAt'[v] = lAt[v]
        BY <1>1 DEF Passing, LoginInv, LoginTypes, L!TypeOK
      <3>3. QED
        BY <2>1, <3>1, <3>2 DEF LoginInv, PassingLimited
    <2>4. QED
      BY <2>2, <2>3
  <1>6. QED
    BY <1>1, <1>2, <1>3, <1>5, CountsKept DEF LoginInv

-----------------------------------------------------------------------------
(* An attempt that is admitted is one more, and one more is at work at the most.     *)
LEMMA AcquireKeeps ==
    ASSUME LoginInv, NEW t \in Threads, NEW l \in L!Logins, L!Acquire(t, l)
    PROVE  LoginInv'
  <1> DEFINE e == [time |-> clock, n |-> L!NextNumber(logins), source |-> l.source, account |-> l.account]
             enters == L!Admissible(l) /\ slots > 0
  <1>0. /\ clock \in Nat /\ clock \in 0..MaxClock /\ l.source \in Sources /\ l.account \in Accounts
        /\ l.challenge \in L!Ids
        /\ \A x \in logins : x.time \in Nat /\ x.n \in Nat
        /\ LoginTypes
    BY LoginConstants DEF LoginInv, LoginTypes, L!TypeOK, L!Logins
  <1>1. UNCHANGED <<clock, handedOut, challenges, verified, signedIn>> /\ lAt[t] = "idle"
    BY DEF L!Acquire
  <1>2. \/ /\ logins' = L!Live(logins) \cup {e} /\ L!Admissible(l)
           /\ slots > 0 /\ slots' = slots - 1
           /\ login' = [login EXCEPT ![t] = l] /\ lAt' = [lAt EXCEPT ![t] = "admitted"]
        \/ /\ logins' = L!Live(logins) \cup {e} /\ L!Admissible(l) /\ UNCHANGED <<login, lAt, slots>>
        \/ logins' = L!Live(logins) /\ UNCHANGED <<login, lAt, slots>>
    BY DEF L!Acquire
  <1>3. e \notin logins /\ e.n \in Nat /\ Dated(L!Live(logins) \cup {e}) /\ Dated(L!Live(logins))
    BY <1>0, LogExtended, LogPurged DEF LoginTypes
  <1>4. e.time = clock /\ e.account = l.account /\ e \in [time: 0..MaxClock, n: Nat, source: Sources, account: Accounts]
    BY <1>0, <1>3
  <1> HIDE DEF e
  (* The logins at work.                                                        *)
  <1>5. \/ /\ Busy' = Busy \cup {t} /\ t \notin Busy /\ slots' = slots - 1 /\ slots > 0 /\ logins' = L!Live(logins) \cup {e}
           /\ lAt' \in [Threads -> {"idle", "admitted", "valid", "refused", "consumed"}]
           /\ login' \in [Threads -> L!Logins \cup {Nobody}]
           /\ login'[t] = l /\ \A v \in Threads \ {t} : lAt'[v] = lAt[v] /\ login'[v] = login[v]
           /\ lAt'[t] = "admitted"
        \/ Busy' = Busy /\ UNCHANGED <<login, lAt, slots>>
    BY <1>0, <1>1, <1>2 DEF Busy, LoginTypes, L!TypeOK
  <1>6. /\ \A c : Passing(c)' = Passing(c)
        /\ \A c : \A v \in Passing(c)' : lAt'[v] = lAt[v]
        /\ \A a : \/ BusyFor(a)' \subseteq BusyFor(a)
                  \/ BusyFor(a)' \subseteq BusyFor(a) \cup {t} /\ a = e.account /\ logins' = L!Live(logins) \cup {e}
    <2>1. \A v \in Threads : (lAt'[v] = lAt[v] /\ login'[v] = login[v]) \/ (v = t /\ lAt'[t] = "admitted")
      BY <1>5
    <2>2. \A c : Passing(c)' = Passing(c)
      BY <1>1, <2>1 DEF Passing
    <2>3. \A c : \A v \in Passing(c)' : lAt'[v] = lAt[v]
      BY <2>1 DEF Passing
    <2>4. CASE UNCHANGED <<login, lAt, slots>>
      <3>1. \A a : BusyFor(a)' = BusyFor(a)
        BY <2>4 DEF BusyFor, Busy
      <3>2. QED
        BY <2>2, <2>3, <3>1
    <2>5. CASE ~UNCHANGED <<login, lAt, slots>>
      <3>1. /\ Busy' = Busy \cup {t} /\ login'[t] = l /\ logins' = L!Live(logins) \cup {e}
            /\ \A v \in Busy : v \in Threads /\ v # t /\ login'[v] = login[v]
        BY <1>1, <1>5, <2>5 DEF Busy
      <3>2. \A a : BusyFor(a)' \subseteq BusyFor(a) \/ (BusyFor(a)' \subseteq BusyFor(a) \cup {t} /\ a = e.account)
        BY <1>4, <3>1 DEF BusyFor
      <3>3. QED
        BY <2>2, <2>3, <3>1, <3>2
    <2>6. QED
      BY <2>4, <2>5
  <1>7. LoginTypes'
    <2>1. logins' \subseteq [time: 0..MaxClock, n: Nat, source: Sources, account: Accounts] /\ Dated(logins')
      BY <1>2, <1>3, <1>4 DEF L!Live, LoginInv, LoginTypes, L!TypeOK
    <2>2. slots' = Slots - Cardinality(Busy') /\ slots' >= 0
      <3>1. t \notin Busy => Cardinality(Busy \cup {t}) = Cardinality(Busy) + 1
        BY <1>0, BusyFinite, FS_AddElement
      <3>2. slots = Slots - Cardinality(Busy) /\ slots \in Nat /\ Cardinality(Busy) \in Nat
        BY <1>0, BusyFinite
      <3>3. CASE Busy' = Busy /\ slots' = slots
        BY <3>2, <3>3
      <3>4. CASE Busy' = Busy \cup {t} /\ t \notin Busy /\ slots' = slots - 1 /\ slots > 0
        <4>1. Cardinality(Busy') = Cardinality(Busy) + 1
          BY <3>1, <3>4
        <4>2. QED
          BY <3>2, <3>4, <4>1, LoginConstants
      <3>5. QED
        BY <1>5, <3>3, <3>4
    <2>3. slots' = Slots - L!Cardinality({v \in Threads : lAt'[v] # "idle"}) /\ slots' >= 0
      BY <2>2, LoginCardinality DEF Busy
    <2>4. /\ lAt' \in [Threads -> {"idle", "admitted", "valid", "refused", "consumed"}]
          /\ login' \in [Threads -> L!Logins \cup {Nobody}]
      BY <1>5 DEF LoginInv, LoginTypes, L!TypeOK
    <2>5. L!TypeOK'
      BY <1>1, <2>1, <2>3, <2>4 DEF LoginInv, LoginTypes, L!TypeOK
    <2>6. \A v \in Busy' : login'[v] \in L!Logins
      BY <1>5 DEF LoginInv, LoginTypes, Busy
    <2>7. Dated(logins)' /\ Dated(handedOut)'
      BY <1>1, <2>1 DEF LoginInv, LoginTypes, Dated
    <2>8. QED
      BY <1>1, <2>5, <2>6, <2>7 DEF LoginInv, LoginTypes
  <1>8. AttemptsLimited'
    <2> SUFFICES ASSUME NEW a \in Accounts PROVE Cardinality(L!For(L!Live(logins), a)') <= AccountLimit
      BY DEF AttemptsLimited
    <2>1. L!Live(L!Live(logins)) = L!Live(logins)
      BY DEF L!Live
    <2>2. L!Live(logins') \subseteq logins' /\ clock' = clock
      BY <1>1 DEF L!Live
    <2>3. Cardinality(L!For(L!Live(logins), a)) <= AccountLimit /\ Cardinality(L!For(L!Live(logins), a)) \in Nat
          /\ IsFiniteSet(L!For(L!Live(logins), a))
      BY <1>0, CountsFinite DEF LoginInv, AttemptsLimited, Counted
    <2>4. L!For(L!Live(logins), a)' \subseteq L!For(logins', a)
      BY DEF L!For, L!Live
    <2>5. CASE a # e.account \/ logins' = L!Live(logins)
      <3>1. L!For(logins', a) \subseteq L!For(L!Live(logins), a)
        BY <1>2, <2>5 DEF L!For
      <3>2. QED
        BY <2>3, <2>4, <3>1, FS_Subset, FS_CardinalityType, LoginConstants
    <2>6. CASE a = e.account /\ logins' # L!Live(logins)
      <3>1. L!For(logins', a) \subseteq L!For(L!Live(logins), a) \cup {e}
        BY <1>2, <2>6 DEF L!For
      <3>2. Cardinality(L!For(L!Live(logins), a)) < AccountLimit
        BY <1>2, <1>4, <2>6, LoginCardinality DEF L!Admissible
      <3>3. /\ IsFiniteSet(L!For(L!Live(logins), a) \cup {e})
            /\ Cardinality(L!For(L!Live(logins), a) \cup {e}) <= Cardinality(L!For(L!Live(logins), a)) + 1
        BY <2>3, FS_AddElement
      <3>4. QED
        BY <2>3, <2>4, <3>1, <3>2, <3>3, FS_Subset, FS_CardinalityType, LoginConstants
    <2>7. QED
      BY <2>5, <2>6
  <1>9. VerifiedAreAttempts'
    <2> SUFFICES ASSUME NEW a \in Accounts, NEW from \in 0..MaxClock, clock' < from + Window
                 PROVE  Cardinality(VerifiedSince(a, from)') + Cardinality(BusyFor(a)')
                          <= Cardinality(Since(a, from)') + Slots
      BY DEF VerifiedAreAttempts
    <2>1. VerifiedSince(a, from)' = VerifiedSince(a, from)
      BY <1>1 DEF VerifiedSince
    <2>2. /\ IsFiniteSet(BusyFor(a)) /\ Cardinality(BusyFor(a)) \in Nat /\ Cardinality(VerifiedSince(a, from)) \in Nat
          /\ IsFiniteSet(Since(a, from)) /\ Cardinality(Since(a, from)) \in Nat
          /\ Cardinality(VerifiedSince(a, from)) + Cardinality(BusyFor(a)) <= Cardinality(Since(a, from)) + Slots
      BY <1>0, <1>1, CountsFinite DEF LoginInv, VerifiedAreAttempts, Counted
    <2>3. /\ Cardinality(BusyFor(a)') \in Nat /\ Cardinality(Since(a, from)') \in Nat
          /\ Cardinality(BusyFor(a)') <= Slots /\ IsFiniteSet(BusyFor(a)')
      <3>1. LoginTypes' => Counted'
        BY CountsFinite, PTL
      <3>2. QED
        BY <1>7, <3>1 DEF Counted
    <2>4. CASE clock < from
      <3>1. \A i \in DOMAIN verified : verified[i].time \in Nat /\ verified[i].time <= clock
        <4>1. \A i \in DOMAIN verified : verified[i] \in [time: 0..MaxClock, account: Accounts]
          <5>1. verified \in Seq([time: 0..MaxClock, account: Accounts])
            BY <1>0 DEF LoginTypes, L!TypeOK
          <5>2. QED
            BY <5>1, EntriesTyped
        <4>2. QED
          BY <1>0, <4>1, LoginConstants DEF LoginTypes
      <3>2. VerifiedSince(a, from) = {}
        BY <1>0, <2>4, <3>1, LoginConstants DEF VerifiedSince
      <3>3. QED
        BY <2>1, <2>3, <3>2, FS_EmptySet, LoginConstants
    <2>5. CASE clock >= from
      <3>1. Since(a, from)' = IF a = e.account /\ logins' # L!Live(logins) THEN Since(a, from) \cup {e} ELSE Since(a, from)
        <4>1. \A x \in logins : x.time >= from => x \in L!Live(logins)
          BY <1>0, <1>1, LoginConstants DEF L!Live
        <4>2. L!Live(logins) \subseteq logins
          BY DEF L!Live
        <4>3. e.time >= from
          BY <1>4, <2>5
        <4>4. QED
          BY <1>2, <4>1, <4>2, <4>3 DEF Since
      <3>2. Cardinality(Since(a, from) \cup {e}) = Cardinality(Since(a, from)) + 1
        BY <1>3, <2>2, FS_AddElement DEF Since
      <3>3. CASE BusyFor(a)' \subseteq BusyFor(a)
        <4>1. Cardinality(BusyFor(a)') <= Cardinality(BusyFor(a))
          BY <2>2, <3>3, FS_Subset
        <4>2. Cardinality(Since(a, from)') >= Cardinality(Since(a, from))
          BY <2>2, <3>1, <3>2
        <4>3. QED
          BY <2>1, <2>2, <2>3, <4>1, <4>2, LoginConstants
      <3>4. CASE BusyFor(a)' \subseteq BusyFor(a) \cup {t} /\ a = e.account /\ logins' = L!Live(logins) \cup {e}
        <4>1. IsFiniteSet(BusyFor(a) \cup {t}) /\ Cardinality(BusyFor(a) \cup {t}) <= Cardinality(BusyFor(a)) + 1
              /\ Cardinality(BusyFor(a) \cup {t}) \in Nat
          <5>1. IsFiniteSet(BusyFor(a) \cup {t})
            BY <2>2, FS_AddElement
          <5>2. CASE t \in BusyFor(a)
            <6>1. BusyFor(a) \cup {t} = BusyFor(a)
              BY <5>2
            <6>2. QED
              BY <2>2, <6>1
          <5>3. CASE t \notin BusyFor(a)
            BY <2>2, <5>1, <5>3, FS_AddElement
          <5>4. QED
            BY <5>2, <5>3
        <4>2. Cardinality(BusyFor(a)') <= Cardinality(BusyFor(a)) + 1
          BY <2>2, <2>3, <3>4, <4>1, FS_Subset
        <4>3. logins' # L!Live(logins)
          BY <1>3, <3>4 DEF L!Live
        <4>4. QED
          BY <2>1, <2>2, <2>3, <3>1, <3>2, <3>4, <4>2, <4>3, LoginConstants
      <3>5. QED
        BY <1>6, <3>3, <3>4
    <2>6. QED
      BY <1>0, <2>4, <2>5, LoginConstants
  <1>10. L!VerificationsBounded'
    BY <1>1 DEF LoginInv, L!VerificationsBounded
  <1>11. PassingLimited'
    BY <1>1, <1>6, PassingKept
  <1>12. QED
    BY <1>7, <1>8, <1>9, <1>10, <1>11 DEF LoginInv

-----------------------------------------------------------------------------
(* A verification is of a login that was at work; a session, of one that has passed.  *)
LEMMA AuthenticateKeeps ==
    ASSUME LoginInv, NEW t \in Threads, L!Authenticate(t)
    PROVE  LoginInv'
  <1> DEFINE mine == login[t].challenge
             v == [time |-> clock, account |-> login[t].account]
  <1>1. /\ t \in Busy /\ lAt[t] = "consumed" /\ login[t] \in L!Logins
        /\ mine \in L!Ids /\ login[t].source \in Sources /\ login[t].account \in Accounts
    BY DEF L!Authenticate, Busy, LoginInv, LoginTypes, L!Logins
  <1>2. L!Leave(t) /\ UNCHANGED <<clock, logins>> /\ verified' = Append(verified, v)
    BY DEF L!Authenticate
  <1>3. \/ signedIn' = Append(signedIn, mine) /\ UNCHANGED <<handedOut, challenges>>
        \/ L!Replace(login[t].source, challenges) /\ UNCHANGED signedIn
    BY DEF L!Authenticate
  <1>4. LoginTypes /\ clock \in 0..MaxClock /\ clock \in Nat /\ v \in [time: 0..MaxClock, account: Accounts]
    BY <1>1, LoginConstants DEF LoginInv, LoginTypes, L!TypeOK
  <1>5. /\ verified \in Seq([time: 0..MaxClock, account: Accounts]) /\ signedIn \in Seq(L!Ids)
        /\ handedOut \subseteq [time: 0..MaxClock, n: Nat, source: Sources] /\ Dated(handedOut)
        /\ challenges \in [L!Ids -> [state: {"none", "fresh", "used", "deleted"}, expires: Nat]]
    BY DEF LoginInv, LoginTypes, L!TypeOK
  <1>6. /\ handedOut' \subseteq [time: 0..MaxClock, n: Nat, source: Sources] /\ Dated(handedOut')
        /\ challenges' \in [L!Ids -> [state: {"none", "fresh", "used", "deleted"}, expires: Nat]]
        /\ \A c \in L!Ids : challenges'[c].state \in {"none", "fresh"} => challenges[c].state \in {"none", "fresh"}
    BY <1>1, <1>3, <1>4, <1>5, ReplaceKeeps
  <1> HIDE DEF v, mine
  <1>7. /\ verified' \in Seq([time: 0..MaxClock, account: Accounts])
        /\ DOMAIN verified' = DOMAIN verified \cup {Len(verified) + 1}
        /\ \A i \in DOMAIN verified : verified'[i] = verified[i]
        /\ verified'[Len(verified) + 1] = v /\ Len(verified) + 1 \notin DOMAIN verified
    BY <1>2, <1>4, <1>5
  <1>8. v.time = clock /\ v.account = login[t].account
    BY DEF v
  <1>9. signedIn' \in Seq(L!Ids)
    <2>1. CASE signedIn' = Append(signedIn, mine)
      BY <1>1, <1>5, <2>1
    <2>2. CASE UNCHANGED signedIn
      BY <1>5, <2>2
    <2>3. QED
      BY <1>3, <2>1, <2>2
  <1>10. LoginTypes'
    <2>1. \A i \in DOMAIN verified' : verified'[i].time <= clock
      BY <1>4, <1>7, <1>8 DEF LoginTypes
    <2>2. QED
      BY <1>1, <1>2, <1>4, <1>6, <1>7, <1>9, <2>1, LeaveTypes
  <1>11. /\ \A a : BusyFor(a)' = BusyFor(a) \ {t}
         /\ \A c : Passing(c)' = Passing(c) \ {t}
         /\ \A u \in Threads \ {t} : lAt'[u] = lAt[u]
    BY <1>1, <1>2, <1>4, LeaveKeeps
  <1>12. Counted /\ Counted'
    <2>1. LoginTypes' => Counted'
      BY CountsFinite, PTL
    <2>2. QED
      BY <1>4, <1>10, <2>1, CountsFinite
  <1>13. AttemptsLimited'
    BY <1>2 DEF LoginInv, AttemptsLimited, L!For, L!Live
  <1>14. VerifiedAreAttempts'
    <2> SUFFICES ASSUME NEW a \in Accounts, NEW from \in 0..MaxClock, clock' < from + Window
                 PROVE  Cardinality(VerifiedSince(a, from)') + Cardinality(BusyFor(a)')
                          <= Cardinality(Since(a, from)') + Slots
      BY DEF VerifiedAreAttempts
    <2>1. Since(a, from)' = Since(a, from)
      BY <1>2 DEF Since
    <2>2. /\ IsFiniteSet(BusyFor(a)) /\ Cardinality(BusyFor(a)) \in Nat
          /\ IsFiniteSet(VerifiedSince(a, from)) /\ Cardinality(VerifiedSince(a, from)) \in Nat
          /\ Cardinality(Since(a, from)) \in Nat /\ Cardinality(BusyFor(a)') \in Nat
          /\ Cardinality(VerifiedSince(a, from)) + Cardinality(BusyFor(a)) <= Cardinality(Since(a, from)) + Slots
      BY <1>2, <1>12 DEF Counted, LoginInv, VerifiedAreAttempts
    <2>3. CASE a = v.account
      <3>1. t \in BusyFor(a)
        BY <1>1, <1>8, <2>3 DEF BusyFor
      <3>2. Cardinality(BusyFor(a)') = Cardinality(BusyFor(a)) - 1
        BY <1>11, <2>2, <3>1, FS_RemoveElement
      <3>3. VerifiedSince(a, from)' \subseteq VerifiedSince(a, from) \cup {Len(verified) + 1}
        BY <1>7 DEF VerifiedSince
      <3>4. Len(verified) + 1 \notin VerifiedSince(a, from)
        BY <1>7 DEF VerifiedSince
      <3>5. /\ IsFiniteSet(VerifiedSince(a, from) \cup {Len(verified) + 1})
            /\ Cardinality(VerifiedSince(a, from) \cup {Len(verified) + 1}) = Cardinality(VerifiedSince(a, from)) + 1
        BY <2>2, <3>4, FS_AddElement
      <3>6. /\ Cardinality(VerifiedSince(a, from)') <= Cardinality(VerifiedSince(a, from)) + 1
            /\ Cardinality(VerifiedSince(a, from)') \in Nat
        BY <3>3, <3>5, FS_Subset, FS_CardinalityType
      <3>7. QED
        BY <2>1, <2>2, <3>2, <3>6, LoginConstants
    <2>4. CASE a # v.account
      <3>1. VerifiedSince(a, from)' = VerifiedSince(a, from)
        BY <1>7, <2>4 DEF VerifiedSince
      <3>2. Cardinality(BusyFor(a)') <= Cardinality(BusyFor(a))
        BY <1>11, <2>2, FS_Subset
      <3>3. QED
        BY <2>1, <2>2, <3>1, <3>2, LoginConstants
    <2>5. QED
      BY <2>3, <2>4
  <1>15. L!VerificationsBounded'
    <2>1. ASSUME NEW a \in Accounts, NEW from \in 0..MaxClock
          PROVE  Cardinality(Within(a, from)') <= AccountLimit + Slots
      <3>1. CASE clock < from + Window
        <4>1. LoginTypes' /\ AttemptsLimited' /\ VerifiedAreAttempts' => PresentBounded'
          BY PresentIsBounded, PTL
        <4>2. QED
          BY <1>2, <1>10, <1>13, <1>14, <3>1, <4>1 DEF PresentBounded
      <3>2. CASE ~(clock < from + Window)
        <4>1. clock \notin from..(from + Window - 1)
          BY <1>4, <3>2, LoginConstants
        <4>2. Within(a, from)' = Within(a, from)
          BY <1>7, <1>8, <4>1 DEF Within
        <4>3. QED
          BY <4>2, BoundedIsWithin DEF LoginInv
      <3>3. QED
        BY <3>1, <3>2
    <2>2. L!VerificationsBounded'
            <=> \A a \in Accounts : \A from \in 0..MaxClock : Cardinality(Within(a, from)') <= AccountLimit + Slots
      BY LoginCardinality DEF L!VerificationsBounded, Within
    <2>3. QED
      BY <2>1, <2>2
  <1>16. PassingLimited'
    <2>1. CASE UNCHANGED signedIn
      <3>1. \A c : \A u \in Passing(c)' : u \in Threads \ {t}
        BY <1>11 DEF Passing
      <3>2. /\ \A c : Passing(c)' \subseteq Passing(c)
            /\ \A c : \A u \in Passing(c)' : lAt'[u] = lAt[u]
        BY <1>11, <3>1
      <3>3. QED
        BY <1>6, <2>1, <3>2, PassingKept
    <2>2. CASE signedIn' = Append(signedIn, mine) /\ UNCHANGED challenges
      <3> SUFFICES ASSUME NEW c \in L!Ids
                   PROVE  /\ Cardinality(SignedIn(c)') + Cardinality(Passing(c)') <= Slots
                          /\ challenges'[c].state \in {"none", "fresh"} =>
                                 SignedIn(c)' = {} /\ \A u \in Passing(c)' : lAt'[u] = "valid"
        BY DEF PassingLimited
      <3>1. /\ Cardinality(SignedIn(c)) + Cardinality(Passing(c)) <= Slots
            /\ challenges[c].state \in {"none", "fresh"} =>
                   SignedIn(c) = {} /\ \A u \in Passing(c) : lAt[u] = "valid"
            /\ IsFiniteSet(SignedIn(c)) /\ Cardinality(SignedIn(c)) \in Nat
            /\ IsFiniteSet(Passing(c)) /\ Cardinality(Passing(c)) \in Nat
            /\ Cardinality(Passing(c)') \in Nat
        BY <1>12 DEF Counted, LoginInv, PassingLimited
      <3>2. /\ DOMAIN signedIn' = DOMAIN signedIn \cup {Len(signedIn) + 1}
            /\ \A i \in DOMAIN signedIn : signedIn'[i] = signedIn[i]
            /\ signedIn'[Len(signedIn) + 1] = mine /\ Len(signedIn) + 1 \notin DOMAIN signedIn
        BY <1>1, <1>5, <2>2
      <3>3. CASE c = mine
        <4>1. t \in Passing(c)
          BY <1>1, <3>3 DEF Passing, mine
        <4>2. challenges'[c].state \notin {"none", "fresh"}
          BY <1>1, <2>2, <3>1, <4>1
        <4>3. Cardinality(Passing(c)') = Cardinality(Passing(c)) - 1
          BY <1>11, <3>1, <4>1, FS_RemoveElement
        <4>4. SignedIn(c)' = SignedIn(c) \cup {Len(signedIn) + 1} /\ Len(signedIn) + 1 \notin SignedIn(c)
          BY <3>2, <3>3 DEF SignedIn
        <4>5. Cardinality(SignedIn(c)') = Cardinality(SignedIn(c)) + 1
          BY <3>1, <4>4, FS_AddElement
        <4>6. QED
          BY <3>1, <4>2, <4>3, <4>5, LoginConstants
      <3>4. CASE c # mine
        <4>1. SignedIn(c)' = SignedIn(c)
          BY <3>2, <3>4 DEF SignedIn
        <4>2. Cardinality(Passing(c)') <= Cardinality(Passing(c))
          BY <1>11, <3>1, FS_Subset
        <4>3. \A u \in Passing(c)' : u \in Passing(c) /\ lAt'[u] = lAt[u]
          BY <1>11 DEF Passing
        <4>4. QED
          BY <2>2, <3>1, <4>1, <4>2, <4>3, LoginConstants
      <3>5. QED
        BY <3>3, <3>4
    <2>3. QED
      BY <1>3, <2>1, <2>2 DEF mine
  <1>17. QED
    BY <1>10, <1>13, <1>14, <1>15, <1>16 DEF LoginInv

LEMMA TickKeeps ==
    ASSUME LoginInv, L!Tick
    PROVE  LoginInv'
  <1>1. /\ clock < MaxClock /\ clock' = clock + 1
        /\ UNCHANGED <<logins, handedOut, challenges, login, lAt, slots, verified, signedIn>>
    BY DEF L!Tick
  <1>2. LoginTypes /\ clock \in Nat /\ clock' \in 0..MaxClock
    BY <1>1, LoginConstants DEF LoginInv, LoginTypes, L!TypeOK
  <1>3. ASSUME NEW log, Dated(log), \A e \in log : e.time \in Nat
        PROVE  IsFiniteSet(log) /\ \A e \in log : e.time <= clock + 1 /\ e.time # clock + 1
    <2>1. IsFiniteSet(log) /\ \A e \in log : e.time <= clock
      BY <1>3 DEF Dated
    <2>2. ASSUME NEW e \in log PROVE e.time <= clock + 1 /\ e.time # clock + 1
      <3>1. e.time \in Nat /\ e.time <= clock
        BY <1>3, <2>1
      <3>2. QED
        BY <1>2, <3>1
    <2>3. QED
      BY <2>1, <2>2
  <1>4. Dated(logins)' /\ Dated(handedOut)'
    <2>1. /\ \A e \in logins : e.time \in Nat
          /\ \A e \in handedOut : e.time \in Nat
      BY <1>2, LoginConstants DEF LoginTypes, L!TypeOK
    <2>2. Dated(logins) /\ Dated(handedOut)
      BY <1>2 DEF LoginTypes
    <2>3. QED
      BY <1>1, <1>3, <2>1, <2>2 DEF Dated
  <1>5. LoginTypes'
    <2>1. L!TypeOK'
      BY <1>1, <1>2 DEF LoginTypes, L!TypeOK
    <2>2. \A i \in DOMAIN verified : verified[i].time <= clock + 1
      <3>1. verified \in Seq([time: 0..MaxClock, account: Accounts])
        BY <1>2 DEF LoginTypes, L!TypeOK
      <3>2. \A i \in DOMAIN verified : verified[i].time \in Nat /\ verified[i].time <= clock
        <4>1. \A i \in DOMAIN verified : verified[i] \in [time: 0..MaxClock, account: Accounts]
          BY <3>1, EntriesTyped
        <4>2. QED
          BY <1>2, <4>1, LoginConstants DEF LoginTypes
      <3>3. QED
        BY <1>2, <3>2
    <2>3. Busy' = Busy
      BY <1>1 DEF Busy
    <2>4. QED
      BY <1>1, <1>2, <1>4, <2>1, <2>2, <2>3 DEF LoginTypes
  <1>6. /\ \A c : Passing(c)' = Passing(c) /\ SignedIn(c)' = SignedIn(c)
        /\ \A a : BusyFor(a)' = BusyFor(a)
        /\ \A a, from : Since(a, from)' = Since(a, from) /\ VerifiedSince(a, from)' = VerifiedSince(a, from)
    BY <1>1 DEF Passing, SignedIn, BusyFor, Busy, Since, VerifiedSince
  <1>7. VerifiedAreAttempts'
    <2> SUFFICES ASSUME NEW a \in Accounts, NEW from \in 0..MaxClock, clock' < from + Window
                 PROVE  Cardinality(VerifiedSince(a, from)') + Cardinality(BusyFor(a)')
                          <= Cardinality(Since(a, from)') + Slots
      BY DEF VerifiedAreAttempts
    <2>1. clock < from + Window
      BY <1>1, <1>2, LoginConstants
    <2>2. QED
      BY <1>6, <2>1 DEF LoginInv, VerifiedAreAttempts
  <1>8. AttemptsLimited'
    <2> SUFFICES ASSUME NEW a \in Accounts PROVE Cardinality(L!For(L!Live(logins), a)') <= AccountLimit
      BY DEF AttemptsLimited
    <2>1. \A e \in logins : e.time \in Nat
      BY <1>2, LoginConstants DEF LoginTypes, L!TypeOK
    <2>2. L!For(L!Live(logins), a)' \subseteq L!For(L!Live(logins), a)
      BY <1>1, <1>2, <2>1, LoginConstants DEF L!For, L!Live
    <2>3. IsFiniteSet(L!For(L!Live(logins), a)) /\ Cardinality(L!For(L!Live(logins), a)) \in Nat
      BY <1>2, CountsFinite DEF Counted
    <2>4. /\ Cardinality(L!For(L!Live(logins), a)') <= Cardinality(L!For(L!Live(logins), a))
          /\ Cardinality(L!For(L!Live(logins), a)') \in Nat
      BY <2>2, <2>3, FS_Subset, FS_CardinalityType
    <2>5. QED
      BY <2>3, <2>4, LoginConstants DEF LoginInv, AttemptsLimited
  <1>9. L!VerificationsBounded' /\ PassingLimited'
    BY <1>1, <1>6 DEF LoginInv, L!VerificationsBounded, PassingLimited
  <1>10. QED
    BY <1>5, <1>7, <1>8, <1>9 DEF LoginInv

LEMMA LoginStep == LoginInv /\ [L!Next]_loginVars => LoginInv'
  <1> SUFFICES ASSUME LoginInv, [L!Next]_loginVars PROVE LoginInv'
    OBVIOUS
  <1>1. ASSUME NEW s \in Sources, L!Page(s) PROVE LoginInv'
    BY <1>1, PageKeeps
  <1>2. ASSUME NEW t \in Threads, NEW l \in L!Logins, L!Acquire(t, l) PROVE LoginInv'
    BY <1>2, AcquireKeeps
  <1>3. ASSUME NEW t \in Threads, L!Serve(t) PROVE LoginInv'
    BY <1>3, ReadKeeps, ConsumeKeeps, RejectKeeps, AuthenticateKeeps DEF L!Serve
  <1>4. ASSUME NEW t \in Threads, L!Raise(t) PROVE LoginInv'
    BY <1>4, RaiseKeeps
  <1>5. CASE L!Tick
    BY <1>5, TickKeeps
  <1>6. CASE UNCHANGED loginVars
    <2>1. UNCHANGED <<clock, logins, handedOut, challenges, login, lAt, slots, verified, signedIn>>
      BY <1>6 DEF loginVars
    <2>2. LoginTypes'
      <3>1. L!TypeOK'
        BY <2>1 DEF LoginInv, LoginTypes, L!TypeOK
      <3>2. Dated(logins)' /\ Dated(handedOut)' /\ Busy' = Busy
        BY <2>1 DEF LoginInv, LoginTypes, Dated, Busy
      <3>3. QED
        BY <2>1, <3>1, <3>2 DEF LoginInv, LoginTypes
    <2>3. /\ \A a : BusyFor(a)' \subseteq BusyFor(a)
          /\ \A c : Passing(c)' \subseteq Passing(c)
          /\ \A c : \A t \in Passing(c)' : lAt'[t] = lAt[t]
      BY <2>1 DEF BusyFor, Busy, Passing
    <2>4. QED
      BY <2>1, <2>2, <2>3, CountsKept, PassingKept DEF LoginInv
  <1>7. QED
    BY <1>1, <1>2, <1>3, <1>4, <1>5, <1>6 DEF L!Next

(* What is checked follows: who is signed in by a challenge has passed it.           *)
LEMMA LoginSafe == LoginInv => L!TypeOK /\ L!VerificationsBounded /\ L!ChallengesLetFewIn
  <1> SUFFICES ASSUME LoginInv, NEW c \in L!Ids PROVE Cardinality(SignedIn(c)) <= Slots
    BY LoginCardinality DEF LoginInv, LoginTypes, L!ChallengesLetFewIn, SignedIn
  <1>1. Cardinality(SignedIn(c)) \in Nat /\ Cardinality(Passing(c)) \in Nat
    BY CountsFinite DEF LoginInv, Counted
  <1>2. QED
    BY <1>1, LoginConstants DEF LoginInv, PassingLimited

LoginPart == part = "login" => LoginInv

(* However page loads and logins overlap, time out, raise or are refused, within any   *)
(* window an account's password is verified no more often than its limit and the slots   *)
(* admit, and a challenge signs in no more logins than there are slots                  *)
(* (LoginProtector.acquire, consume_login_challenge).                              *)
THEOREM LoginsStayBounded == MCSpec => []LoginsBounded
  <1>1. MCInit => LoginPart
    BY LoginStarts DEF MCInit, LoginPart
  <1>2. LoginPart /\ [MCNext]_allVars => LoginPart'
    <2> SUFFICES ASSUME LoginPart, [MCNext]_allVars, part' = "login" PROVE LoginInv'
      BY DEF LoginPart
    <2>1. part = "login" /\ [L!Next]_loginVars
      BY DEF MCNext, allVars, LoginPart
    <2>2. QED
      BY <2>1, LoginStep DEF LoginPart
  <1>3. LoginPart => LoginsBounded
    BY LoginSafe DEF LoginPart, LoginsBounded
  <1>4. QED
    BY <1>1, <1>2, <1>3, PTL DEF MCSpec

-----------------------------------------------------------------------------
(* GiteaExport.                                                               *)
Listings == {"issues", "pulls", "comments"}

(* What Gitea stores; issues and pull requests share their numbers.                *)
GiteaSound ==
    /\ writes \in 0..ExportWrites /\ refs \in 0..ExportWrites /\ refs <= writes
    /\ DOMAIN gitea = Listings /\ DOMAIN gitea.issues \cap DOMAIN gitea.pulls = {}
    /\ \A l \in Listings :
          /\ IsFiniteSet(DOMAIN gitea[l]) /\ DOMAIN gitea[l] \subseteq Nat
          /\ \A k \in DOMAIN gitea[l] :
                gitea[l][k] # None =>
                    /\ gitea[l][k] \in E!Contents
                    /\ gitea[l][k].stamp <= writes /\ gitea[l][k].review <= writes

(* From one instant, when the last stamp was w, to a later one: what is gone stays     *)
(* gone, what has a stamp of then is what it was, and reviews move on.              *)
Grown(was, w, now) ==
    \A l \in Listings :
        /\ DOMAIN was[l] \subseteq DOMAIN now[l]
        /\ \A k \in DOMAIN now[l] :
              /\ k \in DOMAIN was[l] /\ was[l][k] = None => now[l][k] = None
              /\ now[l][k] # None =>
                    \/ now[l][k].stamp > w
                    \/ /\ k \in DOMAIN was[l] /\ was[l][k] # None
                       /\ now[l][k].stamp = was[l][k].stamp /\ now[l][k].parent = was[l][k].parent
              /\ k \in DOMAIN was[l] /\ was[l][k] # None /\ now[l][k] # None =>
                    was[l][k].review <= now[l][k].review

LEMMA ExportCardinality == \A S : E!Cardinality(S) = Cardinality(S)
  BY DEF E!Cardinality, Cardinality, E!IsFiniteSet, IsFiniteSet

LEMMA ExportConstants ==
    /\ None \notin E!Contents /\ ExportWrites \in Nat /\ E!Listings = Listings
    /\ DOMAIN Existing = Listings /\ DOMAIN Existing.issues \cap DOMAIN Existing.pulls = {}
    /\ \A l \in Listings :
          /\ IsFiniteSet(DOMAIN Existing[l]) /\ DOMAIN Existing[l] \subseteq Nat
          /\ \A k \in DOMAIN Existing[l] : /\ Existing[l][k] \in E!Contents
                                         /\ Existing[l][k].stamp = 0 /\ Existing[l][k].review = 0
  <1>1. \A S : E!IsFiniteSet(S) <=> IsFiniteSet(S)
    BY DEF E!IsFiniteSet, IsFiniteSet
  <1>2. QED
    BY <1>1, ExportAssumption DEF E!ConstantsSound, E!Listings, Listings

(* A finite set of numbers has a last one.                                       *)
LEMMA FiniteIsBounded ==
    ASSUME NEW S \in SUBSET Nat, IsFiniteSet(S)
    PROVE  \E b \in Nat : \A k \in S : k <= b
  <1> DEFINE Bounded(T) == \E b \in Nat : \A k \in T : k <= b
             N == {n \in Nat : \E T \in SUBSET Nat : IsFiniteSet(T) /\ Cardinality(T) = n /\ ~Bounded(T)}
  <1>1. SUFFICES ASSUME ~Bounded(S) PROVE FALSE
    OBVIOUS
  <1> HIDE DEF Bounded
  <1>2. Cardinality(S) \in N
    BY <1>1, FS_CardinalityType
  <1>3. \E n \in N : \A m \in N : ~(<<m, n>> \in OpToRel(<, Nat))
    BY <1>2, NatLessThanWellFounded, WFMin
  <1>4. PICK n \in N : \A m \in N : ~(<<m, n>> \in OpToRel(<, Nat))
    BY <1>3
  <1>5. PICK T \in SUBSET Nat : IsFiniteSet(T) /\ Cardinality(T) = n /\ ~Bounded(T)
    BY <1>4
  <1>6. T # {}
    <2>1. Bounded({})
      BY DEF Bounded
    <2>2. QED
      BY <1>5, <2>1
  <1>7. PICK x \in T : TRUE
    BY <1>6
  <1>8. IsFiniteSet(T \ {x}) /\ Cardinality(T \ {x}) = n - 1 /\ n \in Nat /\ n - 1 \in Nat
    <2>1. IsFiniteSet(T \ {x}) /\ Cardinality(T \ {x}) = Cardinality(T) - 1
      BY <1>5, <1>7, FS_RemoveElement
    <2>2. Cardinality(T \ {x}) \in Nat /\ Cardinality(T) \in Nat
      BY <1>5, <2>1, FS_CardinalityType
    <2>3. QED
      BY <1>5, <2>1, <2>2
  <1>9. n - 1 \notin N
    <2>1. <<n - 1, n>> \in OpToRel(<, Nat)
      BY <1>8 DEF OpToRel
    <2>2. QED
      BY <1>4, <2>1
  <1>10. Bounded(T \ {x})
    BY <1>8, <1>9
  <1>11. PICK b \in Nat : \A k \in T \ {x} : k <= b
    BY <1>10 DEF Bounded
  <1>12. x \in Nat /\ T \subseteq Nat
    BY <1>5, <1>7
  <1>13. CASE x <= b
    BY <1>5, <1>11, <1>12, <1>13 DEF Bounded
  <1>14. CASE ~(x <= b)
    <2>1. \A k \in T : k <= x
      BY <1>11, <1>12, <1>14
    <2>2. QED
      BY <1>5, <1>12, <2>1 DEF Bounded
  <1>15. QED
    BY <1>13, <1>14

LEMMA LastOf ==
    ASSUME NEW S \in SUBSET Nat, IsFiniteSet(S), S # {}
    PROVE  E!Max(S) \in S /\ \A k \in S : k <= E!Max(S)
  <1> DEFINE U == {b \in Nat : \A k \in S : k <= b}
  <1>1. \E b \in U : TRUE
    BY FiniteIsBounded
  <1>2. \E b \in U : \A c \in U : ~(<<c, b>> \in OpToRel(<, Nat))
    BY <1>1, NatLessThanWellFounded, WFMin
  <1>3. PICK b \in U : \A c \in U : ~(<<c, b>> \in OpToRel(<, Nat))
    BY <1>2
  <1>4. \A c \in U : b <= c
    <2> TAKE c \in U
    <2>1. b \in Nat /\ c \in Nat /\ ~(c < b)
      BY <1>3 DEF OpToRel
    <2>2. QED
      BY <2>1
  <1>9. b \in Nat /\ \A k \in S : k \in Nat /\ k <= b
    BY <1>3
  <1>5. b \in S
    <2> SUFFICES ASSUME b \notin S PROVE FALSE
      OBVIOUS
    <2>1. \A k \in S : k \in Nat /\ k < b
      BY <1>9
    <2>2. PICK x \in S : TRUE
      OBVIOUS
    <2>3. b - 1 \in Nat /\ \A k \in S : k <= b - 1
      BY <1>9, <2>1, <2>2
    <2>4. b <= b - 1
      BY <1>4, <2>3
    <2>5. QED
      BY <1>9, <2>4
  <1>6. b \in S /\ \A k \in S : b >= k
    BY <1>3, <1>5
  <1>7. QED
    BY <1>6 DEF E!Max

LEMMA LastIsLast ==
    ASSUME NEW S \in SUBSET Nat, IsFiniteSet(S), S # {}
    PROVE  E!Max(S) \in Nat /\ E!Max(S) + 1 \notin S
  <1>1. E!Max(S) \in S /\ \A k \in S : k <= E!Max(S)
    BY LastOf
  <1>2. E!Max(S) \in Nat
    BY <1>1
  <1>3. QED
    BY <1>1, <1>2

-----------------------------------------------------------------------------
(* Whoever writes puts one content in place.                                     *)
LEMMA PutGrows ==
    ASSUME GiteaSound, NEW l \in Listings, NEW k \in Nat, NEW content, E!Put(l, k, content),
           writes < ExportWrites, writes' = writes + 1, UNCHANGED refs,
           k \in DOMAIN gitea[l] => gitea[l][k] # None,
           k \in DOMAIN gitea[l] \/ l = "comments" \/ k \notin DOMAIN gitea.issues \cup DOMAIN gitea.pulls,
           content # None =>
               /\ content \in E!Contents /\ content.stamp <= writes + 1 /\ content.review <= writes + 1
               /\ \/ content.stamp = writes + 1
                  \/ /\ k \in DOMAIN gitea[l]
                     /\ content.stamp = gitea[l][k].stamp /\ content.parent = gitea[l][k].parent
               /\ k \in DOMAIN gitea[l] => gitea[l][k].review <= content.review
    PROVE  GiteaSound' /\ Grown(gitea, writes, gitea')
  <1>1. /\ DOMAIN gitea' = Listings
        /\ \A m \in Listings \ {l} : gitea'[m] = gitea[m]
        /\ DOMAIN gitea'[l] = DOMAIN gitea[l] \cup {k}
        /\ gitea'[l][k] = content
        /\ \A j \in DOMAIN gitea[l] \ {k} : gitea'[l][j] = gitea[l][j]
    <2>1. DOMAIN gitea = Listings
      BY DEF GiteaSound
    <2>2. gitea' = [gitea EXCEPT ![l] = [j \in DOMAIN gitea[l] \cup {k} |-> IF j = k THEN content ELSE gitea[l][j]]]
      BY DEF E!Put
    <2>3. DOMAIN gitea' = Listings /\ \A m \in Listings \ {l} : gitea'[m] = gitea[m]
      BY <2>1, <2>2
    <2>4. gitea'[l] = [j \in DOMAIN gitea[l] \cup {k} |-> IF j = k THEN content ELSE gitea[l][j]]
      BY <2>1, <2>2
    <2>5. QED
      BY <2>3, <2>4
  <1>2. writes \in Nat /\ writes' \in 0..ExportWrites /\ refs' \in 0..ExportWrites /\ refs' <= writes'
    BY ExportConstants DEF GiteaSound
  <1>3. ASSUME NEW m \in Listings, NEW j \in DOMAIN gitea'[m]
        PROVE  \/ m = l /\ j = k /\ gitea'[m][j] = content
               \/ j \in DOMAIN gitea[m] /\ gitea'[m][j] = gitea[m][j]
    BY <1>1, <1>3
  <1>4. \A m \in Listings : /\ IsFiniteSet(DOMAIN gitea'[m]) /\ DOMAIN gitea'[m] \subseteq Nat
                           /\ DOMAIN gitea[m] \subseteq DOMAIN gitea'[m]
    BY <1>1, FS_AddElement DEF GiteaSound
  <1>5. DOMAIN gitea'.issues \cap DOMAIN gitea'.pulls = {}
    BY <1>1 DEF GiteaSound, Listings
  <1>6. ASSUME NEW m \in Listings, NEW j \in DOMAIN gitea'[m], gitea'[m][j] # None
        PROVE  /\ gitea'[m][j] \in E!Contents
               /\ gitea'[m][j].stamp <= writes' /\ gitea'[m][j].review <= writes'
    <2>1. CASE j \in DOMAIN gitea[m] /\ gitea'[m][j] = gitea[m][j]
      <3>1. gitea[m][j] \in E!Contents /\ gitea[m][j].stamp <= writes /\ gitea[m][j].review <= writes
        BY <1>6, <2>1 DEF GiteaSound
      <3>2. gitea[m][j].stamp \in Nat /\ gitea[m][j].review \in Nat
        BY <3>1 DEF E!Contents
      <3>3. QED
        BY <1>2, <2>1, <3>1, <3>2
    <2>2. CASE gitea'[m][j] = content
      BY <1>6, <2>2
    <2>3. QED
      BY <1>3, <2>1, <2>2
  <1>7. GiteaSound'
    BY <1>1, <1>2, <1>4, <1>5, <1>6 DEF GiteaSound
  <1>8. ASSUME NEW m \in Listings, NEW j \in DOMAIN gitea'[m]
        PROVE  /\ j \in DOMAIN gitea[m] /\ gitea[m][j] = None => gitea'[m][j] = None
               /\ gitea'[m][j] # None =>
                     \/ gitea'[m][j].stamp > writes
                     \/ /\ j \in DOMAIN gitea[m] /\ gitea[m][j] # None
                        /\ gitea'[m][j].stamp = gitea[m][j].stamp /\ gitea'[m][j].parent = gitea[m][j].parent
               /\ j \in DOMAIN gitea[m] /\ gitea[m][j] # None /\ gitea'[m][j] # None =>
                     gitea[m][j].review <= gitea'[m][j].review
    <2>1. CASE j \in DOMAIN gitea[m] /\ gitea'[m][j] = gitea[m][j]
      <3>1. gitea[m][j] # None => gitea[m][j].review \in Nat
        BY <2>1 DEF GiteaSound, E!Contents
      <3>2. QED
        BY <2>1, <3>1
    <2>2. CASE m = l /\ j = k /\ gitea'[m][j] = content
      BY <1>2, <2>2
    <2>3. QED
      BY <1>3, <2>1, <2>2
  <1>9. Grown(gitea, writes, gitea')
    BY <1>4, <1>8 DEF Grown
  <1>10. QED
    BY <1>7, <1>9

LEMMA Rewritten ==
    ASSUME NEW c \in E!Contents, NEW n \in Nat
    PROVE  /\ \A d : d = [c EXCEPT !.stamp = n] =>
                 d \in E!Contents /\ d.stamp = n /\ d.review = c.review
           /\ \A d : d = [c EXCEPT !.review = n] =>
                 d \in E!Contents /\ d.stamp = c.stamp /\ d.parent = c.parent /\ d.review = n
  BY DEF E!Contents

(* Every write of people at work is such a step.                                  *)
LEMMA WriteGrows ==
    ASSUME GiteaSound, E!Write
    PROVE  GiteaSound' /\ Grown(gitea, writes, gitea') /\ refs <= refs' /\ writes < writes'
  <1> DEFINE fresh == [stamp |-> writes + 1, parent |-> None, review |-> 0]
  <1>1. writes < ExportWrites /\ writes' = writes + 1 /\ writes \in Nat /\ refs \in Nat
    BY ExportConstants DEF E!Write, GiteaSound
  <1>2. ASSUME NEW l \in Listings, NEW k \in E!Stored(gitea[l])
        PROVE  /\ k \in Nat /\ k \in DOMAIN gitea[l] /\ gitea[l][k] # None /\ gitea[l][k] \in E!Contents
               /\ gitea[l][k].stamp \in Nat /\ gitea[l][k].stamp <= writes
               /\ gitea[l][k].review \in Nat /\ gitea[l][k].review <= writes
    <2>1. k \in Nat /\ k \in DOMAIN gitea[l] /\ gitea[l][k] # None /\ gitea[l][k] \in E!Contents
          /\ gitea[l][k].stamp <= writes /\ gitea[l][k].review <= writes
      BY <1>2 DEF E!Stored, GiteaSound
    <2>2. QED
      BY <2>1 DEF E!Contents
  <1>9. \A l \in Listings : IsFiniteSet(DOMAIN gitea[l]) /\ DOMAIN gitea[l] \subseteq Nat
    BY DEF GiteaSound
  <1>3. CASE UNCHANGED refs /\ E!Put("issues", E!Max(DOMAIN gitea.issues \cup DOMAIN gitea.pulls \cup {0}) + 1, E!Content(None))
    <2> DEFINE S == DOMAIN gitea.issues \cup DOMAIN gitea.pulls \cup {0}
    <2>1. S \subseteq Nat /\ IsFiniteSet(S) /\ S # {}
      <3>1. IsFiniteSet(DOMAIN gitea.issues \cup DOMAIN gitea.pulls)
        BY <1>9, FS_Union DEF Listings
      <3>2. IsFiniteSet(S)
        BY <3>1, FS_AddElement
      <3>3. QED
        BY <1>9, <3>2 DEF Listings
    <2>2. E!Max(S) \in Nat /\ E!Max(S) + 1 \notin S
      BY <2>1, LastIsLast
    <2>3. E!Content(None) \in E!Contents /\ E!Content(None).stamp = writes + 1 /\ E!Content(None).review = 0
      BY <1>1 DEF E!Content, E!Contents
    <2> HIDE DEF S
    <2>4. QED
      BY <1>1, <1>3, <2>2, <2>3, PutGrows DEF S, Listings
  <1>4. CASE UNCHANGED refs /\ \E n \in E!Numbers : E!Put("comments", E!Max(DOMAIN gitea.comments \cup {0}) + 1, E!Content(n))
    <2> DEFINE S == DOMAIN gitea.comments \cup {0}
    <2>1. S \subseteq Nat /\ IsFiniteSet(S) /\ S # {}
      <3>1. IsFiniteSet(DOMAIN gitea.comments) /\ DOMAIN gitea.comments \subseteq Nat
        BY <1>9 DEF Listings
      <3>2. IsFiniteSet(S)
        BY <3>1, FS_AddElement
      <3>3. QED
        BY <3>1, <3>2
    <2>2. E!Max(S) \in Nat /\ E!Max(S) + 1 \notin S
      BY <2>1, LastIsLast
    <2>3. PICK n \in E!Numbers : E!Put("comments", E!Max(S) + 1, E!Content(n))
      BY <1>4
    <2>4. n \in Nat
      BY <1>2 DEF E!Numbers, Listings
    <2>5. E!Content(n) \in E!Contents /\ E!Content(n).stamp = writes + 1 /\ E!Content(n).review = 0
      BY <1>1, <2>4 DEF E!Content, E!Contents
    <2> HIDE DEF S
    <2>6. QED
      BY <1>1, <1>4, <2>2, <2>3, <2>5, PutGrows DEF S, Listings
  <1>5. CASE UNCHANGED refs /\ \E l \in Listings : \E k \in E!Stored(gitea[l]) :
                \/ E!Put(l, k, None)
                \/ E!Put(l, k, [gitea[l][k] EXCEPT !.stamp = writes + 1])
    <2>5. PICK l \in Listings : \E k \in E!Stored(gitea[l]) :
                \/ E!Put(l, k, None)
                \/ E!Put(l, k, [gitea[l][k] EXCEPT !.stamp = writes + 1])
      BY <1>5
    <2>1. PICK k \in E!Stored(gitea[l]) :
                \/ E!Put(l, k, None)
                \/ E!Put(l, k, [gitea[l][k] EXCEPT !.stamp = writes + 1])
      BY <2>5
    <2>2. CASE E!Put(l, k, None)
      BY <1>1, <1>2, <1>5, <2>2, PutGrows
    <2>3. CASE E!Put(l, k, [gitea[l][k] EXCEPT !.stamp = writes + 1])
      <3>1. PICK content : content = [gitea[l][k] EXCEPT !.stamp = writes + 1]
        OBVIOUS
      <3>4. writes + 1 \in Nat
        BY <1>1
      <3>5. /\ content \in E!Contents /\ content.stamp = writes + 1 /\ content.review = gitea[l][k].review
            /\ gitea[l][k].review \in Nat /\ gitea[l][k].review <= writes
        BY <1>2, <3>1, <3>4, Rewritten
      <3>2. /\ content \in E!Contents /\ content.stamp = writes + 1 /\ content.stamp <= writes + 1
            /\ content.review <= writes + 1 /\ gitea[l][k].review <= content.review
        BY <1>1, <3>5
      <3>6. k \in Nat /\ k \in DOMAIN gitea[l] /\ gitea[l][k] # None /\ UNCHANGED refs /\ E!Put(l, k, content)
        BY <1>2, <1>5, <2>3, <3>1
      <3>3. QED
        BY <1>1, <3>2, <3>6, PutGrows DEF GiteaSound
    <2>4. QED
      BY <2>1, <2>2, <2>3
  <1>6. CASE UNCHANGED refs /\ \E n \in E!Stored(gitea.pulls) :
                E!Put("pulls", n, [gitea.pulls[n] EXCEPT !.review = writes + 1])
    <2>1. PICK n \in E!Stored(gitea.pulls) : E!Put("pulls", n, [gitea.pulls[n] EXCEPT !.review = writes + 1])
      BY <1>6
    <2>2. PICK content : content = [gitea.pulls[n] EXCEPT !.review = writes + 1]
      OBVIOUS
    <2>3. "pulls" \in Listings
      BY DEF Listings
    <2>4. /\ content \in E!Contents /\ content.stamp = gitea.pulls[n].stamp /\ content.parent = gitea.pulls[n].parent
          /\ content.review = writes + 1 /\ content.stamp <= writes + 1 /\ gitea.pulls[n].review <= content.review
          /\ n \in Nat /\ n \in DOMAIN gitea.pulls /\ gitea.pulls[n] # None
      <3>1. writes + 1 \in Nat
        BY <1>1
      <3>2. /\ content \in E!Contents /\ content.stamp = gitea.pulls[n].stamp /\ content.parent = gitea.pulls[n].parent
            /\ content.review = writes + 1
            /\ n \in Nat /\ n \in DOMAIN gitea.pulls /\ gitea.pulls[n] # None
            /\ gitea.pulls[n].stamp \in Nat /\ gitea.pulls[n].stamp <= writes
            /\ gitea.pulls[n].review \in Nat /\ gitea.pulls[n].review <= writes
        BY <1>2, <2>2, <2>3, <3>1, Rewritten
      <3>3. QED
        BY <1>1, <3>2
    <2>6. UNCHANGED refs /\ E!Put("pulls", n, content)
      BY <1>6, <2>1, <2>2
    <2>5. QED
      BY <1>1, <2>3, <2>4, <2>6, PutGrows DEF GiteaSound
  <1>7. CASE refs' = writes + 1 /\ UNCHANGED gitea
    <2>1. GiteaSound'
      <3>1. writes' \in 0..ExportWrites /\ refs' \in 0..ExportWrites /\ refs' <= writes'
        BY <1>1, <1>7, ExportConstants
      <3>2. \A l \in Listings : \A k \in DOMAIN gitea[l] : gitea[l][k] # None =>
                /\ gitea[l][k] \in E!Contents /\ gitea[l][k].stamp <= writes' /\ gitea[l][k].review <= writes'
        <4>1. ASSUME NEW l \in Listings, NEW k \in DOMAIN gitea[l], gitea[l][k] # None
              PROVE  gitea[l][k] \in E!Contents /\ gitea[l][k].stamp <= writes' /\ gitea[l][k].review <= writes'
          <5>1. k \in E!Stored(gitea[l])
            BY <4>1 DEF E!Stored
          <5>2. QED
            BY <1>1, <1>2, <5>1
        <4>2. QED
          BY <4>1
      <3>3. QED
        BY <1>7, <3>1, <3>2 DEF GiteaSound
    <2>2. Grown(gitea, writes, gitea')
      <3>1. \A l \in Listings : \A k \in DOMAIN gitea[l] : gitea[l][k] # None => gitea[l][k].review \in Nat
        BY DEF GiteaSound, E!Contents
      <3>2. QED
        BY <1>7, <3>1 DEF Grown
    <2>3. QED
      BY <1>1, <1>7, <2>1, <2>2 DEF GiteaSound
  <1>8. QED
    <2>1. E!Listings = Listings
      BY ExportConstants
    <2>2. QED
      BY <1>1, <1>3, <1>4, <1>5, <1>6, <1>7, <2>1 DEF E!Write, GiteaSound

(* What has grown may grow further.                                              *)
LEMMA GrownFurther ==
    ASSUME GiteaSound, NEW was, NEW w \in Nat, w <= writes, Grown(was, w, gitea), Grown(gitea, writes, gitea'),
           \A l \in Listings : \A k \in DOMAIN was[l] : was[l][k] # None => was[l][k].review \in Nat,
           GiteaSound'
    PROVE  Grown(was, w, gitea')
  <1> SUFFICES ASSUME NEW l \in Listings, NEW k \in DOMAIN gitea'[l]
               PROVE  /\ DOMAIN was[l] \subseteq DOMAIN gitea'[l]
                      /\ k \in DOMAIN was[l] /\ was[l][k] = None => gitea'[l][k] = None
                      /\ gitea'[l][k] # None =>
                            \/ gitea'[l][k].stamp > w
                            \/ /\ k \in DOMAIN was[l] /\ was[l][k] # None
                               /\ gitea'[l][k].stamp = was[l][k].stamp /\ gitea'[l][k].parent = was[l][k].parent
                      /\ k \in DOMAIN was[l] /\ was[l][k] # None /\ gitea'[l][k] # None =>
                            was[l][k].review <= gitea'[l][k].review
    <2>1. \A l \in Listings : DOMAIN was[l] \subseteq DOMAIN gitea'[l]
      BY DEF Grown
    <2>2. QED
      BY <2>1 DEF Grown
  <1>1. writes \in Nat
    BY ExportConstants DEF GiteaSound
  <1>2. DOMAIN was[l] \subseteq DOMAIN gitea'[l]
    BY DEF Grown
  <1>3. k \in DOMAIN was[l] /\ was[l][k] = None => gitea'[l][k] = None
    BY DEF Grown
  <1>4. gitea'[l][k] # None => gitea'[l][k].stamp \in Nat /\ gitea'[l][k].review \in Nat
    BY DEF GiteaSound, E!Contents
  <1>5. k \in DOMAIN gitea[l] /\ gitea[l][k] # None => gitea[l][k].stamp \in Nat /\ gitea[l][k].review \in Nat
    BY DEF GiteaSound, E!Contents
  <1>6. ASSUME gitea'[l][k] # None
        PROVE  \/ gitea'[l][k].stamp > w
               \/ /\ k \in DOMAIN was[l] /\ was[l][k] # None
                  /\ gitea'[l][k].stamp = was[l][k].stamp /\ gitea'[l][k].parent = was[l][k].parent
    <2>1. CASE gitea'[l][k].stamp > writes
      BY <1>1, <1>4, <1>6, <2>1
    <2>2. CASE /\ k \in DOMAIN gitea[l] /\ gitea[l][k] # None
               /\ gitea'[l][k].stamp = gitea[l][k].stamp /\ gitea'[l][k].parent = gitea[l][k].parent
      BY <2>2 DEF Grown
    <2>3. QED
      BY <1>6, <2>1, <2>2 DEF Grown
  <1>7. ASSUME k \in DOMAIN was[l], was[l][k] # None, gitea'[l][k] # None
        PROVE  was[l][k].review <= gitea'[l][k].review
    <2>1. k \in DOMAIN gitea[l] /\ gitea[l][k] # None
      BY <1>7 DEF Grown
    <2>2. was[l][k].review <= gitea[l][k].review /\ gitea[l][k].review <= gitea'[l][k].review
      BY <1>7, <2>1 DEF Grown
    <2>3. QED
      BY <1>4, <1>5, <1>7, <2>1, <2>2
  <1>8. QED
    BY <1>2, <1>3, <1>6, <1>7

-----------------------------------------------------------------------------
(* What the exporter knows.                                                    *)
Read == {"refs", "bundle", "sealed", "published"}
Second == {"indexes", "items"} \cup Read

Rows(f) == {<<k, f[k]>> : k \in DOMAIN f}

(* Rows that were read of listing l, by an instant when now is stored and w is the     *)
(* last stamp.                                                               *)
Known(rows, l, now, w) ==
    \A e \in rows : /\ e = <<e[1], e[2]>> /\ e[1] \in DOMAIN now[l]
                      /\ e[2].stamp \in Nat /\ e[2].stamp <= w

(* A listing that was read in full: when its last page was read, there were as many     *)
(* entries as it has, among them all that are as old as the export and still there.    *)
Captured(f, l, started, now, w) ==
    /\ IsFiniteSet(DOMAIN f) /\ Known(Rows(f), l, now, w)
    /\ \E A : /\ IsFiniteSet(A) /\ Cardinality(A) <= Cardinality(DOMAIN f)
              /\ \A k \in DOMAIN now[l] : now[l][k] # None /\ now[l][k].stamp <= started => k \in A
              /\ \A k \in DOMAIN f : k \in A \/ now[l][k] = None

(* A listing that is read again: when its first page was read, there were total        *)
(* entries; what was stored between the passes and is not among them is gone, and      *)
(* rows with a stamp of the time between the passes are as they were then.            *)
Again(rows, l, total, was, w, now) ==
    \E A : /\ IsFiniteSet(A) /\ Cardinality(A) <= total
           /\ \A k \in DOMAIN was[l] : was[l][k] # None => k \in A \/ now[l][k] = None
           /\ \A e \in rows : e[2].stamp <= w =>
                  /\ e[1] \in A /\ e[1] \in DOMAIN was[l] /\ was[l][e[1]] # None
                  /\ e[2] = E!Row(was[l][e[1]])

(* The listings are read one by one.                                             *)
ReadInOrder ==
    /\ reading # None => eAt = "indexes" /\ todo # <<>>
    /\ eAt = "indexes" =>
          \/ todo = <<"issues", "pulls", "comments">> /\ DOMAIN index = {}
          \/ todo = <<"pulls", "comments">> /\ DOMAIN index = {"issues"}
          \/ todo = <<"comments">> /\ DOMAIN index = {"issues", "pulls"}
          \/ todo = <<>> /\ DOMAIN index = Listings
    /\ eAt = "items" => DOMAIN index = Listings

ReadingKnown == reading # None => Known(reading.got, Head(todo), gitea, writes)

FirstPass ==
    eAt \in {"indexes", "items"} /\ pass = 1 =>
        /\ first.refs \in Nat /\ first.refs <= refs
        /\ between.started \in Nat /\ between.started <= writes
        /\ \A l \in DOMAIN index : Captured(index[l], l, between.started, gitea, writes)
        /\ eAt = "items" =>
              \A n \in DOMAIN index["pulls"] : <<n, "reviews">> \in DOMAIN items =>
                  /\ items[<<n, "reviews">>] \in Nat
                  /\ gitea.pulls[n] # None => items[<<n, "reviews">>] <= gitea.pulls[n].review

(* The first capture, by the instant between the passes.                           *)
SecondPass ==
    eAt \in Second /\ pass = 2 =>
        /\ first.refs \in Nat /\ between.refs \in Nat /\ first.refs <= between.refs /\ between.refs <= refs
        /\ between.writes \in Nat /\ between.writes <= writes /\ between.started \in Nat
        /\ \A l \in Listings : \A k \in DOMAIN between.gitea[l] :
              between.gitea[l][k] # None =>
                  between.gitea[l][k] \in E!Contents /\ between.gitea[l][k].stamp <= between.writes
        /\ Grown(between.gitea, between.writes, gitea)
        /\ \A l \in Listings : Captured(first.index[l], l, between.started, between.gitea, between.writes)
        /\ {r[1] : r \in DOMAIN first.items} = DOMAIN first.index["issues"] \cup DOMAIN first.index["pulls"]
        /\ \A n \in DOMAIN first.index["pulls"] :
              /\ first.items[<<n, "reviews">>] \in Nat
              /\ between.gitea.pulls[n] # None => first.items[<<n, "reviews">>] <= between.gitea.pulls[n].review

ReadAgain ==
    eAt = "indexes" /\ pass = 2 =>
        /\ \A l \in DOMAIN index :
              /\ IsFiniteSet(DOMAIN index[l])
              /\ Again(Rows(index[l]), l, Cardinality(DOMAIN index[l]), between.gitea, between.writes, gitea)
        /\ reading # None =>
              Again(reading.got, Head(todo), reading.total, between.gitea, between.writes, gitea)

(* Both passes tell the same listings.                                            *)
Confirmed ==
    eAt \in Second \ {"indexes"} /\ pass = 2 =>
        \A l \in Listings :
            /\ \A k \in DOMAIN first.index[l] :
                  /\ k \in DOMAIN between.gitea[l] /\ between.gitea[l][k] # None
                  /\ first.index[l][k] = E!Row(between.gitea[l][k])
            /\ \A k \in DOMAIN between.gitea[l] \ DOMAIN first.index[l] :
                  between.gitea[l][k] # None =>
                      between.gitea[l][k].stamp > between.started /\ gitea[l][k] = None

ItemsAgain ==
    eAt = "items" /\ pass = 2 =>
        /\ index = first.index
        /\ \A n \in DOMAIN index["pulls"] : <<n, "reviews">> \in DOMAIN items =>
              items[<<n, "reviews">>] \in Nat /\ between.gitea.pulls[n].review <= items[<<n, "reviews">>]

SameThroughout ==
    /\ eAt \in Read =>
          /\ pass = 2
          /\ \A n \in DOMAIN first.index["pulls"] :
                first.items[<<n, "reviews">>] = between.gitea.pulls[n].review
    /\ eAt \in {"bundle", "sealed", "published"} => first.refs = between.refs

ExportTypes ==
    /\ eAt \in {"idle", "failed"} \cup Second /\ pass \in {1, 2}
    /\ eAt = "idle" => pass = 1 /\ index = E!Empty
    /\ eAt \in {"idle", "indexes"} => items = E!Empty
    /\ eStaging \in {"none", "partial", "sealed"} /\ DOMAIN index \subseteq Listings

ExportInv ==
    /\ GiteaSound /\ ExportTypes /\ E!ExportsStay
    /\ ReadInOrder /\ ReadingKnown /\ FirstPass /\ SecondPass /\ ReadAgain
    /\ Confirmed /\ ItemsAgain /\ SameThroughout

-----------------------------------------------------------------------------
(* What is known stays known while people write.                                  *)
LEMMA KnownStays ==
    ASSUME GiteaSound, GiteaSound', Grown(gitea, writes, gitea'), writes <= writes',
           NEW l \in Listings, NEW rows, Known(rows, l, gitea, writes)
    PROVE  Known(rows, l, gitea', writes')
  <1>1. writes \in Nat /\ writes' \in Nat /\ DOMAIN gitea[l] \subseteq DOMAIN gitea'[l]
    BY ExportConstants DEF GiteaSound, Grown
  <1>2. QED
    BY <1>1 DEF Known

LEMMA KnownRows ==
    ASSUME NEW f, NEW l, NEW now, NEW w
    PROVE  Known(Rows(f), l, now, w)
             <=> \A k \in DOMAIN f : k \in DOMAIN now[l] /\ f[k].stamp \in Nat /\ f[k].stamp <= w
  <1>1. \A k \in DOMAIN f : <<k, f[k]>> \in Rows(f)
    BY DEF Rows
  <1>2. \A e \in Rows(f) : e = <<e[1], e[2]>> /\ e[1] \in DOMAIN f /\ e[2] = f[e[1]]
    BY DEF Rows
  <1> HIDE DEF Rows
  <1>3. ASSUME Known(Rows(f), l, now, w), NEW k \in DOMAIN f
        PROVE  k \in DOMAIN now[l] /\ f[k].stamp \in Nat /\ f[k].stamp <= w
    <2>1. PICK e : e = <<k, f[k]>>
      OBVIOUS
    <2>2. e \in Rows(f) /\ e[1] = k /\ e[2] = f[k]
      BY <1>1, <2>1
    <2>3. QED
      BY <1>3, <2>2 DEF Known
  <1>4. ASSUME \A k \in DOMAIN f : k \in DOMAIN now[l] /\ f[k].stamp \in Nat /\ f[k].stamp <= w
        PROVE  Known(Rows(f), l, now, w)
    BY <1>2, <1>4 DEF Known
  <1>5. QED
    BY <1>3, <1>4

LEMMA CapturedStays ==
    ASSUME GiteaSound, GiteaSound', Grown(gitea, writes, gitea'), writes <= writes',
           NEW l \in Listings, NEW f, NEW started \in Nat, started <= writes, Captured(f, l, started, gitea, writes)
    PROVE  Captured(f, l, started, gitea', writes')
  <1>1. PICK A : /\ IsFiniteSet(A) /\ Cardinality(A) <= Cardinality(DOMAIN f)
                 /\ \A k \in DOMAIN gitea[l] : gitea[l][k] # None /\ gitea[l][k].stamp <= started => k \in A
                 /\ \A k \in DOMAIN f : k \in A \/ gitea[l][k] = None
    BY DEF Captured
  <1>2. writes \in Nat
    BY ExportConstants DEF GiteaSound
  <1>3. ASSUME NEW k \in DOMAIN gitea'[l], gitea'[l][k] # None, gitea'[l][k].stamp <= started
        PROVE  k \in A
    <2>1. gitea'[l][k].stamp \in Nat
      BY <1>3 DEF GiteaSound, E!Contents
    <2>2. ~(gitea'[l][k].stamp > writes)
      BY <1>2, <1>3, <2>1
    <2>3. k \in DOMAIN gitea[l] /\ gitea[l][k] # None /\ gitea'[l][k].stamp = gitea[l][k].stamp
      BY <1>3, <2>2 DEF Grown
    <2>4. QED
      BY <1>1, <1>3, <2>3
  <1>4. ASSUME NEW k \in DOMAIN f PROVE k \in A \/ gitea'[l][k] = None
    <2>1. k \in DOMAIN gitea[l]
      BY KnownRows DEF Captured
    <2>2. k \in DOMAIN gitea'[l]
      BY <2>1 DEF Grown
    <2>3. QED
      BY <1>1, <2>1, <2>2 DEF Grown
  <1>5. Known(Rows(f), l, gitea', writes')
    BY KnownStays DEF Captured
  <1>6. QED
    BY <1>1, <1>3, <1>4, <1>5 DEF Captured

LEMMA AgainStays ==
    ASSUME Grown(gitea, writes, gitea'), NEW l \in Listings, NEW rows, NEW total, NEW was, NEW w,
           DOMAIN was[l] \subseteq DOMAIN gitea[l], Again(rows, l, total, was, w, gitea)
    PROVE  Again(rows, l, total, was, w, gitea')
  <1>1. PICK A : /\ IsFiniteSet(A) /\ Cardinality(A) <= total
                 /\ \A k \in DOMAIN was[l] : was[l][k] # None => k \in A \/ gitea[l][k] = None
                 /\ \A e \in rows : e[2].stamp <= w =>
                        /\ e[1] \in A /\ e[1] \in DOMAIN was[l] /\ was[l][e[1]] # None
                        /\ e[2] = E!Row(was[l][e[1]])
    BY DEF Again
  <1>2. \A k \in DOMAIN gitea[l] : gitea[l][k] = None => gitea'[l][k] = None
    BY DEF Grown
  <1>3. \A k \in DOMAIN was[l] : was[l][k] # None => k \in A \/ gitea'[l][k] = None
    BY <1>1, <1>2
  <1>4. QED
    BY <1>1, <1>3 DEF Again

LEMMA WriteKeeps ==
    ASSUME ExportInv, E!Write
    PROVE  ExportInv'
  <1>1. GiteaSound' /\ Grown(gitea, writes, gitea') /\ refs <= refs' /\ writes < writes'
    BY WriteGrows DEF ExportInv
  <1>2. UNCHANGED <<eAt, pass, reading, index, items, todo, first, eStaging, destination, between, other>>
    BY DEF E!Write, E!exporter
  <1>3. /\ writes \in Nat /\ writes' \in Nat /\ writes <= writes' /\ refs \in Nat /\ refs' \in Nat
        /\ GiteaSound
    BY <1>1, ExportConstants DEF ExportInv, GiteaSound
  <1>4. \A l \in Listings : DOMAIN gitea[l] \subseteq DOMAIN gitea'[l]
    BY <1>1 DEF Grown
  <1>5. todo # <<>> /\ eAt = "indexes" => Head(todo) \in Listings
    BY DEF ExportInv, ReadInOrder, Listings
  <1>6. DOMAIN index \subseteq Listings /\ "pulls" \in Listings
    BY DEF ExportInv, ExportTypes, Listings
  <1>7. ExportTypes' /\ E!ExportsStay' /\ ReadInOrder'
    BY <1>2 DEF ExportInv, ExportTypes, E!ExportsStay, ReadInOrder, E!Empty
  <1>8. ReadingKnown'
    <2>1. CASE reading # None
      <3>1. Known(reading.got, Head(todo), gitea, writes) /\ Head(todo) \in Listings
        BY <1>5, <2>1 DEF ExportInv, ReadingKnown, ReadInOrder
      <3>2. Known(reading.got, Head(todo), gitea', writes')
        BY <1>1, <1>3, <3>1, KnownStays
      <3>3. QED
        BY <1>2, <3>2 DEF ReadingKnown
    <2>2. CASE reading = None
      BY <1>2, <2>2 DEF ReadingKnown
    <2>3. QED
      BY <2>1, <2>2
  <1>9. FirstPass'
    <2> SUFFICES ASSUME eAt \in {"indexes", "items"}, pass = 1
                 PROVE  /\ first.refs \in Nat /\ first.refs <= refs'
                        /\ between.started \in Nat /\ between.started <= writes'
                        /\ \A l \in DOMAIN index : Captured(index[l], l, between.started, gitea', writes')
                        /\ eAt = "items" =>
                              \A n \in DOMAIN index["pulls"] : <<n, "reviews">> \in DOMAIN items =>
                                  /\ items[<<n, "reviews">>] \in Nat
                                  /\ gitea'.pulls[n] # None => items[<<n, "reviews">>] <= gitea'.pulls[n].review
      BY <1>2 DEF FirstPass
    <2>1. /\ first.refs \in Nat /\ first.refs <= refs
          /\ between.started \in Nat /\ between.started <= writes
          /\ \A l \in DOMAIN index : Captured(index[l], l, between.started, gitea, writes)
      BY DEF ExportInv, FirstPass
    <2>2. \A l \in DOMAIN index : Captured(index[l], l, between.started, gitea', writes')
      BY <1>1, <1>3, <1>6, <2>1, CapturedStays
    <2>3. ASSUME eAt = "items", NEW n \in DOMAIN index["pulls"], <<n, "reviews">> \in DOMAIN items
          PROVE  /\ items[<<n, "reviews">>] \in Nat
                 /\ gitea'.pulls[n] # None => items[<<n, "reviews">>] <= gitea'.pulls[n].review
      <3>1. /\ items[<<n, "reviews">>] \in Nat
            /\ gitea.pulls[n] # None => items[<<n, "reviews">>] <= gitea.pulls[n].review
        BY <2>3 DEF ExportInv, FirstPass
      <3>2. "pulls" \in DOMAIN index
        BY <2>3 DEF ExportInv, ReadInOrder, Listings
      <3>3. n \in DOMAIN gitea.pulls
        BY <2>1, <3>2, KnownRows DEF Captured
      <3>4. n \in DOMAIN gitea'.pulls
        BY <1>4, <1>6, <3>3
      <3>5. CASE gitea.pulls[n] = None
        BY <1>1, <1>6, <3>1, <3>3, <3>4, <3>5 DEF Grown
      <3>6. CASE gitea.pulls[n] # None
        <4>1. gitea.pulls[n].review \in Nat
          BY <1>3, <1>6, <3>3, <3>6 DEF GiteaSound, E!Contents
        <4>2. gitea'.pulls[n] # None => gitea.pulls[n].review <= gitea'.pulls[n].review /\ gitea'.pulls[n].review \in Nat
          BY <1>1, <1>6, <3>3, <3>4, <3>6 DEF Grown, GiteaSound, E!Contents
        <4>3. QED
          BY <3>1, <3>6, <4>1, <4>2
      <3>7. QED
        BY <3>5, <3>6
    <2>4. QED
      BY <1>1, <1>3, <2>1, <2>2, <2>3
  <1>10. SecondPass'
    <2> SUFFICES ASSUME eAt \in Second, pass = 2
                 PROVE  /\ between.refs <= refs' /\ between.writes <= writes'
                        /\ Grown(between.gitea, between.writes, gitea')
      BY <1>2 DEF ExportInv, SecondPass
    <2>1. /\ between.refs \in Nat /\ between.refs <= refs /\ between.writes \in Nat /\ between.writes <= writes
          /\ Grown(between.gitea, between.writes, gitea)
          /\ \A l \in Listings : \A k \in DOMAIN between.gitea[l] :
                between.gitea[l][k] # None => between.gitea[l][k].review \in Nat
      BY DEF ExportInv, SecondPass, E!Contents
    <2>2. Grown(between.gitea, between.writes, gitea')
      BY <1>1, <1>3, <2>1, GrownFurther
    <2>3. QED
      BY <1>1, <1>3, <2>1, <2>2
  <1>11. ReadAgain'
    <2> SUFFICES ASSUME eAt = "indexes", pass = 2
                 PROVE  /\ \A l \in DOMAIN index :
                              Again(Rows(index[l]), l, Cardinality(DOMAIN index[l]), between.gitea, between.writes, gitea')
                        /\ reading # None =>
                              Again(reading.got, Head(todo), reading.total, between.gitea, between.writes, gitea')
      BY <1>2 DEF ExportInv, ReadAgain, Rows
    <2>1. \A l \in Listings : DOMAIN between.gitea[l] \subseteq DOMAIN gitea[l]
      BY DEF ExportInv, SecondPass, Second, Grown
    <2>2. \A l \in DOMAIN index :
              Again(Rows(index[l]), l, Cardinality(DOMAIN index[l]), between.gitea, between.writes, gitea')
      <3>1. \A l \in DOMAIN index :
                Again(Rows(index[l]), l, Cardinality(DOMAIN index[l]), between.gitea, between.writes, gitea)
        BY DEF ExportInv, ReadAgain
      <3>2. QED
        BY <1>1, <1>6, <2>1, <3>1, AgainStays
    <2>3. ASSUME reading # None
          PROVE  Again(reading.got, Head(todo), reading.total, between.gitea, between.writes, gitea')
      <3>1. Again(reading.got, Head(todo), reading.total, between.gitea, between.writes, gitea)
        BY <2>3 DEF ExportInv, ReadAgain
      <3>2. Head(todo) \in Listings
        BY <1>5, <2>3 DEF ExportInv, ReadInOrder
      <3>3. QED
        BY <1>1, <2>1, <3>1, <3>2, AgainStays
    <2>4. QED
      BY <2>2, <2>3
  <1>12. Confirmed'
    <2> SUFFICES ASSUME eAt \in Second \ {"indexes"}, pass = 2, NEW l \in Listings,
                        NEW k \in DOMAIN between.gitea[l] \ DOMAIN first.index[l], between.gitea[l][k] # None
                 PROVE  gitea'[l][k] = None
      BY <1>2 DEF ExportInv, Confirmed
    <2>1. gitea[l][k] = None
      BY DEF ExportInv, Confirmed
    <2>2. k \in DOMAIN gitea[l]
      BY DEF ExportInv, SecondPass, Grown
    <2>3. k \in DOMAIN gitea'[l]
      BY <1>4, <2>2
    <2>4. QED
      BY <1>1, <2>1, <2>2, <2>3 DEF Grown
  <1>13. ItemsAgain' /\ SameThroughout'
    BY <1>2 DEF ExportInv, ItemsAgain, SameThroughout
  <1>14. QED
    BY <1>1, <1>7, <1>8, <1>9, <1>10, <1>11, <1>12, <1>13 DEF ExportInv

-----------------------------------------------------------------------------
LEMMA ExportStarts == ASSUME E!Init PROVE ExportInv
  <1>1. /\ gitea = Existing /\ refs = 0 /\ writes = 0 /\ eAt = "idle" /\ pass = 1 /\ reading = None
        /\ index = E!Empty /\ items = E!Empty /\ eStaging = "none"
        /\ destination = [by |-> "nobody", capture |-> None] /\ other = FALSE
    BY DEF E!Init
  <1>2. GiteaSound
    BY <1>1, ExportConstants DEF GiteaSound
  <1>3. DOMAIN index = {}
    BY <1>1 DEF E!Empty
  <1>4. QED
    BY <1>1, <1>2, <1>3 DEF ExportInv, ExportTypes, E!ExportsStay, ReadInOrder, ReadingKnown, FirstPass, SecondPass,
                            ReadAgain, Confirmed, ItemsAgain, SameThroughout, Second, Read

LEMMA StartKeeps ==
    ASSUME ExportInv, E!Start
    PROVE  ExportInv'
  <1>1. /\ eAt = "idle" /\ destination.by = "nobody" /\ eAt' = "indexes"
        /\ todo' = <<"issues", "pulls", "comments">> /\ eStaging' = "partial"
        /\ first' = [refs |-> refs] /\ between' = [started |-> writes]
        /\ UNCHANGED <<gitea, refs, writes, pass, reading, index, items, destination, other>>
    BY DEF E!Start, E!IndexRequests
  <1>2. pass = 1 /\ DOMAIN index = {} /\ reading = None
    BY <1>1 DEF ExportInv, ExportTypes, E!Empty, ReadInOrder
  <1>3. GiteaSound' /\ writes \in Nat /\ refs \in Nat
    BY <1>1, ExportConstants DEF ExportInv, GiteaSound
  <1>4. ReadInOrder' /\ ReadingKnown' /\ FirstPass'
    BY <1>1, <1>2, <1>3 DEF ReadInOrder, ReadingKnown, FirstPass
  <1>5. ExportTypes' /\ E!ExportsStay'
    BY <1>1, <1>2 DEF ExportInv, ExportTypes, E!ExportsStay, Second
  <1>6. SecondPass' /\ ReadAgain' /\ Confirmed' /\ ItemsAgain' /\ SameThroughout'
    BY <1>1, <1>2 DEF SecondPass, ReadAgain, Confirmed, ItemsAgain, SameThroughout, Second, Read
  <1>7. QED
    BY <1>3, <1>4, <1>5, <1>6 DEF ExportInv

(* A process that ends has published nothing.                                     *)
LEMMA EndKeeps ==
    ASSUME ExportInv, eAt # "published", NEW dir \in {"none", "partial", "sealed"}, E!Ends(dir)
    PROVE  ExportInv'
  <1>1. /\ eAt' = "failed" /\ eStaging' = dir /\ pass' = 1 /\ reading' = None /\ index' = E!Empty
        /\ UNCHANGED <<gitea, refs, writes, destination, between, other>>
    BY DEF E!Ends
  <1>2. destination.by # "exporter"
    BY DEF ExportInv, E!ExportsStay
  <1>3. GiteaSound'
    BY <1>1 DEF ExportInv, GiteaSound
  <1>4. ExportTypes' /\ E!ExportsStay' /\ ReadInOrder'
    BY <1>1, <1>2 DEF ExportInv, ExportTypes, E!ExportsStay, E!Empty, ReadInOrder
  <1>5. ReadingKnown' /\ FirstPass' /\ SecondPass' /\ ReadAgain' /\ Confirmed' /\ ItemsAgain' /\ SameThroughout'
    BY <1>1 DEF ReadingKnown, FirstPass, SecondPass, ReadAgain, Confirmed, ItemsAgain, SameThroughout, Second, Read
  <1>6. QED
    BY <1>3, <1>4, <1>5 DEF ExportInv

LEMMA FailedKeeps == ASSUME ExportInv, eAt # "published", E!Failed PROVE ExportInv'
  BY EndKeeps DEF E!Failed

LEMMA RivalKeeps ==
    ASSUME ExportInv, E!Rival
    PROVE  ExportInv'
  <1>1. /\ other' = TRUE /\ destination' = [by |-> "rival", capture |-> None]
        /\ UNCHANGED <<gitea, refs, writes, eAt, pass, reading, index, items, todo, first, eStaging, between>>
    BY DEF E!Rival, E!exporter
  <1>2. E!ExportsStay'
    BY <1>1 DEF E!ExportsStay
  <1>3. /\ GiteaSound' /\ ExportTypes' /\ ReadInOrder' /\ ReadingKnown' /\ FirstPass' /\ SecondPass'
    BY <1>1 DEF ExportInv, GiteaSound, ExportTypes, ReadInOrder, ReadingKnown, FirstPass, SecondPass, E!Empty
  <1>4. /\ ReadAgain' /\ Confirmed' /\ ItemsAgain' /\ SameThroughout'
    BY <1>1 DEF ExportInv, ReadAgain, Confirmed, ItemsAgain, SameThroughout
  <1>5. QED
    BY <1>2, <1>3, <1>4 DEF ExportInv

-----------------------------------------------------------------------------
(* A page is of what Gitea stores now.                                            *)
LEMMA PageKnown ==
    ASSUME GiteaSound, NEW l \in Listings, NEW positions, NEW e \in E!Listed(l, positions)
    PROVE  /\ e = <<e[1], e[2]>> /\ e[1] \in DOMAIN gitea[l] /\ gitea[l][e[1]] # None
           /\ e[2] = E!Row(gitea[l][e[1]])
           /\ e[2].stamp = gitea[l][e[1]].stamp /\ e[2].stamp \in Nat /\ e[2].stamp <= writes
  <1>1. PICK k \in E!Stored(gitea[l]) : e = <<k, E!Row(gitea[l][k])>>
    BY DEF E!Listed
  <1>2. k \in DOMAIN gitea[l] /\ gitea[l][k] # None
    BY DEF E!Stored
  <1>3. e[1] = k /\ e[2] = E!Row(gitea[l][k])
    BY <1>1
  <1>4. e[2].stamp = gitea[l][k].stamp
    BY <1>3 DEF E!Row
  <1>5. gitea[l][k].stamp \in Nat /\ gitea[l][k].stamp <= writes
    BY <1>2 DEF GiteaSound, E!Contents
  <1>6. QED
    BY <1>1, <1>2, <1>3, <1>4, <1>5

LEMMA StoredFinite ==
    ASSUME GiteaSound, NEW l \in Listings
    PROVE  /\ IsFiniteSet(E!Stored(gitea[l])) /\ Cardinality(E!Stored(gitea[l])) \in Nat
           /\ E!Cardinality(E!Stored(gitea[l])) = Cardinality(E!Stored(gitea[l]))
  <1>1. IsFiniteSet(DOMAIN gitea[l]) /\ E!Stored(gitea[l]) \subseteq DOMAIN gitea[l]
    BY DEF GiteaSound, E!Stored
  <1>2. QED
    BY <1>1, FS_Subset, FS_CardinalityType, ExportCardinality

(* The first page of a listing that is read again, and a later one.                 *)
LEMMA FirstPageAgain ==
    ASSUME GiteaSound, NEW l \in Listings, NEW positions, NEW was, NEW w, Grown(was, w, gitea),
           w \in Nat
    PROVE  Again(E!Listed(l, positions), l, Cardinality(E!Stored(gitea[l])), was, w, gitea)
  <1> DEFINE A == E!Stored(gitea[l])
  <1>1. IsFiniteSet(A) /\ Cardinality(A) \in Nat
    BY StoredFinite
  <1>2. \A k \in DOMAIN was[l] : was[l][k] # None => k \in A \/ gitea[l][k] = None
    BY DEF Grown, E!Stored
  <1>3. ASSUME NEW e \in E!Listed(l, positions), e[2].stamp <= w
        PROVE  e[1] \in A /\ e[1] \in DOMAIN was[l] /\ was[l][e[1]] # None /\ e[2] = E!Row(was[l][e[1]])
    <2>1. /\ e[1] \in DOMAIN gitea[l] /\ gitea[l][e[1]] # None /\ e[2] = E!Row(gitea[l][e[1]])
          /\ e[2].stamp = gitea[l][e[1]].stamp /\ e[2].stamp \in Nat
      BY PageKnown
    <2>2. ~(gitea[l][e[1]].stamp > w)
      BY <1>3, <2>1
    <2>3. /\ e[1] \in DOMAIN was[l] /\ was[l][e[1]] # None
          /\ gitea[l][e[1]].stamp = was[l][e[1]].stamp /\ gitea[l][e[1]].parent = was[l][e[1]].parent
      BY <2>1, <2>2 DEF Grown
    <2>4. QED
      BY <2>1, <2>3 DEF E!Row, E!Stored
  <1>4. QED
    BY <1>1, <1>2, <1>3 DEF Again

LEMMA LaterPageAgain ==
    ASSUME GiteaSound, NEW l \in Listings, NEW positions, NEW was, NEW w, Grown(was, w, gitea), w \in Nat,
           NEW rows, NEW total, Again(rows, l, total, was, w, gitea)
    PROVE  Again(rows \cup E!Listed(l, positions), l, total, was, w, gitea)
  <1>1. PICK A : /\ IsFiniteSet(A) /\ Cardinality(A) <= total
                 /\ \A k \in DOMAIN was[l] : was[l][k] # None => k \in A \/ gitea[l][k] = None
                 /\ \A e \in rows : e[2].stamp <= w =>
                        /\ e[1] \in A /\ e[1] \in DOMAIN was[l] /\ was[l][e[1]] # None
                        /\ e[2] = E!Row(was[l][e[1]])
    BY DEF Again
  <1>2. ASSUME NEW e \in E!Listed(l, positions), e[2].stamp <= w
        PROVE  e[1] \in A /\ e[1] \in DOMAIN was[l] /\ was[l][e[1]] # None /\ e[2] = E!Row(was[l][e[1]])
    <2>1. /\ e[1] \in DOMAIN gitea[l] /\ gitea[l][e[1]] # None /\ e[2] = E!Row(gitea[l][e[1]])
          /\ e[2].stamp = gitea[l][e[1]].stamp /\ e[2].stamp \in Nat
      BY PageKnown
    <2>2. ~(gitea[l][e[1]].stamp > w)
      BY <1>2, <2>1
    <2>3. /\ e[1] \in DOMAIN was[l] /\ was[l][e[1]] # None
          /\ gitea[l][e[1]].stamp = was[l][e[1]].stamp /\ gitea[l][e[1]].parent = was[l][e[1]].parent
      BY <2>1, <2>2 DEF Grown
    <2>4. QED
      BY <1>1, <2>1, <2>3 DEF E!Row
  <1>3. QED
    BY <1>1, <1>2 DEF Again

(* A page leaves the listing unfinished, ends it, or ends the export.               *)
PageRead(l, got, total) ==
    /\ Known(got, l, gitea, writes)
    /\ pass = 2 => Again(got, l, total, between.gitea, between.writes, gitea)

PageRows(got) == [k \in {e[1] : e \in got} |-> (CHOOSE e \in got : e[1] = k)[2]]

LEMMA PageRowsRead ==
    ASSUME NEW got
    PROVE  /\ DOMAIN PageRows(got) = {e[1] : e \in got}
           /\ (\A e \in got : e = <<e[1], e[2]>>) => Rows(PageRows(got)) \subseteq got
  <1>1. DOMAIN PageRows(got) = {e[1] : e \in got}
    BY DEF PageRows
  <1>2. ASSUME \A e \in got : e = <<e[1], e[2]>>, NEW k \in {e[1] : e \in got}
        PROVE  <<k, PageRows(got)[k]>> \in got
    <2>1. \E e \in got : e[1] = k
      BY <1>2
    <2>2. PICK c : c = CHOOSE e \in got : e[1] = k
      OBVIOUS
    <2>3. c \in got /\ c[1] = k
      BY <2>1, <2>2
    <2>4. PageRows(got)[k] = c[2]
      BY <2>2 DEF PageRows
    <2>5. c = <<c[1], c[2]>>
      BY <1>2, <2>3
    <2>6. QED
      BY <2>3, <2>4, <2>5
  <1>3. QED
    BY <1>1, <1>2 DEF Rows

LEMMA PageCases ==
    ASSUME ExportInv, E!ReadPage
    PROVE  \/ E!Failed
           \/ \E got, total :
                 /\ PageRead(Head(todo), got, total)
                 /\ total = Cardinality(E!Stored(gitea[Head(todo)]))
                 /\ \/ /\ reading'.total = total /\ reading'.got = got
                       /\ UNCHANGED <<todo, index>>
                    \/ /\ reading' = None /\ todo' = Tail(todo) /\ total <= Cardinality({e[1] : e \in got})
                       /\ index' = [m \in DOMAIN index \cup {Head(todo)} |->
                                        IF m = Head(todo) THEN PageRows(got) ELSE index[m]]
                 /\ UNCHANGED <<gitea, refs, writes, eAt, pass, items, first, eStaging, destination, between, other>>
  <1> DEFINE l == Head(todo)
             all == E!Cardinality(E!Stored(gitea[l]))
             so == IF reading = None THEN [total |-> all, got |-> {}, count |-> 0, next |-> 1] ELSE reading
             page == E!Listed(l, so.next..(so.next + PerPage - 1))
             got == so.got \cup page
             count == so.count + E!Cardinality(page)
             keys == {e[1] : e \in got}
  <1>1. eAt = "indexes" /\ todo # <<>> /\ l \in Listings /\ GiteaSound
    BY DEF E!ReadPage, ExportInv, ReadInOrder, Listings
  <1>2. CASE \/ all # so.total \/ count > so.total
             \/ count < so.total /\ page = {}
             \/ count = so.total /\ E!Cardinality(keys) < count
    BY <1>2 DEF E!ReadPage
  <1>3. CASE ~ (\/ all # so.total \/ count > so.total
                \/ count < so.total /\ page = {}
                \/ count = so.total /\ E!Cardinality(keys) < count)
    <2>1. /\ IF count = so.total
             THEN /\ reading' = None /\ todo' = Tail(todo)
                  /\ index' = [m \in DOMAIN index \cup {l} |->
                                  IF m = l THEN [k \in keys |-> (CHOOSE e \in got : e[1] = k)[2]]
                                  ELSE index[m]]
             ELSE /\ reading' = [total |-> so.total, got |-> got, count |-> count, next |-> so.next + PerPage]
                  /\ UNCHANGED <<todo, index>>
          /\ UNCHANGED <<gitea, refs, writes, eAt, pass, items, first, eStaging, destination, between, other>>
      BY <1>3 DEF E!ReadPage
    <2> DEFINE rows == [k \in keys |-> (CHOOSE e \in got : e[1] = k)[2]]
    <2>2. rows = PageRows(got)
      BY DEF PageRows
    <2>3. all = so.total /\ (count = so.total => ~(E!Cardinality(keys) < so.total))
      BY <1>3
    <2>4. all = Cardinality(E!Stored(gitea[l])) /\ all \in Nat
      BY <1>1, StoredFinite
    <2>5. \A e \in page : /\ e = <<e[1], e[2]>> /\ e[1] \in DOMAIN gitea[l]
                          /\ e[2].stamp \in Nat /\ e[2].stamp <= writes
      BY <1>1, PageKnown
    <2>6. Known(got, l, gitea, writes)
      <3>1. CASE reading = None
        <4>1. so.got = {}
          BY <3>1
        <4>2. QED
          BY <2>5, <4>1 DEF Known
      <3>2. CASE reading # None
        <4>1. so = reading /\ Known(reading.got, l, gitea, writes)
          BY <3>2 DEF ExportInv, ReadingKnown
        <4>2. QED
          BY <2>5, <4>1 DEF Known
      <3>3. QED
        BY <3>1, <3>2
    <2>7. ASSUME pass = 2
          PROVE  Again(got, l, so.total, between.gitea, between.writes, gitea)
      <3>1. between.writes \in Nat /\ Grown(between.gitea, between.writes, gitea)
        BY <1>1, <2>7 DEF ExportInv, SecondPass, Second
      <3>2. CASE reading = None
        <4>1. so.got = {} /\ so.total = Cardinality(E!Stored(gitea[l]))
          BY <2>4, <3>2
        <4>2. got = page
          BY <4>1
        <4>3. Again(page, l, Cardinality(E!Stored(gitea[l])), between.gitea, between.writes, gitea)
          BY <1>1, <3>1, FirstPageAgain
        <4>4. QED
          BY <4>1, <4>2, <4>3
      <3>3. CASE reading # None
        <4>1. so = reading /\ Again(reading.got, l, reading.total, between.gitea, between.writes, gitea)
          BY <1>1, <2>7, <3>3 DEF ExportInv, ReadAgain
        <4>2. QED
          BY <1>1, <3>1, <4>1, LaterPageAgain
      <3>4. QED
        BY <3>2, <3>3
    <2>8. count = so.total => so.total <= Cardinality(keys)
      <3>1. IsFiniteSet(DOMAIN gitea[l]) /\ keys \subseteq DOMAIN gitea[l]
        BY <1>1, <2>6 DEF GiteaSound, Known
      <3>2. Cardinality(keys) \in Nat /\ E!Cardinality(keys) = Cardinality(keys)
        BY <3>1, FS_Subset, FS_CardinalityType, ExportCardinality
      <3>3. QED
        BY <2>3, <2>4, <3>2
    <2>9. PageRead(l, got, so.total) /\ so.total = Cardinality(E!Stored(gitea[l]))
      BY <2>3, <2>4, <2>6, <2>7 DEF PageRead
    <2>10. \/ reading'.total = so.total /\ reading'.got = got /\ UNCHANGED <<todo, index>>
           \/ /\ reading' = None /\ todo' = Tail(todo) /\ so.total <= Cardinality(keys)
              /\ index' = [m \in DOMAIN index \cup {l} |-> IF m = l THEN PageRows(got) ELSE index[m]]
      <3> HIDE DEF so, got, count, keys, rows
      <3>1. CASE count = so.total
        BY <2>1, <2>2, <2>8, <3>1 DEF rows
      <3>2. CASE count # so.total
        BY <2>1, <3>2
      <3>3. QED
        BY <3>1, <3>2
    <2>11. QED
      <3> HIDE DEF so, got, count, rows
      <3>1. QED
        BY <2>1, <2>9, <2>10
  <1>4. QED
    BY <1>2, <1>3

(* A listing that was read in full in the first pass.                             *)
LEMMA ReadInFull ==
    ASSUME GiteaSound, NEW l \in Listings, NEW got, Known(got, l, gitea, writes), NEW started,
           Cardinality(E!Stored(gitea[l])) <= Cardinality({e[1] : e \in got})
    PROVE  /\ IsFiniteSet(DOMAIN PageRows(got)) /\ Rows(PageRows(got)) \subseteq got
           /\ Captured(PageRows(got), l, started, gitea, writes)
  <1>1. (\A e \in got : e = <<e[1], e[2]>> /\ e[1] \in DOMAIN gitea[l])
        /\ DOMAIN PageRows(got) = {e[1] : e \in got}
    BY PageRowsRead DEF Known
  <1>2. Rows(PageRows(got)) \subseteq got
    BY <1>1, PageRowsRead
  <1>3. IsFiniteSet(DOMAIN gitea[l]) /\ DOMAIN PageRows(got) \subseteq DOMAIN gitea[l]
    BY <1>1 DEF GiteaSound
  <1>4. IsFiniteSet(DOMAIN PageRows(got))
    BY <1>3, FS_Subset
  <1>5. Known(Rows(PageRows(got)), l, gitea, writes)
    BY <1>2 DEF Known
  <1>6. IsFiniteSet(E!Stored(gitea[l])) /\ Cardinality(E!Stored(gitea[l])) <= Cardinality(DOMAIN PageRows(got))
    BY <1>1, StoredFinite
  <1>7. \A k \in DOMAIN gitea[l] : k \in E!Stored(gitea[l]) \/ gitea[l][k] = None
    BY DEF E!Stored
  <1>8. \E A : /\ IsFiniteSet(A) /\ Cardinality(A) <= Cardinality(DOMAIN PageRows(got))
               /\ \A k \in DOMAIN gitea[l] : gitea[l][k] # None /\ gitea[l][k].stamp <= started => k \in A
               /\ \A k \in DOMAIN PageRows(got) : k \in A \/ gitea[l][k] = None
    BY <1>3, <1>6, <1>7
  <1>9. QED
    BY <1>2, <1>4, <1>5, <1>8 DEF Captured

LEMMA AgainOfFewer ==
    ASSUME NEW rows, NEW some \in SUBSET rows, NEW l, NEW total \in Nat, NEW more \in Nat, total <= more,
           NEW was, NEW w, NEW now, Again(rows, l, total, was, w, now)
    PROVE  Again(some, l, more, was, w, now)
  <1>1. PICK A : /\ IsFiniteSet(A) /\ Cardinality(A) <= total
                 /\ \A k \in DOMAIN was[l] : was[l][k] # None => k \in A \/ now[l][k] = None
                 /\ \A e \in rows : e[2].stamp <= w =>
                        /\ e[1] \in A /\ e[1] \in DOMAIN was[l] /\ was[l][e[1]] # None
                        /\ e[2] = E!Row(was[l][e[1]])
    BY DEF Again
  <1>2. Cardinality(A) <= more
    BY <1>1, FS_CardinalityType
  <1>3. QED
    BY <1>1, <1>2 DEF Again

LEMMA ReadPageKeeps ==
    ASSUME ExportInv, E!ReadPage
    PROVE  ExportInv'
  <1>1. CASE E!Failed
    BY <1>1, FailedKeeps DEF E!ReadPage
  <1> DEFINE l == Head(todo)
             Changed == UNCHANGED <<gitea, refs, writes, eAt, pass, items, first, eStaging, destination, between, other>>
             Unfinished(got, total) == reading'.total = total /\ reading'.got = got /\ UNCHANGED <<todo, index>>
             Finished(got, total) ==
                /\ reading' = None /\ todo' = Tail(todo) /\ total <= Cardinality({e[1] : e \in got})
                /\ index' = [m \in DOMAIN index \cup {l} |-> IF m = l THEN PageRows(got) ELSE index[m]]
  <1>2. ASSUME NEW got, NEW total, PageRead(l, got, total),
               total = Cardinality(E!Stored(gitea[l])), Unfinished(got, total) \/ Finished(got, total), Changed
        PROVE  ExportInv'
    <2>1. eAt = "indexes" /\ todo # <<>> /\ l \in Listings /\ GiteaSound /\ total \in Nat
      <3>1. eAt = "indexes" /\ todo # <<>> /\ l \in Listings /\ GiteaSound
        BY DEF E!ReadPage, ExportInv, ReadInOrder, Listings
      <3>2. QED
        BY <1>2, <3>1, StoredFinite
    <2>2. GiteaSound' /\ UNCHANGED <<gitea, writes, refs>>
      BY <1>2 DEF ExportInv, GiteaSound
    <2>3. Known(got, l, gitea, writes) /\ (pass = 2 => Again(got, l, total, between.gitea, between.writes, gitea))
      BY <1>2 DEF PageRead
    <2>4. E!ExportsStay' /\ Confirmed' /\ ItemsAgain' /\ SameThroughout'
      BY <1>2, <2>1 DEF ExportInv, E!ExportsStay, Confirmed, ItemsAgain, SameThroughout, Read
    <2>5. SecondPass'
      BY <1>2 DEF ExportInv, SecondPass
    <2>6. CASE Unfinished(got, total)
      <3>1. ReadInOrder' /\ ExportTypes'
        BY <1>2, <2>1, <2>6 DEF ExportInv, ReadInOrder, ExportTypes
      <3>2. ReadingKnown'
        BY <1>2, <2>3, <2>6 DEF ReadingKnown
      <3>3. FirstPass'
        BY <1>2, <2>1, <2>6 DEF ExportInv, FirstPass
      <3>4. ReadAgain'
        BY <1>2, <2>3, <2>6 DEF ExportInv, ReadAgain
      <3>5. QED
        BY <2>2, <2>4, <2>5, <3>1, <3>2, <3>3, <3>4 DEF ExportInv
    <2>7. CASE Finished(got, total)
      <3>1. /\ DOMAIN index' = DOMAIN index \cup {l} /\ index'[l] = PageRows(got)
            /\ \A m \in DOMAIN index \ {l} : index'[m] = index[m]
        BY <2>7
      <3>2. /\ IsFiniteSet(DOMAIN PageRows(got)) /\ Rows(PageRows(got)) \subseteq got
            /\ \A started : Captured(PageRows(got), l, started, gitea, writes)
        BY <1>2, <2>1, <2>3, <2>7, ReadInFull
      <3>3. ReadInOrder'
        <4>1. \/ /\ todo = <<"issues", "pulls", "comments">> /\ DOMAIN index = {}
                 /\ l = "issues" /\ Tail(todo) = <<"pulls", "comments">>
              \/ /\ todo = <<"pulls", "comments">> /\ DOMAIN index = {"issues"}
                 /\ l = "pulls" /\ Tail(todo) = <<"comments">>
              \/ /\ todo = <<"comments">> /\ DOMAIN index = {"issues", "pulls"}
                 /\ l = "comments" /\ Tail(todo) = <<>>
          <5>1. /\ Tail(<<"issues", "pulls", "comments">>) = <<"pulls", "comments">>
                /\ Tail(<<"pulls", "comments">>) = <<"comments">>
                /\ Tail(<<"comments">>) = <<>>
            OBVIOUS
          <5>2. /\ Head(<<"issues", "pulls", "comments">>) = "issues"
                /\ Head(<<"pulls", "comments">>) = "pulls"
                /\ Head(<<"comments">>) = "comments"
            OBVIOUS
          <5>3. \/ todo = <<"issues", "pulls", "comments">> /\ DOMAIN index = {}
                \/ todo = <<"pulls", "comments">> /\ DOMAIN index = {"issues"}
                \/ todo = <<"comments">> /\ DOMAIN index = {"issues", "pulls"}
            BY <2>1 DEF ExportInv, ReadInOrder
          <5>4. QED
            BY <5>1, <5>2, <5>3
        <4>2. todo' = Tail(todo) /\ reading' = None /\ eAt' = "indexes"
          BY <1>2, <2>1, <2>7
        <4>3. QED
          BY <3>1, <4>1, <4>2 DEF ReadInOrder, Listings
      <3>4. ExportTypes' /\ ReadingKnown'
        BY <1>2, <2>1, <2>7, <3>1 DEF ExportInv, ExportTypes, ReadingKnown
      <3>5. FirstPass'
        <4>1. SUFFICES ASSUME pass = 1
                       PROVE  \A m \in DOMAIN index' : Captured(index'[m], m, between.started, gitea, writes)
          BY <1>2, <2>1 DEF ExportInv, FirstPass
        <4>2. \A m \in DOMAIN index : Captured(index[m], m, between.started, gitea, writes)
          BY <2>1, <4>1 DEF ExportInv, FirstPass
        <4>3. QED
          BY <3>1, <3>2, <4>2
      <3>6. ReadAgain'
        <4>1. SUFFICES ASSUME pass = 2
                       PROVE  \A m \in DOMAIN index' :
                                  /\ IsFiniteSet(DOMAIN index'[m])
                                  /\ Again(Rows(index'[m]), m, Cardinality(DOMAIN index'[m]),
                                           between.gitea, between.writes, gitea)
          <5>1. reading' = None /\ UNCHANGED <<pass, between, gitea>>
            BY <1>2, <2>7
          <5>2. QED
            BY <5>1 DEF ReadAgain, Rows
        <4>2. \A m \in DOMAIN index :
                  /\ IsFiniteSet(DOMAIN index[m])
                  /\ Again(Rows(index[m]), m, Cardinality(DOMAIN index[m]), between.gitea, between.writes, gitea)
          BY <2>1, <4>1 DEF ExportInv, ReadAgain
        <4>3. total <= Cardinality(DOMAIN PageRows(got)) /\ Cardinality(DOMAIN PageRows(got)) \in Nat
          BY <2>7, <3>2, PageRowsRead, FS_CardinalityType
        <4>4. Again(Rows(PageRows(got)), l, Cardinality(DOMAIN PageRows(got)), between.gitea, between.writes, gitea)
          BY <2>1, <2>3, <3>2, <4>1, <4>3, AgainOfFewer
        <4>5. QED
          BY <3>1, <3>2, <4>2, <4>4
      <3>7. QED
        BY <2>2, <2>4, <2>5, <3>3, <3>4, <3>5, <3>6 DEF ExportInv
    <2>8. QED
      BY <1>2, <2>6, <2>7
  <1> HIDE DEF Changed, Unfinished, Finished
  <1>3. QED
    BY <1>1, <1>2, PageCases DEF Changed, Unfinished, Finished

(* A listing that both passes tell alike is what Gitea held between them.            *)
LEMMA SameListing ==
    ASSUME NEW f, NEW l, NEW started, NEW was, NEW w \in Nat, NEW now,
           Captured(f, l, started, was, w),
           Again(Rows(f), l, Cardinality(DOMAIN f), was, w, now)
    PROVE  /\ \A k \in DOMAIN f : k \in DOMAIN was[l] /\ was[l][k] # None /\ f[k] = E!Row(was[l][k])
           /\ \A k \in DOMAIN was[l] \ DOMAIN f : was[l][k] # None => ~(was[l][k].stamp <= started) /\ now[l][k] = None
  <1> DEFINE D == DOMAIN f
  <1>1. IsFiniteSet(D) /\ \A k \in D : k \in DOMAIN was[l] /\ f[k].stamp \in Nat /\ f[k].stamp <= w
    BY KnownRows DEF Captured
  <1>2. PICK B : /\ IsFiniteSet(B) /\ Cardinality(B) <= Cardinality(D)
                 /\ \A k \in DOMAIN was[l] : was[l][k] # None => k \in B \/ now[l][k] = None
                 /\ \A e \in Rows(f) : e[2].stamp <= w =>
                        /\ e[1] \in B /\ e[1] \in DOMAIN was[l] /\ was[l][e[1]] # None
                        /\ e[2] = E!Row(was[l][e[1]])
    BY DEF Again
  <1>3. ASSUME NEW k \in D
        PROVE  k \in B /\ k \in DOMAIN was[l] /\ was[l][k] # None /\ f[k] = E!Row(was[l][k])
    <2>1. PICK e : e = <<k, f[k]>>
      OBVIOUS
    <2>2. e \in Rows(f) /\ e[1] = k /\ e[2] = f[k]
      BY <2>1 DEF Rows
    <2>3. QED
      BY <1>1, <1>2, <2>2
  <1>4. B = D
    <2>1. D \in SUBSET B
      BY <1>3
    <2>2. Cardinality(D) <= Cardinality(B) /\ Cardinality(D) \in Nat /\ Cardinality(B) \in Nat
      BY <1>1, <1>2, <2>1, FS_Subset, FS_CardinalityType
    <2>3. Cardinality(B) = Cardinality(D)
      BY <1>2, <2>2
    <2>4. QED
      BY <1>2, <2>1, <2>3, FS_Subset
  <1>5. PICK A : /\ IsFiniteSet(A) /\ Cardinality(A) <= Cardinality(D)
                 /\ \A k \in DOMAIN was[l] : was[l][k] # None /\ was[l][k].stamp <= started => k \in A
                 /\ \A k \in D : k \in A \/ was[l][k] = None
    BY DEF Captured
  <1>6. A = D
    <2>1. D \in SUBSET A
      BY <1>3, <1>5
    <2>2. Cardinality(D) <= Cardinality(A) /\ Cardinality(D) \in Nat /\ Cardinality(A) \in Nat
      BY <1>1, <1>5, <2>1, FS_Subset, FS_CardinalityType
    <2>3. Cardinality(A) = Cardinality(D)
      BY <1>5, <2>2
    <2>4. QED
      BY <1>5, <2>1, <2>3, FS_Subset
  <1>7. QED
    BY <1>2, <1>3, <1>4, <1>5, <1>6

LEMMA EndIndexesKeeps ==
    ASSUME ExportInv, E!EndIndexes
    PROVE  ExportInv'
  <1>1. eAt = "indexes" /\ todo = <<>> /\ DOMAIN index = Listings /\ items = E!Empty /\ reading = None
    BY DEF E!EndIndexes, ExportInv, ReadInOrder, ExportTypes
  <1>2. CASE E!Failed
    BY <1>1, <1>2, FailedKeeps
  <1>3. CASE ~E!Failed
    <2>1. /\ eAt' = "items" /\ (pass = 2 => index = first.index)
          /\ UNCHANGED <<gitea, refs, writes, pass, reading, index, items, todo, first, eStaging, destination, between, other>>
      BY <1>3 DEF E!EndIndexes
    <2>2. /\ GiteaSound' /\ ExportTypes' /\ E!ExportsStay' /\ ReadInOrder' /\ ReadingKnown'
      BY <1>1, <2>1 DEF ExportInv, GiteaSound, ExportTypes, E!ExportsStay, ReadInOrder, ReadingKnown, Second
    <2>3. FirstPass' /\ ItemsAgain' /\ ReadAgain' /\ SameThroughout'
      BY <1>1, <2>1 DEF ExportInv, FirstPass, ItemsAgain, ReadAgain, SameThroughout, Read, E!Empty
    <2>4. SecondPass'
      BY <1>1, <2>1 DEF ExportInv, SecondPass, Second
    <2>5. Confirmed'
      <3>1. SUFFICES ASSUME pass = 2, NEW l \in Listings
                     PROVE  /\ \A k \in DOMAIN first.index[l] :
                                  /\ k \in DOMAIN between.gitea[l] /\ between.gitea[l][k] # None
                                  /\ first.index[l][k] = E!Row(between.gitea[l][k])
                            /\ \A k \in DOMAIN between.gitea[l] \ DOMAIN first.index[l] :
                                  between.gitea[l][k] # None =>
                                      between.gitea[l][k].stamp > between.started /\ gitea[l][k] = None
        BY <2>1 DEF Confirmed
      <3>2. /\ Captured(first.index[l], l, between.started, between.gitea, between.writes)
            /\ between.writes \in Nat /\ between.started \in Nat
            /\ \A k \in DOMAIN between.gitea[l] : between.gitea[l][k] # None => between.gitea[l][k].stamp \in Nat
        BY <1>1, <3>1 DEF ExportInv, SecondPass, Second, E!Contents
      <3>3. Again(Rows(first.index[l]), l, Cardinality(DOMAIN first.index[l]), between.gitea, between.writes, gitea)
        BY <1>1, <2>1, <3>1 DEF ExportInv, ReadAgain
      <3>4. /\ \A k \in DOMAIN first.index[l] :
                  /\ k \in DOMAIN between.gitea[l] /\ between.gitea[l][k] # None
                  /\ first.index[l][k] = E!Row(between.gitea[l][k])
            /\ \A k \in DOMAIN between.gitea[l] \ DOMAIN first.index[l] :
                  between.gitea[l][k] # None =>
                      ~(between.gitea[l][k].stamp <= between.started) /\ gitea[l][k] = None
        BY <3>2, <3>3, SameListing
      <3>5. QED
        BY <3>2, <3>4
    <2>6. QED
      BY <2>2, <2>3, <2>4, <2>5 DEF ExportInv
  <1>4. QED
    BY <1>2, <1>3

-----------------------------------------------------------------------------
(* The reviews of a listed pull request that is still there are its own.            *)
LEMMA ReviewsRead ==
    ASSUME GiteaSound, NEW n \in DOMAIN gitea.pulls, n \in E!Numbers
    PROVE  /\ gitea.pulls[n] # None /\ E!Resource(n, "reviews") = gitea.pulls[n].review
           /\ gitea.pulls[n].review \in Nat
  <1>1. n \in E!Stored(gitea.pulls)
    BY DEF E!Numbers, E!Stored, GiteaSound
  <1>2. E!Resource(n, "reviews") = gitea.pulls[n].review
    BY <1>1 DEF E!Resource
  <1>3. QED
    BY <1>1, <1>2 DEF E!Stored, GiteaSound, Listings, E!Contents

LEMMA ReadItemKeeps ==
    ASSUME ExportInv, E!ReadItem
    PROVE  ExportInv'
  <1>1. eAt = "items" /\ DOMAIN index = Listings /\ reading = None /\ GiteaSound /\ "pulls" \in Listings
    BY DEF E!ReadItem, ExportInv, ReadInOrder, Listings
  <1>2. CASE E!Failed
    BY <1>1, <1>2, FailedKeeps
  <1>3. CASE ~E!Failed
    <2>1. PICK r \in E!ItemRequests \ DOMAIN items :
              /\ r[1] \in E!Numbers
              /\ items' = [q \in DOMAIN items \cup {r} |-> IF q = r THEN E!Resource(r[1], r[2]) ELSE items[q]]
              /\ UNCHANGED <<gitea, refs, writes, eAt, pass, reading, index, todo, first, eStaging, destination, between, other>>
      BY <1>3 DEF E!ReadItem
    <2>2. ASSUME NEW n \in DOMAIN index["pulls"], <<n, "reviews">> \in DOMAIN items', n \in DOMAIN gitea.pulls
          PROVE  \/ <<n, "reviews">> \in DOMAIN items /\ items'[<<n, "reviews">>] = items[<<n, "reviews">>]
                 \/ /\ gitea.pulls[n] # None /\ items'[<<n, "reviews">>] = gitea.pulls[n].review
                    /\ gitea.pulls[n].review \in Nat
      <3>1. CASE r = <<n, "reviews">>
        <4>1. r[1] = n /\ r[2] = "reviews"
          BY <3>1
        <4>2. items'[<<n, "reviews">>] = E!Resource(n, "reviews") /\ n \in E!Numbers
          BY <2>1, <3>1, <4>1
        <4>3. QED
          BY <1>1, <2>2, <4>2, ReviewsRead
      <3>2. CASE r # <<n, "reviews">>
        BY <2>1, <2>2, <3>2
      <3>3. QED
        BY <3>1, <3>2
    <2>3. /\ GiteaSound' /\ ExportTypes' /\ E!ExportsStay' /\ ReadInOrder' /\ ReadingKnown'
      BY <1>1, <2>1 DEF ExportInv, GiteaSound, ExportTypes, E!ExportsStay, ReadInOrder, ReadingKnown
    <2>4. SecondPass' /\ ReadAgain' /\ Confirmed' /\ SameThroughout'
      BY <1>1, <2>1 DEF ExportInv, SecondPass, ReadAgain, Confirmed, SameThroughout, Read
    <2>5. FirstPass'
      <3>1. SUFFICES ASSUME pass = 1, NEW n \in DOMAIN index["pulls"], <<n, "reviews">> \in DOMAIN items'
                     PROVE  /\ items'[<<n, "reviews">>] \in Nat
                            /\ gitea.pulls[n] # None => items'[<<n, "reviews">>] <= gitea.pulls[n].review
        BY <1>1, <2>1 DEF ExportInv, FirstPass
      <3>2. n \in DOMAIN gitea.pulls
        <4>1. Captured(index["pulls"], "pulls", between.started, gitea, writes)
          BY <1>1, <3>1 DEF ExportInv, FirstPass
        <4>2. QED
          BY <3>1, <4>1, KnownRows DEF Captured
      <3>3. CASE <<n, "reviews">> \in DOMAIN items /\ items'[<<n, "reviews">>] = items[<<n, "reviews">>]
        BY <1>1, <3>1, <3>3 DEF ExportInv, FirstPass
      <3>4. CASE gitea.pulls[n] # None /\ items'[<<n, "reviews">>] = gitea.pulls[n].review /\ gitea.pulls[n].review \in Nat
        BY <3>4
      <3>5. QED
        BY <2>2, <3>1, <3>2, <3>3, <3>4
    <2>6. ItemsAgain'
      <3>1. SUFFICES ASSUME pass = 2, NEW n \in DOMAIN index["pulls"], <<n, "reviews">> \in DOMAIN items'
                     PROVE  /\ items'[<<n, "reviews">>] \in Nat
                            /\ between.gitea.pulls[n].review <= items'[<<n, "reviews">>]
        BY <1>1, <2>1 DEF ExportInv, ItemsAgain
      <3>2. n \in DOMAIN between.gitea.pulls /\ between.gitea.pulls[n] # None
        BY <1>1, <3>1 DEF ExportInv, ItemsAgain, Confirmed, Second
      <3>3. Grown(between.gitea, between.writes, gitea)
        BY <1>1, <3>1 DEF ExportInv, SecondPass, Second
      <3>4. n \in DOMAIN gitea.pulls
        BY <1>1, <3>2, <3>3 DEF Grown
      <3>5. CASE <<n, "reviews">> \in DOMAIN items /\ items'[<<n, "reviews">>] = items[<<n, "reviews">>]
        BY <1>1, <3>1, <3>5 DEF ExportInv, ItemsAgain
      <3>6. CASE gitea.pulls[n] # None /\ items'[<<n, "reviews">>] = gitea.pulls[n].review /\ gitea.pulls[n].review \in Nat
        BY <1>1, <3>2, <3>3, <3>4, <3>6 DEF Grown
      <3>7. QED
        BY <2>2, <3>1, <3>4, <3>5, <3>6
    <2>7. QED
      BY <2>3, <2>4, <2>5, <2>6 DEF ExportInv
  <1>4. QED
    BY <1>2, <1>3

(* The items that were requested are those of the listings.                        *)
LEMMA AllRequested ==
    ASSUME NEW its, DOMAIN its = E!ItemRequests
    PROVE  /\ {r[1] : r \in DOMAIN its} = DOMAIN index["issues"] \cup DOMAIN index["pulls"]
           /\ \A n \in DOMAIN index["pulls"] : <<n, "reviews">> \in DOMAIN its
  <1> DEFINE numbers == DOMAIN index["issues"] \cup DOMAIN index["pulls"]
  <1>1. \A r \in DOMAIN its : r[1] \in numbers
    BY DEF E!ItemRequests
  <1>2. ASSUME NEW n \in numbers PROVE <<n, "detail">> \in DOMAIN its
    BY DEF E!ItemRequests
  <1>3. \A n \in DOMAIN index["pulls"] : <<n, "reviews">> \in DOMAIN its
    BY DEF E!ItemRequests
  <1>4. ASSUME NEW n \in numbers PROVE n \in {r[1] : r \in DOMAIN its}
    <2>1. PICK r : r = <<n, "detail">>
      OBVIOUS
    <2>2. r \in DOMAIN its /\ r[1] = n
      BY <1>2, <2>1
    <2>3. QED
      BY <2>2
  <1>5. QED
    BY <1>1, <1>3, <1>4

LEMMA GrownNot ==
    ASSUME GiteaSound
    PROVE  Grown(gitea, writes, gitea)
  <1>1. \A l \in Listings : \A k \in DOMAIN gitea[l] : gitea[l][k] # None => gitea[l][k].review \in Nat
    BY DEF GiteaSound, E!Contents
  <1>2. QED
    BY <1>1 DEF Grown

LEMMA EndItemsKeeps ==
    ASSUME ExportInv, E!EndItems
    PROVE  ExportInv'
  <1>1. /\ eAt = "items" /\ DOMAIN items = E!ItemRequests /\ DOMAIN index = Listings /\ reading = None
        /\ GiteaSound /\ "pulls" \in Listings /\ pass \in {1, 2}
    BY DEF E!EndItems, ExportInv, ReadInOrder, ExportTypes, Listings
  <1>2. CASE E!Failed
    BY <1>1, <1>2, FailedKeeps
  <1>3. /\ {r[1] : r \in DOMAIN items} = DOMAIN index["issues"] \cup DOMAIN index["pulls"]
        /\ \A n \in DOMAIN index["pulls"] : <<n, "reviews">> \in DOMAIN items
    BY <1>1, AllRequested
  <1>4. CASE ~E!Failed /\ pass = 1
    <2>1. /\ first' = [refs |-> first.refs, index |-> index, items |-> items]
          /\ pass' = 2 /\ eAt' = "indexes" /\ todo' = <<"issues", "pulls", "comments">>
          /\ index' = E!Empty /\ items' = E!Empty
          /\ between' = [started |-> between.started, gitea |-> gitea, refs |-> refs, writes |-> writes]
          /\ UNCHANGED <<gitea, refs, writes, reading, eStaging, destination, other>>
      BY <1>4 DEF E!EndItems, E!IndexRequests
    <2>2. DOMAIN index' = {}
      BY <2>1 DEF E!Empty
    <2>3. destination.by # "exporter"
      BY <1>1 DEF ExportInv, E!ExportsStay
    <2>4. GiteaSound' /\ ExportTypes' /\ E!ExportsStay' /\ ReadInOrder' /\ ReadingKnown'
      BY <1>1, <2>1, <2>2, <2>3 DEF ExportInv, GiteaSound, ExportTypes, E!ExportsStay, ReadInOrder, ReadingKnown,
                                    Second, E!Empty
    <2>5. FirstPass' /\ ReadAgain' /\ Confirmed' /\ ItemsAgain' /\ SameThroughout'
      BY <1>1, <2>1, <2>2 DEF FirstPass, ReadAgain, Confirmed, ItemsAgain, SameThroughout, Read
    <2>6. SecondPass'
      <3>1. /\ first'.refs = first.refs /\ first'.index = index /\ first'.items = items
            /\ between'.started = between.started /\ between'.gitea = gitea
            /\ between'.refs = refs /\ between'.writes = writes
        BY <2>1
      <3>2. first.refs \in Nat /\ refs \in Nat /\ first.refs <= refs /\ writes \in Nat /\ between.started \in Nat
        BY <1>1, <1>4, ExportConstants DEF ExportInv, FirstPass, GiteaSound
      <3>3. \A l \in Listings : Captured(index[l], l, between.started, gitea, writes)
        BY <1>1, <1>4 DEF ExportInv, FirstPass
      <3>4. \A l \in Listings : \A k \in DOMAIN gitea[l] :
                gitea[l][k] # None => gitea[l][k] \in E!Contents /\ gitea[l][k].stamp <= writes
        BY <1>1 DEF GiteaSound
      <3>5. \A n \in DOMAIN index["pulls"] :
                /\ items[<<n, "reviews">>] \in Nat
                /\ gitea.pulls[n] # None => items[<<n, "reviews">>] <= gitea.pulls[n].review
        BY <1>1, <1>3, <1>4 DEF ExportInv, FirstPass
      <3>6. Grown(gitea, writes, gitea)
        BY <1>1, GrownNot
      <3>7. gitea' = gitea /\ refs' = refs /\ writes' = writes /\ writes <= writes /\ refs <= refs
        BY <2>1, <3>2
      <3>8. QED
        BY <1>3, <3>1, <3>2, <3>3, <3>4, <3>5, <3>6, <3>7 DEF SecondPass
    <2>7. QED
      BY <2>4, <2>5, <2>6 DEF ExportInv
  <1>5. CASE ~E!Failed /\ pass # 1
    <2>1. /\ first.items = items /\ pass = 2 /\ eAt' = "refs" /\ index' = E!Empty /\ items' = E!Empty
          /\ UNCHANGED <<gitea, refs, writes, pass, reading, todo, first, eStaging, destination, between, other>>
      BY <1>1, <1>5 DEF E!EndItems, E!SameItems
    <2>2. DOMAIN index' = {}
      BY <2>1 DEF E!Empty
    <2>3. GiteaSound' /\ ExportTypes' /\ E!ExportsStay' /\ ReadInOrder' /\ ReadingKnown'
      BY <1>1, <2>1, <2>2 DEF ExportInv, GiteaSound, ExportTypes, E!ExportsStay, ReadInOrder, ReadingKnown, Second, Read
    <2>4. FirstPass' /\ SecondPass' /\ ReadAgain' /\ Confirmed' /\ ItemsAgain'
      BY <1>1, <2>1 DEF ExportInv, FirstPass, SecondPass, ReadAgain, Confirmed, ItemsAgain, Second, Read
    <2>5. SameThroughout'
      <3>1. SUFFICES ASSUME NEW n \in DOMAIN first.index["pulls"]
                     PROVE  first.items[<<n, "reviews">>] = between.gitea.pulls[n].review
        BY <2>1 DEF SameThroughout
      <3>2. index = first.index /\ <<n, "reviews">> \in DOMAIN items
        BY <1>1, <1>3, <2>1, <3>1 DEF ExportInv, ItemsAgain
      <3>3. between.gitea.pulls[n].review <= items[<<n, "reviews">>] /\ items[<<n, "reviews">>] \in Nat
        BY <1>1, <2>1, <3>1, <3>2 DEF ExportInv, ItemsAgain
      <3>4. n \in DOMAIN between.gitea.pulls /\ between.gitea.pulls[n] # None
        BY <1>1, <2>1, <3>1 DEF ExportInv, Confirmed, Second
      <3>5. /\ first.items[<<n, "reviews">>] <= between.gitea.pulls[n].review
            /\ between.gitea.pulls[n].review \in Nat
        BY <1>1, <2>1, <3>1, <3>4 DEF ExportInv, SecondPass, Second, E!Contents
      <3>6. QED
        BY <2>1, <3>3, <3>5
    <2>6. QED
      BY <2>3, <2>4, <2>5 DEF ExportInv
  <1>6. QED
    BY <1>2, <1>4, <1>5

LEMMA SealKeeps ==
    ASSUME ExportInv, E!Seal
    PROVE  ExportInv'
  <1>1. eAt \in {"refs", "bundle"} /\ eAt # "published"
    BY DEF E!Seal
  <1>2. CASE E!Failed
    BY <1>1, <1>2, FailedKeeps
  <1>3. CASE ~E!Failed
    <2>1. /\ refs = first.refs /\ eAt' \in {"bundle", "sealed"} /\ eStaging' \in {eStaging, "sealed"}
          /\ UNCHANGED <<gitea, refs, writes, pass, reading, index, items, todo, first, destination, between, other>>
      BY <1>3 DEF E!Seal
    <2>2. pass = 2
      BY <1>1 DEF ExportInv, SameThroughout, Read
    <2>3. first.refs = between.refs
      <3>1. first.refs \in Nat /\ between.refs \in Nat /\ first.refs <= between.refs /\ between.refs <= refs
        BY <1>1, <2>2 DEF ExportInv, SecondPass, Second, Read
      <3>2. QED
        BY <2>1, <3>1
    <2>4. GiteaSound' /\ ExportTypes' /\ E!ExportsStay' /\ ReadInOrder' /\ ReadingKnown'
      BY <1>1, <2>1 DEF ExportInv, GiteaSound, ExportTypes, E!ExportsStay, ReadInOrder, ReadingKnown, Second, Read
    <2>5. FirstPass' /\ SecondPass' /\ ReadAgain' /\ Confirmed' /\ ItemsAgain'
      BY <1>1, <2>1 DEF ExportInv, FirstPass, SecondPass, ReadAgain, Confirmed, ItemsAgain, Second, Read
    <2>6. SameThroughout'
      BY <1>1, <2>1, <2>3 DEF ExportInv, SameThroughout, Read
    <2>7. QED
      BY <2>4, <2>5, <2>6 DEF ExportInv
  <1>4. QED
    BY <1>2, <1>3

LEMMA PublishKeeps ==
    ASSUME ExportInv, E!Publish
    PROVE  ExportInv'
  <1>1. eAt = "sealed"
    BY DEF E!Publish
  <1>2. CASE E!Failed
    BY <1>1, <1>2, FailedKeeps
  <1>3. CASE ~E!Failed
    <2>1. /\ destination.by = "nobody" /\ eAt' = "published" /\ eStaging' = "none"
          /\ destination' = [by |-> "exporter", capture |-> first]
          /\ UNCHANGED <<gitea, refs, writes, pass, reading, index, items, todo, first, between, other>>
      BY <1>3 DEF E!Publish, E!NotReplaced
    <2>2. E!ExportsStay'
      BY <2>1 DEF ExportInv, E!ExportsStay
    <2>3. GiteaSound' /\ ExportTypes' /\ ReadInOrder' /\ ReadingKnown'
      BY <1>1, <2>1 DEF ExportInv, GiteaSound, ExportTypes, ReadInOrder, ReadingKnown, Second, Read
    <2>4. FirstPass' /\ SecondPass' /\ ReadAgain' /\ Confirmed' /\ ItemsAgain' /\ SameThroughout'
      BY <1>1, <2>1 DEF ExportInv, FirstPass, SecondPass, ReadAgain, Confirmed, ItemsAgain, SameThroughout, Second, Read
    <2>5. QED
      BY <2>2, <2>3, <2>4 DEF ExportInv
  <1>4. QED
    BY <1>2, <1>3

LEMMA ExportStep == ExportInv /\ [E!Next]_exportVars => ExportInv'
  <1> SUFFICES ASSUME ExportInv, [E!Next]_exportVars PROVE ExportInv'
    OBVIOUS
  <1>1. CASE UNCHANGED exportVars
    BY <1>1 DEF exportVars, ExportInv, GiteaSound, ExportTypes, E!ExportsStay, ReadInOrder, ReadingKnown, FirstPass,
                SecondPass, ReadAgain, Confirmed, ItemsAgain, SameThroughout, E!Empty
  <1>2. CASE E!Fail
    <2>1. eAt # "published" /\ eStaging \in {"none", "partial", "sealed"} /\ (E!Failed \/ E!Ends(eStaging))
      BY <1>2 DEF E!Fail, ExportInv, ExportTypes
    <2>2. QED
      BY <2>1, EndKeeps, FailedKeeps
  <1>3. QED
    BY <1>1, <1>2, WriteKeeps, StartKeeps, ReadPageKeeps, EndIndexesKeeps, ReadItemKeeps, EndItemsKeeps, SealKeeps,
       PublishKeeps, RivalKeeps DEF E!Next

LEMMA ExportSafe == ExportInv => E!TypeOK /\ E!ExportsAreOneInstant /\ E!ExportsStay
  <1> SUFFICES ASSUME ExportInv PROVE E!TypeOK /\ E!ExportsAreOneInstant /\ E!ExportsStay
    OBVIOUS
  <1>1. E!TypeOK
    BY ExportConstants DEF E!TypeOK, ExportInv, ExportTypes, GiteaSound, Second, Read
  <1>2. E!ExportsAreOneInstant
    <2>1. SUFFICES ASSUME destination.by = "exporter"
                   PROVE  /\ first.refs = between.refs
                          /\ \A l \in Listings :
                                /\ \A k \in DOMAIN first.index[l] :
                                      /\ k \in E!Stored(between.gitea[l])
                                      /\ first.index[l][k] = E!Row(between.gitea[l][k])
                                /\ \A k \in E!Stored(between.gitea[l]) \ DOMAIN first.index[l] :
                                      between.gitea[l][k].stamp > between.started /\ gitea[l][k] = None
                          /\ {r[1] : r \in DOMAIN first.items} = DOMAIN first.index["issues"] \cup DOMAIN first.index["pulls"]
                          /\ \A n \in DOMAIN first.index["pulls"] :
                                first.items[<<n, "reviews">>] = between.gitea.pulls[n].review
      BY ExportConstants DEF E!ExportsAreOneInstant, ExportInv, E!ExportsStay
    <2>2. eAt = "published" /\ pass = 2
      BY <2>1 DEF ExportInv, E!ExportsStay, SameThroughout, Read
    <2>3. /\ first.refs = between.refs
          /\ {r[1] : r \in DOMAIN first.items} = DOMAIN first.index["issues"] \cup DOMAIN first.index["pulls"]
          /\ \A n \in DOMAIN first.index["pulls"] :
                first.items[<<n, "reviews">>] = between.gitea.pulls[n].review
      BY <2>2 DEF ExportInv, SecondPass, SameThroughout, Second, Read
    <2>4. QED
      BY <2>2, <2>3 DEF ExportInv, Confirmed, Second, Read, E!Stored
  <1>3. QED
    BY <1>1, <1>2 DEF ExportInv

ExportPart == part = "export" => ExportInv

(* However people write, delete and push while an export reads page by page and item by   *)
(* item, what it publishes is what Gitea held at one instant between its passes, except     *)
(* for what was both made and deleted during the export, and it stays as published         *)
(* (export_snapshot, _rename_noreplace).                                             *)
THEOREM ExportsAreSound == MCSpec => []ExportsSound
  <1>1. MCInit => ExportPart
    BY ExportStarts DEF MCInit, ExportPart
  <1>2. ExportPart /\ [MCNext]_allVars => ExportPart'
    <2> SUFFICES ASSUME ExportPart, [MCNext]_allVars, part' = "export" PROVE ExportInv'
      BY DEF ExportPart
    <2>1. part = "export" /\ [E!Next]_exportVars
      BY DEF MCNext, allVars, ExportPart
    <2>2. QED
      BY <2>1, ExportStep DEF ExportPart
  <1>3. ExportPart => ExportsSound
    BY ExportSafe DEF ExportPart, ExportsSound
  <1>4. QED
    BY <1>1, <1>2, <1>3, PTL DEF MCSpec
==============================================================================
