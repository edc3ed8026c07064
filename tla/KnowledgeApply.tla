----------------------------- MODULE KnowledgeApply -----------------------------
(***************************************************************************)
(* The offline command that applies a reviewed plan to a SQLite catalog and     *)
(* can undo it: services/knowledge_apply.py.                                 *)
(*                                                                         *)
(* An apply checks the plan against the database, copies the database to a      *)
(* protected backup with a receipt, and then does its work in one transaction   *)
(* under the write lock, which repeats every check and writes an audit record.  *)
(* A rollback prepares the backup, with a record of itself, beside the database *)
(* file and puts it in its place by one rename.                              *)
(*                                                                         *)
(* Between the steps of a command other processes write: the service, an        *)
(* administrator, another run of the command.  Digests are values.  A backup    *)
(* without a receipt serves nobody and is left out.                           *)
(***************************************************************************)
EXTENDS KnowledgePlanning

CONSTANTS Workers,    \* processes that run the command
          Offline,    \* TRUE: nobody else writes while a command runs
          MaxWrites,  \* bound: writes of others
          MaxPlans,   \* bound: plans reviewed
          MaxBackups  \* bound: backups

VARIABLES plans,    \* the plans that have been reviewed
          receipts, \* backups made, with their receipts: [id, plan, state]
          results,  \* what the runs have told the operator: [plan, receipt, post, database]
          at,       \* Workers -> where the run stands
          run,      \* Workers -> what it works with
          report,   \* Workers -> how its last run ended
          swapped,  \* history: runs that have put a database in place
          raced,    \* history: Workers -> what writes and other replacements have brought
                    \* into the database since the run's last look at it
          writes

vars == <<db, plans, receipts, results, at, run, report, swapped, raced, writes>>
disk == <<db, plans, receipts, writes>>

(* What the proofs about this module assume.                                   *)
ConstantsSound ==
    /\ IsFiniteSet(Refs) /\ None \notin Refs \cup Values \cup ObjectStates
    /\ MaxWrites \in Nat /\ MaxPlans \in Nat /\ MaxBackups \in Nat
    /\ \A m \in Manifests : m \subseteq Entries

Reports == {"none", "applied", "replayed", "restored", "failed", "failed after replacement"}

TypeOK ==
    /\ \A r \in Refs : db.objects[r] \in ObjectStates \cup {None}
    /\ db.relations \subseteq Relations
    /\ db.owner \in BOOLEAN
    /\ db.log \subseteq 1..MaxWrites
    /\ \A a \in db.applied : a.plan \in plans /\ a.receipt \in 1..MaxBackups
    /\ \A u \in db.undone : u \in 1..MaxBackups
    /\ \A r \in receipts : r.plan \in plans
    /\ at \in [Workers -> {"idle", "backup", "commit", "verify", "replay", "stage", "recheck", "replace", "readback"}]
    /\ report \in [Workers -> Reports]
    /\ swapped \subseteq Workers
    /\ raced \in [Workers -> SUBSET (1..MaxWrites)]
    /\ writes \in 0..MaxWrites

Nothing == [plan |-> None]

Init ==
    /\ \E objects \in [Refs -> {None} \cup [revision: {1}, value: Values]] :
          db = [objects |-> objects, relations |-> {}, owner |-> TRUE,
                log |-> {}, applied |-> {}, undone |-> {}, stamps |-> {}]
    /\ plans = {} /\ receipts = {} /\ results = {}
    /\ at = [w \in Workers |-> "idle"]
    /\ run = [w \in Workers |-> Nothing]
    /\ report = [w \in Workers |-> "none"]
    /\ swapped = {} /\ raced = [w \in Workers |-> {}] /\ writes = 0

Idle == \A w \in Workers : at[w] = "idle"

-----------------------------------------------------------------------------
(* The database.  The digest of a database leaves out the digests that its own  *)
(* audit records carry.                                                     *)
Digest(d) == [d EXCEPT !.stamps = {}]

Prior(d, p) == {a \in d.applied : a.plan = p}
Overlaps(p, q) == {e.id : e \in p.manifest} \cap {e.id : e \in q.manifest} # {}

PostState(d, p) ==
    [objects |-> [t \in Targets(p.manifest) |-> d.objects[t]],
     relations |-> AllDeclared(p.manifest) \cap d.relations]

(* The catalog is as the plan's snapshot says.                                *)
AsPlanned(d, p) == p = PlanFor(p.manifest, d)

(* _require_authorization: only a catalog owner makes new objects.  Whether the    *)
(* operator may write those that are there is not modelled: a run that is refused   *)
(* over them is one of those that fail.                                       *)
Refused(d, p) == ~d.owner /\ \E t \in Targets(p.manifest) : ~Present(p, t)

(* Seeded fault: only the same plan is looked for among the records.            *)
PriorOfPlanOnly(d, p) ==
    CASE Refused(d, p) -> "error"
      [] OTHER -> IF Prior(d, p) # {} THEN "replay" ELSE IF AsPlanned(d, p) THEN "go" ELSE "error"

(* _transaction_preflight: "replay", "go" or an error.                          *)
Preflight(d, p) ==
    CASE Refused(d, p) -> "error"
      [] \E a \in d.applied : a.plan # p /\ Overlaps(a.plan, p) -> "error"
      [] OTHER ->
          IF Prior(d, p) # {}
          THEN IF \A a \in Prior(d, p) :
                     a.post = PostState(d, p) /\ [receipt |-> a.receipt, digest |-> Digest(d)] \in d.stamps
               THEN "replay" ELSE "error"
          ELSE IF AsPlanned(d, p) THEN "go" ELSE "error"

(* The transaction's writes: the targets, then the relations not yet there,     *)
(* each of which touches its two ends.  The Owner grant that each new object    *)
(* gets (assign_initial_owner) is left out: see ObjectOwnership.              *)
Touches(k, r) == r \in {k[1], k[2]}

Written(d, p) ==
    LET new == UNION {NewRelations(p, t) : t \in Targets(p.manifest)}
        touched(r) == Cardinality({k \in new : Touches(k, r)})
        upserted(r) ==
            IF r \notin Targets(p.manifest) \/ TargetAction(p, r) = "unchanged" THEN d.objects[r]
            ELSE [revision |-> IF d.objects[r] = None THEN 1 ELSE d.objects[r].revision + 1,
                  value |-> CandidateValue(p, r)]
    IN  [d EXCEPT
            !.objects = [r \in Refs |->
                IF upserted(r) = None THEN None
                ELSE [upserted(r) EXCEPT !.revision = @ + touched(r)]],
            !.relations = @ \cup new]

(* A relation needs both its ends; what was changed must be what was planned.   *)
EndsExist(d) == \A k \in d.relations : d.objects[k[1]] # None /\ d.objects[k[2]] # None

(* Seeded fault: every object that is not as before counts as updated.          *)
NewCountsAsUpdated(d, e, p) ==
    LET changed == {t \in Targets(p.manifest) : e.objects[t] # d.objects[t]}
    IN  [new |-> Cardinality({t \in changed : d.objects[t] = None}),
         update |-> Cardinality(changed),
         relations |-> Cardinality(e.relations \ d.relations)]

Delta(d, e, p) ==
    LET fresh(t) == d.objects[t] = None /\ e.objects[t] # None
    IN  [new |-> Cardinality({t \in Targets(p.manifest) : fresh(t)}),
         update |-> Cardinality({t \in Targets(p.manifest) :
                        ~fresh(t) /\ e.objects[t].value # d.objects[t].value}),
         relations |-> Cardinality(e.relations \ d.relations)]

DeltasAsPlanned(d, p) == Delta(d, Written(d, p), p) = Expected(p)

(* The audit record names the plan, the receipt and the state reached; its      *)
(* database digest is entered last.                                          *)
Audited(d, p, receipt) ==
    LET recorded == [d EXCEPT !.applied = @ \cup {[plan |-> p, receipt |-> receipt, post |-> PostState(d, p)]}]
    IN  [recorded EXCEPT !.stamps = @ \cup {[receipt |-> receipt, digest |-> Digest(recorded)]}]

-----------------------------------------------------------------------------
(* Reviews and the writes of others.                                         *)
Review(m) ==
    LET p == PlanFor(m, db)
    IN  /\ ValidManifest(m) /\ ApplyReady(p)
        /\ Cardinality(plans) < MaxPlans
        /\ plans' = plans \cup {p}
        /\ UNCHANGED <<db, receipts, results, at, run, report, swapped, writes>>

OtherWrite(d) ==
    /\ writes < MaxWrites /\ (Offline => Idle)
    /\ writes' = writes + 1
    /\ db' = [d EXCEPT !.log = @ \cup {writes'}]
    /\ UNCHANGED <<plans, receipts, results, at, run, report, swapped>>

Edit(r) ==
    /\ db.objects[r] # None
    /\ OtherWrite([db EXCEPT !.objects[r].revision = @ + 1])

Demote == db.owner /\ OtherWrite([db EXCEPT !.owner = FALSE])

-----------------------------------------------------------------------------
(* A run ends by a report, or by a crash without one; what it had prepared       *)
(* beside the database is removed or stays unused.                            *)
End(w, said) ==
    /\ at' = [at EXCEPT ![w] = "idle"]
    /\ run' = [run EXCEPT ![w] = Nothing]
    /\ report' = [report EXCEPT ![w] = said]

GoOn(w, to) ==
    /\ at' = [at EXCEPT ![w] = to]
    /\ report' = [report EXCEPT ![w] = "none"]

Crash(w) ==
    /\ at[w] # "idle"
    /\ End(w, "none")
    /\ UNCHANGED <<disk, results, swapped>>

(* Anything that raises: before the transaction commits or the file is replaced *)
(* it leaves the database as it was.                                         *)
Fail(w) ==
    /\ at[w] \in {"backup", "commit", "replay", "stage", "recheck", "replace"}
    /\ End(w, "failed")
    /\ UNCHANGED <<disk, results, swapped>>

(* apply_knowledge up to the backup: the plan, and the read-only preflight.      *)
StartApply(w, p) ==
    /\ at[w] = "idle"
    /\ swapped' = swapped \ {w}
    /\ \/ /\ Materializes(p) /\ Preflight(db, p) \in {"go", "replay"}
          /\ GoOn(w, IF Preflight(db, p) = "go" THEN "backup" ELSE "replay")
          /\ run' = [run EXCEPT ![w] = [plan |-> p]]
       \/ /\ ~Materializes(p) \/ Preflight(db, p) = "error"
          /\ End(w, "failed")
    /\ UNCHANGED <<disk, results>>

(* _create_protected_backup.                                                 *)
Backup(w) ==
    /\ at[w] = "backup" /\ Cardinality(receipts) < MaxBackups
    /\ LET id == Cardinality(receipts) + 1
       IN  /\ receipts' = receipts \cup {[id |-> id, plan |-> run[w].plan, state |-> db]}
           /\ run' = [run EXCEPT ![w] = [plan |-> run[w].plan, receipt |-> id]]
    /\ GoOn(w, "commit")
    /\ UNCHANGED <<db, plans, results, swapped, writes>>

ReceiptOf(w) == CHOOSE r \in receipts : r.id = run[w].receipt

(* The transaction: the same database as was backed up, the preflight again,     *)
(* the writes, and the exact deltas.                                         *)
Commit(w) ==
    LET p == run[w].plan
        written == Written(db, p)
        done == Audited(written, p, run[w].receipt)
        sound == Preflight(db, p) = "go" /\ EndsExist(written) /\ DeltasAsPlanned(db, p)
    IN  /\ at[w] = "commit"
        /\ IF Digest(db) # Digest(ReceiptOf(w).state)
           THEN End(w, "failed") /\ UNCHANGED db
           ELSE \/ /\ Preflight(db, p) = "replay"
                   /\ GoOn(w, "replay") /\ UNCHANGED <<db, run>>
                \/ /\ sound
                   /\ db' = done
                   /\ run' = [run EXCEPT ![w] = [plan |-> p, receipt |-> run[w].receipt, digest |-> Digest(done)]]
                   /\ GoOn(w, "verify")
                \/ /\ ~sound /\ Preflight(db, p) # "replay"
                   /\ End(w, "failed") /\ UNCHANGED db
        /\ UNCHANGED <<plans, receipts, results, swapped, writes>>

Result(p, receipt, post, d) == [plan |-> p, receipt |-> receipt, post |-> post, database |-> Digest(d)]

(* The committed database is read once more before success is reported.         *)
Verify(w) ==
    /\ at[w] = "verify"
    /\ IF Digest(db) # run[w].digest
       THEN End(w, "failed") /\ UNCHANGED results
       ELSE /\ End(w, "applied")
            /\ results' = results \cup
                   {Result(run[w].plan, run[w].receipt, PostState(db, run[w].plan), db)}
    /\ UNCHANGED <<disk, swapped>>

(* _replay_result: the evidence of the record found, the digest of the database *)
(* of now.                                                                  *)
Replay(w) ==
    /\ at[w] = "replay"
    /\ \E a \in Prior(db, run[w].plan) :
          results' = results \cup {Result(run[w].plan, a.receipt, a.post, db)}
    /\ End(w, "replayed")
    /\ UNCHANGED <<disk, swapped>>

-----------------------------------------------------------------------------
(* rollback_knowledge with the digests q of a result and the receipt r: the      *)
(* receipt and its backup, the record of the apply, the whole database.        *)
RollbackPreflight(r, q) ==
    /\ r.plan = q.plan
    /\ db.owner
    /\ \E a \in db.applied :
          /\ Prior(db, q.plan) = {a}
          /\ a.post = q.post
          /\ [receipt |-> a.receipt, digest |-> q.database] \in db.stamps
    /\ Digest(db) = q.database

StartRollback(w, r, q) ==
    /\ at[w] = "idle"
    /\ swapped' = swapped \ {w}
    /\ \/ /\ RollbackPreflight(r, q)
          /\ GoOn(w, "stage")
          /\ run' = [run EXCEPT ![w] = [plan |-> q.plan, receipt |-> r.id, active |-> db]]
       \/ ~RollbackPreflight(r, q) /\ End(w, "failed")
    /\ UNCHANGED <<disk, results>>

(* The candidate: the backup with the record of this rollback, whose actor must  *)
(* be a catalog owner in the backup too.                                      *)
Candidate(w) == [ReceiptOf(w).state EXCEPT !.undone = @ \cup {run[w].receipt}]

Stage(w) ==
    /\ at[w] = "stage"
    /\ IF ReceiptOf(w).state.owner
       THEN GoOn(w, "recheck") /\ UNCHANGED run
       ELSE End(w, "failed")
    /\ UNCHANGED <<disk, results, swapped>>

(* Seeded fault: the file is not looked at again before the rename.             *)
NoSecondLook(w) == TRUE

(* _verify_active_restore_state: byte for byte the file that was looked at.      *)
ActiveUnchanged(w) == db = run[w].active

Recheck(w) ==
    /\ at[w] = "recheck"
    /\ IF ActiveUnchanged(w) THEN GoOn(w, "replace") /\ UNCHANGED run ELSE End(w, "failed")
    /\ UNCHANGED <<disk, results, swapped>>

(* The rename; an exception after it is told apart by the candidate's absence.   *)
Replace(w) ==
    /\ at[w] = "replace"
    /\ db' = Candidate(w)
    /\ swapped' = swapped \cup {w}
    /\ \/ GoOn(w, "readback") /\ UNCHANGED run
       \/ End(w, "failed after replacement")
    /\ UNCHANGED <<plans, receipts, results, writes>>

ReadBack(w) ==
    /\ at[w] = "readback"
    /\ End(w, IF Digest(db) = Digest(Candidate(w)) THEN "restored" ELSE "failed after replacement")
    /\ UNCHANGED <<disk, results, swapped>>

(* What follows the rename raises as well.                                    *)
FailAfterReplacement(w) ==
    /\ at[w] = "readback"
    /\ End(w, "failed after replacement")
    /\ UNCHANGED <<disk, results, swapped>>

-----------------------------------------------------------------------------
Step(w) ==
    \/ \E p \in plans : StartApply(w, p)
    \/ Backup(w) \/ Commit(w) \/ Verify(w) \/ Replay(w)
    \/ \E r \in receipts, q \in results : StartRollback(w, r, q)
    \/ Stage(w) \/ Recheck(w) \/ Replace(w) \/ ReadBack(w)
    \/ Crash(w) \/ Fail(w) \/ FailAfterReplacement(w)

(* A run that has looked at the database for the last time has not seen what comes *)
(* into it now.                                                             *)
Unseen ==
    raced' = [w \in Workers |->
        IF at[w] = "replace" /\ at'[w] = "replace" THEN raced[w] \cup (db'.log \ db.log) ELSE {}]

Next ==
    /\ \/ \E m \in Manifests : Review(m)
       \/ \E r \in Refs : Edit(r)
       \/ Demote
       \/ \E w \in Workers : Step(w)
    /\ Unseen

Spec == Init /\ [][Next]_vars

-----------------------------------------------------------------------------
Replaces(w) == at[w] = "replace" /\ w \in swapped' /\ (at'[w] = "readback" \/ report'[w] = "failed after replacement")

(* The receipt handed to the rollback is the one that its apply returned.        *)
Paired(w) == [receipt |-> run[w].receipt, plan |-> run[w].plan] \in
    {[receipt |-> a.receipt, plan |-> a.plan] : a \in run[w].active.applied}

(* A rollback with the receipt of its apply takes back that apply, leaves its    *)
(* record in the database that it puts in place, and loses no write of anybody  *)
(* else, but for those of the moment between its last look and the rename       *)
(* (rollback_knowledge, knowledge_apply.py:360).                              *)
RollbackUndoesItsApplyOnly ==
    \A w \in Workers :
        Replaces(w) =>
            /\ run[w].receipt \in db'.undone
            /\ Paired(w) => /\ Prior(db', run[w].plan) = {}
                            /\ db.log \ db'.log \subseteq raced[w]

(* No source entry is applied by two plans or twice by one, whatever runs of the *)
(* command overlap (_prior_apply_details, knowledge_apply.py:721).             *)
EntriesAppliedOnce ==
    \A a, b \in db.applied : a # b => ~Overlaps(a.plan, b.plan)

(* The report says whether the database file has been replaced: an operator who  *)
(* reads "failed" still has the database that was there.                        *)
ReportsTellReplacement ==
    \A w \in Workers :
        /\ at[w] = "idle" /\ report[w] \in {"failed", "applied", "replayed"} => w \notin swapped
        /\ report[w] \in {"restored", "failed after replacement"} /\ at[w] = "idle" => w \in swapped

(* The transaction reaches the deltas that the planner announced, unless one      *)
(* relation is declared by the entries of both its ends: _resolve_targets counts *)
(* it twice, the apply writes it once and refuses.                             *)
RefusedForDoubleCountsOnly ==
    \A w \in Workers :
        at[w] = "commit" /\ AsPlanned(db, run[w].plan) /\ ~DeltasAsPlanned(db, run[w].plan) =>
            \E t, u \in Targets(run[w].plan.manifest) :
                t # u /\ NewRelations(run[w].plan, t) \cap NewRelations(run[w].plan, u) # {}

(* What the manual says of every rollback that succeeds: any intervening catalog *)
(* or audit change prevents it (docs/knowledge-apply.md:76).                    *)
InterveningChangePrevents ==
    [][\A w \in Workers : Replaces(w) => db.log \ db'.log \subseteq raced[w]]_vars
=============================================================================
