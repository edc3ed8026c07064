------------------------- MODULE OwnerCoverageLocking -------------------------
(***************************************************************************)
(* Owner-coverage decisions as transactions that overlap: which reads, row  *)
(* locks and writes the commands of ObjectOwnership are made of, on both     *)
(* databases (services/access.py, identity.py, principal_management.py,     *)
(* grant_management.py, commands.py and db/session.py).                     *)
(*                                                                         *)
(* PostgreSQL runs at READ COMMITTED: every statement sees what is committed *)
(* when it starts, SELECT ... FOR UPDATE locks the rows it found one by one  *)
(* in ID order, and locks are held to the end of the transaction; so is the   *)
(* lock of the object row whose revision a grant command claims.  SQLite     *)
(* ignores FOR UPDATE, and the driver begins a transaction at the first      *)
(* INSERT, UPDATE or DELETE: statements before it read and let go, and one   *)
(* writer at a time goes on from there.                                     *)
(*                                                                         *)
(* Grants are Owner/self grants; of the lock statements only the one for     *)
(* principal rows is modelled.  The grant and placement rows that the code   *)
(* locks after them can only add waiting.                                   *)
(***************************************************************************)
EXTENDS Naturals, FiniteSets

CONSTANTS Principals,  \* principal IDs: numbers, in ID order
          Objects,
          Workers,     \* request threads and CLI processes; each runs one job
          Dialects,    \* the databases in use
          Nobody

ASSUME PrincipalsAssumption == Principals \subseteq Nat
ASSUME RowsAssumption == Principals \cap Objects = {}
ASSUME NobodyAssumption == Nobody \notin Objects \cup Workers
ASSUME DialectsAssumption == Dialects \subseteq {"sqlite", "postgresql"}

VARIABLES active,        \* committed: the active principals
          catalogOwners, \* committed: the holders of the catalog_owner role
          owners,        \* committed: the Owner grants, <<principal, object>>
          dialect,       \* the database of this installation
          job,           \* Workers -> what the worker has to do, or Nobody when it is done
          step,          \* Workers -> where it is
          round,         \* Workers -> lock statements still to run
          want,          \* Workers -> rows its lock statement has still to lock
          lockedBy,      \* principal and object rows -> the worker that has locked it, or Nobody
          stale,         \* workers whose object has another revision than they compared
          writer         \* SQLite: the worker that holds the write lock, or Nobody

committed == <<active, catalogOwners, owners>>

fixed == <<dialect, job>>

vars == <<active, catalogOwners, owners, dialect, job, step, round, want, lockedBy, stale, writer>>

Jobs ==
    [kind: {"deactivate", "promote", "demote"}, principal: Principals, object: {Nobody}]
    \cup [kind: {"revoke", "grant"}, principal: Principals, object: Objects]

Steps == {"lock", "acquire", "guard", "check", "write", "verify", "commit", "done"}

TypeOK ==
    /\ active \subseteq Principals
    /\ catalogOwners \subseteq Principals
    /\ owners \subseteq Principals \X Objects
    /\ dialect \in Dialects
    /\ job \in [Workers -> Jobs \cup {Nobody}]
    /\ step \in [Workers -> Steps]
    /\ round \in [Workers -> 0..4]
    /\ want \in [Workers -> SUBSET Principals]
    /\ lockedBy \in [Principals \cup Objects -> Workers \cup {Nobody}]
    /\ stale \subseteq Workers
    /\ writer \in Workers \cup {Nobody}

Covered(o, act, own) == \E p \in act : <<p, o>> \in own

OwnedBy(act, own) == \A o \in Objects : Covered(o, act, own)

ActiveCatalogOwners == active \cap catalogOwners

(* The lock statements of a job before it decides.  A deactivation runs      *)
(* lock_owner_coverage_state on entry and in each guard that it calls, and    *)
(* like a demotion it locks the catalog owners once more as it counts them.  *)
LockRounds(j) ==
    CASE j.kind = "deactivate" -> 4
      [] j.kind = "demote" -> 2
      [] OTHER -> 1

CatalogOwnersOnly(w) ==
    <<job[w].kind, round[w]>> \in {<<"deactivate", 2>>, <<"demote", 1>>}

(* Lock statements that lock nothing are no steps.                          *)
FirstStep(j) ==
    IF dialect = "postgresql" THEN "lock" ELSE IF j.kind = "deactivate" THEN "guard" ELSE "check"

(* Jobs of any kind meet, on one target as well.                             *)
Init ==
    /\ active = Principals
    /\ catalogOwners \in (SUBSET Principals) \ {{}}
    /\ owners \in SUBSET (Principals \X Objects)
    /\ OwnedBy(active, owners)
    /\ dialect \in Dialects
    /\ job \in [Workers -> Jobs]
    /\ step = [w \in Workers |-> FirstStep(job[w])]
    /\ round = [w \in Workers |-> LockRounds(job[w])]
    /\ want = [w \in Workers |-> {}]
    /\ lockedBy = [r \in Principals \cup Objects |-> Nobody]
    /\ stale = {}
    /\ writer = Nobody

-----------------------------------------------------------------------------
(* Locks.                                                                   *)

(* Seeded fault: only the rows that the job names are locked.               *)
NamedRows(w) == {job[w].principal}

(* lock_principal_rows: the rows the job names, every active catalog owner   *)
(* and every principal with an Owner grant; active_catalog_owner_ids.        *)
RowsToLock(w) ==
    ActiveCatalogOwners \cup
    IF CatalogOwnersOnly(w) THEN {}
    ELSE {job[w].principal} \cup {p \in Principals : \E o \in Objects : <<p, o>> \in owners}

(* A lock statement begins: it fixes the rows it will lock, one at least.    *)
BeginLock(w) ==
    /\ step[w] = "lock"
    /\ want' = [want EXCEPT ![w] = RowsToLock(w)]
    /\ step' = [step EXCEPT ![w] = "acquire"]
    /\ round' = [round EXCEPT ![w] = @ - 1]
    /\ UNCHANGED <<committed, fixed, lockedBy, stale, writer>>

NextRow(w) == CHOOSE p \in want[w] : \A q \in want[w] : p <= q

(* The revision of the job's object is claimed, its row locked.              *)
Claimed(w) == job[w].object # Nobody /\ lockedBy[job[w].object] = w

(* Seeded fault: one lock statement too many.                                *)
LockedLate(w) == IF round[w] >= 0 THEN "lock" ELSE "check"

(* Where a job is when it has locked its rows.                               *)
Locked(w) ==
    CASE <<job[w].kind, round[w]>> = <<"deactivate", 1>> -> "guard"
      [] Claimed(w) -> "verify"
      [] OTHER -> IF round[w] > 0 THEN "lock" ELSE "check"

Acquire(w) ==
    /\ step[w] = "acquire"
    /\ lockedBy[NextRow(w)] \in {Nobody, w}
    /\ lockedBy' = [lockedBy EXCEPT ![NextRow(w)] = w]
    /\ want' = [want EXCEPT ![w] = @ \ {NextRow(w)}]
    /\ step' = [step EXCEPT ![w] = IF want'[w] = {} THEN Locked(w) ELSE "acquire"]
    /\ UNCHANGED <<committed, fixed, round, stale, writer>>

Done(w) ==
    /\ step' = [step EXCEPT ![w] = "done"]
    /\ job' = [job EXCEPT ![w] = Nobody]
    /\ want' = [want EXCEPT ![w] = {}]
    /\ round' = [round EXCEPT ![w] = 0]
    /\ UNCHANGED dialect

(* Seeded fault: the connection goes back to its pool within a transaction.  *)
ReleaseNothing(w) ==
    /\ Done(w)
    /\ UNCHANGED <<lockedBy, writer>>

(* Every exit: commit and rollback both release all locks.                   *)
Release(w) ==
    /\ Done(w)
    /\ lockedBy' = [r \in DOMAIN lockedBy |-> IF lockedBy[r] = w THEN Nobody ELSE lockedBy[r]]
    /\ writer' = IF writer = w THEN Nobody ELSE writer

Rollback(w) == Release(w) /\ stale' = stale \ {w} /\ UNCHANGED committed

(* The row that a statement has to lock next.                               *)
BlockedOn(w) ==
    {r \in DOMAIN lockedBy :
        /\ dialect = "postgresql"
        /\ \/ step[w] = "acquire" /\ r = NextRow(w)
           \/ step[w] = "write" /\ r = job[w].object}

WaitsFor(w) == {lockedBy[r] : r \in BlockedOn(w)} \ {w, Nobody}

(* The workers that w waits for, directly or through others.                 *)
Waiting(w) ==
    LET after[n \in 0..Cardinality(Workers)] ==
            IF n = 0 THEN {w} ELSE UNION {WaitsFor(v) : v \in after[n - 1]}
    IN  UNION {after[n] : n \in 1..Cardinality(Workers)}

(* PostgreSQL cancels one transaction of a cycle of waiting ones.            *)
CancelDeadlocked(w) ==
    /\ w \in Waiting(w)
    /\ Rollback(w)

-----------------------------------------------------------------------------
(* Reads, writes and commits.                                               *)

(* What p's Owner grants reach has another active Owner.                     *)
CoveredWithout(p) ==
    \A o \in Objects : <<p, o>> \in owners => Covered(o, active \ {p}, owners)

(* Seeded fault: deactivated holders of the role still count.                *)
OtherHolder(p) == p \in catalogOwners => catalogOwners # {p}

(* ensure_active_catalog_owner_remains                                      *)
OtherCatalogOwner(p) == p \in ActiveCatalogOwners => ActiveCatalogOwners # {p}

(* ensure_active_catalog_owner_remains, before a deactivation goes on to      *)
(* look at Owner coverage.                                                  *)
Guard(w) ==
    /\ step[w] = "guard"
    /\ \/ /\ job[w].principal \in active
          /\ OtherCatalogOwner(job[w].principal)
          /\ step' = [step EXCEPT ![w] = IF dialect = "postgresql" THEN "lock" ELSE "check"]
          /\ UNCHANGED <<committed, fixed, round, want, lockedBy, stale, writer>>
       \/ /\ ~(job[w].principal \in active /\ OtherCatalogOwner(job[w].principal))
          /\ Rollback(w)

(* What a job reads before its first write.                                 *)
MayGoOn(w) ==
    LET p == job[w].principal
        g == <<p, job[w].object>>
    IN  CASE job[w].kind = "deactivate" -> CoveredWithout(p)
          [] job[w].kind = "promote" -> p \in active /\ p \notin catalogOwners
          [] job[w].kind = "demote" -> p \in catalogOwners /\ OtherCatalogOwner(p)
          [] job[w].kind = "revoke" -> g \in owners
          [] job[w].kind = "grant"  -> p \in active /\ g \notin owners

Check(w) ==
    /\ step[w] = "check"
    /\ \/ /\ MayGoOn(w)
          /\ step' = [step EXCEPT ![w] = "write"]
          /\ UNCHANGED <<committed, fixed, round, want, lockedBy, stale, writer>>
       \/ ~MayGoOn(w) /\ Rollback(w)

(* Seeded fault: the database lets the last catalog owner go.               *)
NoTrigger(w) == TRUE

(* The guard triggers of SQLite look at the row and the other rows when the  *)
(* UPDATE runs, inside the transaction that holds the write lock.            *)
TriggerAllows(w) ==
    dialect = "sqlite" /\ job[w].kind \in {"deactivate", "demote"}
        => OtherCatalogOwner(job[w].principal)

(* The first write takes SQLite's write lock, and on PostgreSQL the lock of   *)
(* the row that it updates, or waits for it.  Grants and revocations claim    *)
(* the object's revision there and give up when it is not what they compared. *)
Write(w) ==
    /\ step[w] = "write"
    /\ WaitsFor(w) = {} /\ (dialect = "sqlite" => writer = Nobody)
    /\ \/ /\ TriggerAllows(w)
          /\ w \notin stale
          /\ step' = [step EXCEPT ![w] = IF job[w].kind # "revoke" THEN "commit"
                                        ELSE IF dialect = "postgresql" THEN "lock" ELSE "verify"]
          /\ round' = [round EXCEPT ![w] = IF step'[w] = "lock" THEN 1 ELSE 0]
          /\ lockedBy' = [r \in DOMAIN lockedBy |-> IF r \in BlockedOn(w) THEN w ELSE lockedBy[r]]
          /\ writer' = IF dialect = "sqlite" THEN w ELSE writer
          /\ UNCHANGED <<committed, fixed, want, stale>>
       \/ (~TriggerAllows(w) \/ w \in stale) /\ Rollback(w)

(* Revocations compare what the grant reached after the deletion, in their   *)
(* transaction; the grant of an inactive principal reached nothing.          *)
StaysCovered(w) ==
    job[w].principal \in active =>
        Covered(job[w].object, active, owners \ {<<job[w].principal, job[w].object>>})

Verify(w) ==
    /\ step[w] = "verify"
    /\ \/ /\ StaysCovered(w)
          /\ step' = [step EXCEPT ![w] = "commit"]
          /\ UNCHANGED <<committed, fixed, round, want, lockedBy, stale, writer>>
       \/ ~StaysCovered(w) /\ Rollback(w)

Commit(w) ==
    LET p == job[w].principal
        g == <<p, job[w].object>>
    IN  /\ step[w] = "commit"
        /\ Release(w)
        /\ stale' = stale \cup {v \in Workers : /\ step[v] = "write"
                                              /\ job[v].object \in Objects \cap {job[w].object}}
        /\ active' = IF job[w].kind = "deactivate" THEN active \ {p} ELSE active
        /\ catalogOwners' = CASE job[w].kind = "demote" -> catalogOwners \ {p}
                              [] job[w].kind = "promote" -> catalogOwners \cup {p}
                              [] OTHER -> catalogOwners
        /\ owners' = CASE job[w].kind = "revoke" -> owners \ {g}
                       [] job[w].kind = "grant" -> owners \cup {g}
                       [] OTHER -> owners

Step(w) ==
    \/ BeginLock(w)
    \/ Acquire(w)
    \/ CancelDeadlocked(w)
    \/ Guard(w)
    \/ Check(w)
    \/ Write(w)
    \/ Verify(w)
    \/ Commit(w)

Next == \E w \in Workers : Step(w)

(* Threads run, the database serves waiting statements, deadlocks are found. *)
Spec == Init /\ [][Next]_vars /\ \A w \in Workers : WF_vars(Step(w))

-----------------------------------------------------------------------------
(* Whatever overlaps, every object keeps an active Owner: the promise of     *)
(* lock_owner_coverage_state.  Kept on PostgreSQL, broken on SQLite, where   *)
(* deactivations decide before they hold the write lock.                    *)
EveryObjectOwned == OwnedBy(active, owners)

(* The same where row locks exist.                                          *)
LocksKeepCoverage == dialect = "postgresql" => EveryObjectOwned

(* The last active catalog owner stays, by row locks or by trigger.          *)
CatalogOwnerKept == ActiveCatalogOwners # {}

(* Every job comes to an end.                                               *)
JobsEnd == <>(\A w \in Workers : step[w] = "done")
=============================================================================
