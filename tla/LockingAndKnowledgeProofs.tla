----------------------- MODULE LockingAndKnowledgeProofs -----------------------
(***************************************************************************)
(* Machine-checked facts about the components that MCLockingAndKnowledge hosts,   *)
(* for every value of their constants.                                        *)
(*                                                                         *)
(* OwnerCoverageLocking: row locks keep every object owned on PostgreSQL, and an  *)
(* active catalog owner remains on both databases.  Locks alone would not do: a   *)
(* lock statement locks the rows that it finds when it starts, and a grant or a    *)
(* promotion that commits while it waits adds rows that it never locks.  What      *)
(* makes the decisions safe is that a job already holds its own principal's row     *)
(* when its last statement before a decision starts.  Nobody then makes that       *)
(* principal an Owner or a catalog owner any more, so of two jobs that both matter   *)
(* for a decision the later statement finds the row of the other job and waits     *)
(* for it.                                                                   *)
(*                                                                         *)
(* KnowledgeApply: every record of an apply names its plan and a receipt, and the  *)
(* backup of that receipt is from before the plan and has exactly the writes of     *)
(* others that the digest in the record saw.  A rollback that is paired with its    *)
(* apply therefore puts back a file without the plan and with everything that the   *)
(* database had when it was last looked at.                                     *)
(*                                                                         *)
(* SourceCoverage: a listing has shown of its view what comes up to its cursor, for  *)
(* as long as the cursor is bound to that view; what a manifest leaves present is   *)
(* what was reviewed, so that the blockers decide what the resolver will say.      *)
(***************************************************************************)
EXTENDS MCLockingAndKnowledge, FiniteSetTheorems, WellFoundedInduction, TLAPS

Postgresql == dialect = "postgresql"

Busy(w) == step[w] # "done"

Row(w) == job[w].principal

Grant(w) == <<Row(w), job[w].object>>

OwnerHolders == {p \in Principals : \E o \in Objects : <<p, o>> \in owners}

(* How steps, lock rounds and claims go together.                           *)
ProgressOf(w) ==
    /\ Busy(w) => job[w] \in Jobs
    /\ step[w] = "acquire" <=> want[w] # {}
    /\ step[w] \in {"lock", "acquire"} => Postgresql
    /\ step[w] = "guard" => job[w].kind = "deactivate" /\ (Postgresql => round[w] = 1)
    /\ step[w] = "verify" => job[w].kind = "revoke"
    /\ step[w] = "lock" => round[w] \in 1..LockRounds(job[w])
    /\ step[w] = "acquire" => round[w] \in 0..LockRounds(job[w]) - 1
    /\ Postgresql /\ step[w] \in {"check", "write", "verify", "commit"} => round[w] = 0
    /\ Busy(w) /\ Claimed(w) =>
           /\ step[w] \in {"lock", "acquire", "verify", "commit"}
           /\ step[w] # "commit" => job[w].kind = "revoke"
    /\ Postgresql /\ step[w] \in {"verify", "commit"} /\ job[w].kind = "revoke" => Claimed(w)
    /\ dialect = "sqlite" /\ step[w] \in {"verify", "commit"} => writer = w

Progress == \A w \in Workers : ProgressOf(w)

(* A job holds its own principal's row from its first lock statement on.     *)
HoldsOwnRow ==
    Postgresql =>
        \A w \in Workers :
            Busy(w) => \/ lockedBy[Row(w)] = w
                       \/ /\ ~Claimed(w)
                          /\ step[w] = "lock"
                          /\ round[w] = LockRounds(job[w])
                       \/ /\ ~Claimed(w)
                          /\ step[w] = "acquire"
                          /\ round[w] = LockRounds(job[w]) - 1
                          /\ Row(w) \in want[w]

-----------------------------------------------------------------------------
(* The last catalog owner.                                                  *)

(* The statement that locks the catalog owners to be counted has started.    *)
CountsOwners(w) ==
    /\ Busy(w)
    /\ <<job[w].kind, round[w]>> \in {<<"deactivate", 1>>, <<"deactivate", 0>>, <<"demote", 0>>}

AwaitsCatalogOwner(w, v) ==
    /\ <<job[w].kind, round[w]>> \in {<<"deactivate", 1>>, <<"demote", 0>>}
    /\ Row(v) \in want[w]

CountsExclude ==
    Postgresql =>
        \A v, w \in Workers :
            /\ v # w
            /\ CountsOwners(v) /\ CountsOwners(w)
            /\ Row(v) \in ActiveCatalogOwners /\ Row(w) \in ActiveCatalogOwners
            => AwaitsCatalogOwner(v, w) \/ AwaitsCatalogOwner(w, v)

(* Has found another catalog owner, and acts on it.                          *)
Counted(w) ==
    \/ /\ dialect = "sqlite"
       /\ step[w] = "commit"
       /\ job[w].kind \in {"deactivate", "demote"}
    \/ /\ Postgresql
       /\ \/ step[w] = "lock" /\ <<job[w].kind, round[w]>> = <<"deactivate", 1>>
          \/ step[w] = "acquire" /\ <<job[w].kind, round[w]>> = <<"deactivate", 0>>
          \/ step[w] = "check" /\ job[w].kind = "deactivate"
          \/ step[w] \in {"write", "commit"} /\ job[w].kind \in {"deactivate", "demote"}

CountsHold == \A w \in Workers : Counted(w) => OtherCatalogOwner(Row(w))

-----------------------------------------------------------------------------
(* Owner coverage.                                                          *)

(* The statement that locks the Owners to be compared has started.           *)
ComparesOwners(w) ==
    \/ Busy(w) /\ <<job[w].kind, round[w]>> = <<"deactivate", 0>>
    \/ /\ step[w] \in {"acquire", "verify", "commit"}
       /\ job[w].kind = "revoke"
       /\ Claimed(w)

ComparisonsExclude ==
    Postgresql =>
        \A v, w \in Workers :
            /\ v # w
            /\ ComparesOwners(v) /\ ComparesOwners(w)
            /\ Row(v) \in OwnerHolders /\ Row(w) \in OwnerHolders
            => Row(v) \in want[w] \/ Row(w) \in want[v]

(* Has found every object owned without its own principal or grant.          *)
ComparisonsHold ==
    Postgresql =>
        \A w \in Workers :
            /\ /\ step[w] \in {"write", "commit"}
               /\ job[w].kind = "deactivate"
               => CoveredWithout(Row(w))
            /\ /\ step[w] = "commit"
               /\ job[w].kind = "revoke"
               => StaysCovered(w)

IInv ==
    /\ TypeOK
    /\ Progress
    /\ HoldsOwnRow
    /\ CountsExclude
    /\ CountsHold
    /\ CatalogOwnerKept
    /\ ComparisonsExclude
    /\ ComparisonsHold
    /\ LocksKeepCoverage

-----------------------------------------------------------------------------
(* Types.                                                                   *)

Rows == Principals \cup Objects

LEMMA JobTypes ==
    ASSUME NEW j \in Jobs
    PROVE  /\ j.principal \in Principals
           /\ j.kind \in {"deactivate", "promote", "demote", "revoke", "grant"}
           /\ j.kind \in {"revoke", "grant"} => j.object \in Objects
           /\ j.kind \notin {"revoke", "grant"} => j.object = Nobody
           /\ LockRounds(j) \in {1, 2, 4}
           /\ j.kind = "deactivate" => LockRounds(j) = 4
           /\ j.kind = "demote" => LockRounds(j) = 2
           /\ j.kind \notin {"deactivate", "demote"} => LockRounds(j) = 1
  BY DEF Jobs, LockRounds

LEMMA TwoDialects == ASSUME TypeOK PROVE dialect \in {"sqlite", "postgresql"}
  BY DialectsAssumption DEF TypeOK

(* A set of principals has a lowest ID.                                      *)
LEMMA NextRowWanted ==
    ASSUME TypeOK, NEW w \in Workers, want[w] # {}
    PROVE  NextRow(w) \in want[w] /\ NextRow(w) \in Principals
  <1>1. want[w] \subseteq Nat /\ want[w] \subseteq Principals
    BY PrincipalsAssumption DEF TypeOK
  <1>2. PICK p \in want[w] : \A q \in want[w] : ~(<<q, p>> \in OpToRel(<, Nat))
    BY <1>1, NatLessThanWellFounded, WFMin, Zenon
  <1>3. \A q \in want[w] : ~(q < p)
    BY <1>1, <1>2 DEF OpToRel
  <1>4. \A q \in want[w] : p <= q
    BY <1>1, <1>3
  <1>5. QED
    BY <1>1, <1>4 DEF NextRow

LEMMA DoneTypes ==
    ASSUME TypeOK, NEW w \in Workers, Release(w)
    PROVE  /\ dialect' \in Dialects
           /\ job' \in [Workers -> Jobs \cup {Nobody}]
           /\ step' \in [Workers -> Steps]
           /\ round' \in [Workers -> 0..4]
           /\ want' \in [Workers -> SUBSET Principals]
           /\ lockedBy' \in [Rows -> Workers \cup {Nobody}]
           /\ writer' \in Workers \cup {Nobody}
  BY DEF TypeOK, Release, Done, Steps, Rows

LEMMA RollbackTypes == ASSUME TypeOK, NEW w \in Workers, Rollback(w) PROVE TypeOK'
  BY DoneTypes DEF Rollback, TypeOK, committed, Rows

LEMMA RowsToLockTypes ==
    ASSUME TypeOK, NEW w \in Workers, job[w] \in Jobs
    PROVE  RowsToLock(w) \subseteq Principals
  BY JobTypes DEF RowsToLock, ActiveCatalogOwners, TypeOK

LEMMA TypeStep == ASSUME TypeOK, Progress, [Next]_vars PROVE TypeOK'
  <1>1. CASE UNCHANGED vars
    BY <1>1 DEF TypeOK, vars
  <1> SUFFICES ASSUME NEW w \in Workers, Step(w) PROVE TypeOK'
    BY <1>1 DEF Next
  <1> USE DEF committed, fixed
  <1>2. CASE BeginLock(w)
    <2>1. job[w] \in Jobs
      BY <1>2 DEF Progress, ProgressOf, Busy, BeginLock
    <2>2. round[w] - 1 \in 0..4
      BY <1>2, <2>1, JobTypes DEF Progress, ProgressOf, BeginLock, TypeOK
    <2>3. QED
      BY <1>2, <2>1, <2>2, RowsToLockTypes DEF BeginLock, TypeOK, Steps
  <1>3. CASE Acquire(w)
    <2>1. NextRow(w) \in Principals
      BY <1>3, NextRowWanted DEF Progress, ProgressOf, Acquire
    <2>2. Locked(w) \in Steps
      BY DEF Locked, Steps
    <2>3. QED
      BY <1>3, <2>1, <2>2 DEF Acquire, TypeOK, Steps
  <1>4. CASE CancelDeadlocked(w)
    BY <1>4, RollbackTypes DEF CancelDeadlocked
  <1>5. CASE Guard(w)
    BY <1>5, RollbackTypes DEF Guard, TypeOK, Steps
  <1>6. CASE Check(w)
    BY <1>6, RollbackTypes DEF Check, TypeOK, Steps
  <1>7. CASE Write(w)
    BY <1>7, RollbackTypes DEF Write, TypeOK, Steps
  <1>8. CASE Verify(w)
    BY <1>8, RollbackTypes DEF Verify, TypeOK, Steps
  <1>9. CASE Commit(w)
    <2>1. job[w] \in Jobs
      BY <1>9 DEF Progress, ProgressOf, Busy, Commit
    <2>2. job[w].kind = "grant" => <<job[w].principal, job[w].object>> \in Principals \X Objects
      BY <2>1, JobTypes
    <2>3. active' \subseteq Principals /\ catalogOwners' \subseteq Principals
      BY <1>9, <2>1, JobTypes DEF Commit, TypeOK
    <2>4. owners' \subseteq Principals \X Objects
      BY <1>9, <2>2 DEF Commit, TypeOK
    <2>5. stale' \subseteq Workers
      BY <1>9 DEF Commit, TypeOK
    <2>6. Release(w)
      BY <1>9 DEF Commit
    <2>7. QED
      BY <2>3, <2>4, <2>5, <2>6, DoneTypes DEF TypeOK, Rows
  <1>10. QED
    BY <1>2, <1>3, <1>4, <1>5, <1>6, <1>7, <1>8, <1>9 DEF Step

-----------------------------------------------------------------------------
(* What a step of one worker leaves to the others.                           *)

LEMMA OthersUnchanged ==
    ASSUME TypeOK, NEW w \in Workers, Step(w), NEW v \in Workers, v # w
    PROVE  /\ step'[v] = step[v] /\ job'[v] = job[v]
           /\ round'[v] = round[v] /\ want'[v] = want[v]
  <1> USE DEF TypeOK, fixed
  <1>1. Release(w) => /\ step'[v] = step[v] /\ job'[v] = job[v]
                      /\ round'[v] = round[v] /\ want'[v] = want[v]
    BY DEF Release, Done
  <1>2. CASE BeginLock(w)
    BY <1>2 DEF BeginLock
  <1>3. CASE Acquire(w)
    BY <1>3 DEF Acquire
  <1>4. CASE CancelDeadlocked(w)
    BY <1>1, <1>4 DEF CancelDeadlocked, Rollback
  <1>5. CASE Guard(w)
    BY <1>1, <1>5 DEF Guard, Rollback
  <1>6. CASE Check(w)
    BY <1>1, <1>6 DEF Check, Rollback
  <1>7. CASE Write(w)
    BY <1>1, <1>7 DEF Write, Rollback
  <1>8. CASE Verify(w)
    BY <1>1, <1>8 DEF Verify, Rollback
  <1>9. CASE Commit(w)
    BY <1>1, <1>9 DEF Commit
  <1>10. QED
    BY <1>2, <1>3, <1>4, <1>5, <1>6, <1>7, <1>8, <1>9 DEF Step

(* Nobody locks a row that another holds, or lets it go.                     *)
LEMMA LocksRespected ==
    ASSUME TypeOK, Progress, NEW w \in Workers, Step(w),
           NEW v \in Workers, v # w, NEW r \in Rows
    PROVE  lockedBy'[r] = v <=> lockedBy[r] = v
  <1> USE NobodyAssumption DEF TypeOK, Rows
  <1>1. Release(w) => (lockedBy'[r] = v <=> lockedBy[r] = v)
    BY DEF Release
  <1>2. CASE BeginLock(w)
    BY <1>2 DEF BeginLock
  <1>3. CASE Acquire(w)
    <2>1. NextRow(w) \in Principals
      BY <1>3, NextRowWanted DEF Progress, ProgressOf, Acquire
    <2>2. QED
      BY <1>3, <2>1 DEF Acquire
  <1>4. CASE CancelDeadlocked(w)
    BY <1>1, <1>4 DEF CancelDeadlocked, Rollback
  <1>5. CASE Guard(w)
    BY <1>1, <1>5 DEF Guard, Rollback
  <1>6. CASE Check(w)
    BY <1>1, <1>6 DEF Check, Rollback
  <1>7. CASE Write(w)
    <2>1. r \in BlockedOn(w) => lockedBy[r] \in {w, Nobody}
      BY <1>7 DEF Write, WaitsFor
    <2>2. QED
      BY <1>1, <1>7, <2>1 DEF Write, Rollback
  <1>8. CASE Verify(w)
    BY <1>1, <1>8 DEF Verify, Rollback
  <1>9. CASE Commit(w)
    BY <1>1, <1>9 DEF Commit
  <1>10. QED
    BY <1>2, <1>3, <1>4, <1>5, <1>6, <1>7, <1>8, <1>9 DEF Step

LEMMA DialectFixed ==
    ASSUME NEW w \in Workers, Step(w)
    PROVE  dialect' = dialect
  BY DEF Step, BeginLock, Acquire, CancelDeadlocked, Guard, Check, Write, Verify, Commit,
         Rollback, Release, Done, fixed

(* Only commits change what others can read.                                 *)
LEMMA CommitsChange ==
    ASSUME NEW w \in Workers, Step(w)
    PROVE  Commit(w) \/ UNCHANGED committed
  BY DEF Step, BeginLock, Acquire, CancelDeadlocked, Guard, Check, Write, Verify, Rollback

(* The steps of a worker, one by one.                                        *)
LEMMA OwnSteps ==
    ASSUME TypeOK, Progress, NEW w \in Workers, Step(w)
    PROVE  \/ Release(w) /\ step'[w] = "done" /\ want'[w] = {}
           \/ /\ job'[w] = job[w] /\ job[w] \in Jobs
              /\ \/ BeginLock(w) \/ Acquire(w)
                 \/ /\ want'[w] = {}
                    /\ \/ Guard(w) /\ round'[w] = round[w] /\ lockedBy' = lockedBy
                       \/ Check(w) /\ round'[w] = round[w] /\ lockedBy' = lockedBy
                       \/ Write(w) /\ TriggerAllows(w)
                       \/ Verify(w) /\ round'[w] = round[w] /\ lockedBy' = lockedBy
  <1> USE DEF TypeOK, fixed
  <1>1. Release(w) => step'[w] = "done" /\ want'[w] = {}
    BY DEF Release, Done
  <1>2. Busy(w) => job[w] \in Jobs
    BY DEF Progress, ProgressOf
  <1>3. CASE BeginLock(w)
    BY <1>2, <1>3 DEF BeginLock, Busy
  <1>4. CASE Acquire(w)
    BY <1>2, <1>4 DEF Acquire, Busy
  <1>5. CASE CancelDeadlocked(w)
    BY <1>1, <1>5 DEF CancelDeadlocked, Rollback
  <1>6. step[w] # "acquire" => want[w] = {}
    BY DEF Progress, ProgressOf
  <1>7. CASE Guard(w)
    BY <1>1, <1>2, <1>6, <1>7 DEF Guard, Rollback, Busy
  <1>8. CASE Check(w)
    BY <1>1, <1>2, <1>6, <1>8 DEF Check, Rollback, Busy
  <1>9. CASE Write(w)
    BY <1>1, <1>2, <1>6, <1>9 DEF Write, Rollback, Busy
  <1>10. CASE Verify(w)
    BY <1>1, <1>2, <1>6, <1>10 DEF Verify, Rollback, Busy
  <1>11. CASE Commit(w)
    BY <1>1, <1>11 DEF Commit
  <1>12. QED
    BY <1>3, <1>4, <1>5, <1>7, <1>8, <1>9, <1>10, <1>11 DEF Step

-----------------------------------------------------------------------------
(* Steps, rounds and claims.                                                *)

LEMMA ClaimOfOthers ==
    ASSUME TypeOK, Progress, NEW w \in Workers, Step(w),
           NEW v \in Workers, v # w, Busy(v)
    PROVE  Claimed(v)' <=> Claimed(v)
  <1>1. job[v] \in Jobs /\ job'[v] = job[v]
    BY OthersUnchanged DEF Progress, ProgressOf
  <1>2. job[v].object \in Objects \/ job[v].object = Nobody
    BY <1>1, JobTypes
  <1>3. QED
    BY <1>1, <1>2, LocksRespected DEF Claimed, Rows

LEMMA ProgressOfOthers ==
    ASSUME TypeOK, Progress, NEW w \in Workers, Step(w), NEW v \in Workers, v # w
    PROVE  ProgressOf(v)'
  <1>1. /\ step'[v] = step[v] /\ job'[v] = job[v] /\ round'[v] = round[v] /\ want'[v] = want[v]
        /\ dialect' = dialect
    BY OthersUnchanged, DialectFixed
  <1>2. Busy(v) => (Claimed(v)' <=> Claimed(v))
    BY ClaimOfOthers
  <1>3. dialect = "sqlite" /\ writer = v => writer' = v
    BY NobodyAssumption
       DEF Step, BeginLock, Acquire, CancelDeadlocked, Guard, Check, Write, Verify, Commit,
           Rollback, Release, Progress, ProgressOf, TypeOK
  <1>4. QED
    BY <1>1, <1>2, <1>3 DEF Progress, ProgressOf, Busy, Postgresql

LEMMA ProgressOfSelf ==
    ASSUME TypeOK, TypeOK', Progress, CatalogOwnerKept, NEW w \in Workers, Step(w)
    PROVE  ProgressOf(w)'
  <1> USE DEF TypeOK, fixed
  <1>1. ProgressOf(w) /\ dialect' = dialect /\ dialect \in {"sqlite", "postgresql"}
    BY DialectFixed, TwoDialects DEF Progress
  <1>2. CASE Release(w) /\ step'[w] = "done" /\ want'[w] = {}
    BY <1>2 DEF ProgressOf, Busy
  <1> SUFFICES ASSUME job'[w] = job[w], job[w] \in Jobs,
                      \/ BeginLock(w) \/ Acquire(w)
                      \/ /\ want'[w] = {}
                         /\ \/ Guard(w) /\ round'[w] = round[w] /\ lockedBy' = lockedBy
                            \/ Check(w) /\ round'[w] = round[w] /\ lockedBy' = lockedBy
                            \/ Write(w) /\ TriggerAllows(w)
                            \/ Verify(w) /\ round'[w] = round[w] /\ lockedBy' = lockedBy
               PROVE  ProgressOf(w)'
    BY <1>2, OwnSteps
  <1>3. /\ LockRounds(job[w]) \in {1, 2, 4}
        /\ job[w].kind = "revoke" => LockRounds(job[w]) = 1
        /\ job[w].kind = "deactivate" => LockRounds(job[w]) = 4
        /\ Claimed(w) \/ Claimed(w)' => job[w].object \in Objects /\ job[w].kind \in {"revoke", "grant"}
    BY JobTypes DEF Claimed
  <1>4. CASE BeginLock(w)
    <2>1. RowsToLock(w) # {}
      BY DEF RowsToLock, CatalogOwnerKept
    <2>2. round[w] \in 1..LockRounds(job[w]) /\ round'[w] = round[w] - 1
      BY <1>1, <1>4 DEF ProgressOf, BeginLock
    <2>3. Claimed(w)' <=> Claimed(w)
      BY <1>4 DEF Claimed, BeginLock
    <2>4. step'[w] = "acquire" /\ want'[w] # {} /\ step[w] = "lock"
      BY <1>4, <2>1 DEF BeginLock
    <2>5. QED
      BY <1>1, <1>3, <2>2, <2>3, <2>4 DEF ProgressOf, Busy, Postgresql
  <1>5. CASE Acquire(w)
    <2>1. NextRow(w) \in Principals
      BY <1>1, <1>5, NextRowWanted DEF ProgressOf, Acquire
    <2>2. Claimed(w)' <=> Claimed(w)
      BY <1>3, <1>5, <2>1, RowsAssumption DEF Claimed, Acquire
    <2>3. /\ step[w] = "acquire" /\ round'[w] = round[w]
          /\ step'[w] = IF want'[w] = {} THEN Locked(w) ELSE "acquire"
      BY <1>5 DEF Acquire
    <2>4. round[w] \in 0..LockRounds(job[w]) - 1 /\ Postgresql
      BY <1>1, <2>3 DEF ProgressOf
    <2>5. CASE step'[w] = "acquire"
      <3>1. Locked(w) # "acquire"
        BY DEF Locked
      <3>2. QED
        BY <1>1, <1>3, <2>2, <2>3, <2>4, <2>5, <3>1 DEF ProgressOf, Busy, Postgresql
    <2>6. CASE want'[w] = {} /\ <<job[w].kind, round[w]>> = <<"deactivate", 1>>
      BY <1>1, <1>3, <2>2, <2>3, <2>4, <2>6 DEF ProgressOf, Busy, Postgresql, Locked
    <2>7. CASE /\ want'[w] = {} /\ Claimed(w)
               /\ <<job[w].kind, round[w]>> # <<"deactivate", 1>>
      <3>1. job[w].kind = "revoke" /\ round[w] = 0
        BY <1>1, <1>3, <2>3, <2>4, <2>7 DEF ProgressOf, Busy
      <3>2. step'[w] = "verify"
        BY <2>3, <2>7 DEF Locked
      <3>3. QED
        BY <1>1, <2>2, <2>3, <2>4, <2>7, <3>1, <3>2 DEF ProgressOf, Busy, Postgresql
    <2>8. CASE /\ want'[w] = {} /\ ~Claimed(w)
               /\ <<job[w].kind, round[w]>> # <<"deactivate", 1>>
      <3>1. step'[w] = IF round[w] > 0 THEN "lock" ELSE "check"
        BY <2>3, <2>8 DEF Locked
      <3>2. QED
        BY <1>1, <1>3, <2>2, <2>3, <2>4, <2>8, <3>1 DEF ProgressOf, Busy, Postgresql
    <2>9. QED
      BY <2>3, <2>5, <2>6, <2>7, <2>8
  <1>6. CASE want'[w] = {} /\ Guard(w) /\ round'[w] = round[w] /\ lockedBy' = lockedBy
    <2>1. step'[w] \in {"lock", "check", "done"} /\ step[w] = "guard"
      BY <1>6 DEF Guard, Rollback, Release, Done
    <2>2. Claimed(w)' <=> Claimed(w)
      BY <1>6 DEF Claimed
    <2>3. step'[w] = "lock" <=> Postgresql /\ step'[w] # "done"
      BY <1>6 DEF Guard, Rollback, Release, Done, Postgresql
    <2>4. QED
      BY <1>1, <1>3, <1>6, <2>1, <2>2, <2>3 DEF ProgressOf, Busy, Postgresql
  <1>7. CASE want'[w] = {} /\ Check(w) /\ round'[w] = round[w] /\ lockedBy' = lockedBy
    <2>1. step'[w] \in {"write", "done"} /\ step[w] = "check"
      BY <1>7 DEF Check, Rollback, Release, Done
    <2>2. Claimed(w)' <=> Claimed(w)
      BY <1>7 DEF Claimed
    <2>3. QED
      BY <1>1, <1>7, <2>1, <2>2 DEF ProgressOf, Busy, Postgresql
  <1>8. CASE want'[w] = {} /\ Write(w) /\ TriggerAllows(w)
    <2>1. CASE step'[w] = "done"
      BY <1>8, <2>1 DEF ProgressOf, Busy
    <2>2. CASE step'[w] # "done"
      <3>1. /\ step[w] = "write"
            /\ step'[w] = IF job[w].kind # "revoke" THEN "commit"
                          ELSE IF Postgresql THEN "lock" ELSE "verify"
            /\ round'[w] = IF step'[w] = "lock" THEN 1 ELSE 0
            /\ dialect = "sqlite" => writer' = w
        BY <1>8, <2>2 DEF Write, Rollback, Release, Done, Postgresql
      <3>2. QED
        BY <1>1, <1>3, <1>8, <3>1 DEF ProgressOf, Busy, Postgresql
    <2>3. QED
      BY <2>1, <2>2
  <1>9. CASE want'[w] = {} /\ Verify(w) /\ round'[w] = round[w] /\ lockedBy' = lockedBy
    <2>1. step'[w] \in {"commit", "done"} /\ step[w] = "verify"
      BY <1>9 DEF Verify, Rollback, Release, Done
    <2>2. Claimed(w)' <=> Claimed(w)
      BY <1>9 DEF Claimed
    <2>3. step'[w] = "commit" => writer' = writer
      BY <1>9 DEF Verify, Rollback, Release, Done
    <2>4. QED
      BY <1>1, <1>9, <2>1, <2>2, <2>3 DEF ProgressOf, Busy, Postgresql
  <1>10. QED
    BY <1>4, <1>5, <1>6, <1>7, <1>8, <1>9

LEMMA ProgressStep ==
    ASSUME TypeOK, TypeOK', Progress, CatalogOwnerKept, NEW w \in Workers, Step(w)
    PROVE  Progress'
  BY ProgressOfOthers, ProgressOfSelf DEF Progress

-----------------------------------------------------------------------------
(* Own rows.                                                                *)

LEMMA HoldsOwnRowStep ==
    ASSUME TypeOK, TypeOK', Progress, HoldsOwnRow, NEW w \in Workers, Step(w)
    PROVE  HoldsOwnRow'
  <1>1. dialect' = dialect
    BY DialectFixed
  <1> SUFFICES ASSUME Postgresql, NEW v \in Workers, Busy(v)'
               PROVE  (\/ lockedBy[Row(v)] = v
                       \/ /\ ~Claimed(v)
                          /\ step[v] = "lock"
                          /\ round[v] = LockRounds(job[v])
                       \/ /\ ~Claimed(v)
                          /\ step[v] = "acquire"
                          /\ round[v] = LockRounds(job[v]) - 1
                          /\ Row(v) \in want[v])'
    BY <1>1 DEF HoldsOwnRow, Postgresql
  <1>2. CASE v # w
    <2>1. /\ step'[v] = step[v] /\ job'[v] = job[v] /\ round'[v] = round[v] /\ want'[v] = want[v]
          /\ Busy(v) /\ job[v] \in Jobs
      BY <1>2, OthersUnchanged DEF Busy, Progress, ProgressOf
    <2>2. lockedBy'[Row(v)] = v <=> lockedBy[Row(v)] = v
      BY <1>2, <2>1, JobTypes, LocksRespected DEF Row, Rows
    <2>3. Claimed(v)' <=> Claimed(v)
      BY <1>2, <2>1, ClaimOfOthers
    <2>4. QED
      BY <2>1, <2>2, <2>3 DEF HoldsOwnRow, Row
  <1>3. CASE v = w
    <2>1. /\ job'[w] = job[w] /\ job[w] \in Jobs
          /\ \/ BeginLock(w) \/ Acquire(w)
             \/ /\ want'[w] = {}
                /\ \/ Guard(w) /\ round'[w] = round[w] /\ lockedBy' = lockedBy
                   \/ Check(w) /\ round'[w] = round[w] /\ lockedBy' = lockedBy
                   \/ Write(w) /\ TriggerAllows(w)
                   \/ Verify(w) /\ round'[w] = round[w] /\ lockedBy' = lockedBy
      BY <1>3, OwnSteps DEF Busy
    <2>2. /\ Row(w) \in Principals /\ Row(w)' = Row(w)
          /\ LockRounds(job[w]) \in {1, 2, 4}
          /\ job[w].kind = "deactivate" => LockRounds(job[w]) = 4
          /\ job[w].kind = "demote" => LockRounds(job[w]) = 2
          /\ Busy(w)
      BY <2>1, JobTypes DEF Row, Busy, BeginLock, Acquire, Guard, Check, Write, Verify
    <2>3. CASE BeginLock(w)
      <3>1. /\ step[w] = "lock" /\ step'[w] = "acquire" /\ lockedBy' = lockedBy
            /\ round'[w] = round[w] - 1 /\ want'[w] = RowsToLock(w)
        BY <2>3 DEF BeginLock, TypeOK
      <3>2. Claimed(w)' <=> Claimed(w)
        BY <2>1, <3>1 DEF Claimed
      <3>3. round[w] = LockRounds(job[w]) => Row(w) \in RowsToLock(w)
        BY <2>2 DEF RowsToLock, CatalogOwnersOnly, Row
      <3>4. QED
        BY <1>3, <2>1, <2>2, <3>1, <3>2, <3>3 DEF HoldsOwnRow
    <2>4. CASE Acquire(w)
      <3>1. /\ step[w] = "acquire" /\ round'[w] = round[w]
            /\ lockedBy' = [lockedBy EXCEPT ![NextRow(w)] = w]
            /\ want'[w] = want[w] \ {NextRow(w)}
            /\ want'[w] # {} => step'[w] = "acquire"
        BY <2>4 DEF Acquire, TypeOK
      <3>2. NextRow(w) \in Principals
        BY <3>1, NextRowWanted DEF Progress, ProgressOf
      <3>3. Claimed(w)' <=> Claimed(w)
        BY <2>1, <3>1, <3>2, JobTypes, RowsAssumption DEF Claimed, TypeOK
      <3>4. lockedBy[Row(w)] = w \/ NextRow(w) = Row(w) => lockedBy'[Row(w)] = w
        BY <2>2, <3>1 DEF TypeOK
      <3>5. QED
        BY <1>3, <2>1, <2>2, <3>1, <3>3, <3>4 DEF HoldsOwnRow
    <2>5. CASE ~BeginLock(w) /\ ~Acquire(w)
      <3>1. step[w] \notin {"lock", "acquire"}
        BY <2>1, <2>5 DEF Guard, Check, Write, Verify
      <3>2. lockedBy[Row(w)] = w
        BY <2>2, <3>1 DEF HoldsOwnRow
      <3>3. Write(w) => lockedBy'[Row(w)] = w \/ step'[w] = "done"
        BY <2>2, <3>2 DEF Write, Rollback, Release, Done, TypeOK
      <3>4. QED
        BY <1>3, <2>1, <2>2, <2>5, <3>2, <3>3 DEF Busy
    <2>6. QED
      BY <2>3, <2>4, <2>5
  <1>4. QED
    BY <1>2, <1>3

LEMMA OwnRowHeld ==
    ASSUME TypeOK, Progress, HoldsOwnRow, Postgresql, NEW w \in Workers,
           \/ CountsOwners(w)
           \/ ComparesOwners(w)
           \/ step[w] \in {"check", "write", "verify", "commit"}
    PROVE  Busy(w) /\ Row(w) \in Principals /\ lockedBy[Row(w)] = w
  <1>1. Busy(w) /\ job[w] \in Jobs
    BY DEF CountsOwners, ComparesOwners, Busy, Progress, ProgressOf
  <1>2. /\ Row(w) \in Principals
        /\ job[w].kind = "deactivate" => LockRounds(job[w]) = 4
        /\ job[w].kind = "demote" => LockRounds(job[w]) = 2
    BY <1>1, JobTypes DEF Row
  <1>3. QED
    BY <1>1, <1>2 DEF CountsOwners, ComparesOwners, HoldsOwnRow

(* Others make nobody a catalog owner or an Owner whose row is held.         *)
LEMMA HeldRowsKeepRoles ==
    ASSUME TypeOK, Progress, HoldsOwnRow, Postgresql,
           NEW w \in Workers, Step(w),
           NEW p \in Principals, lockedBy[p] # w
    PROVE  /\ p \in ActiveCatalogOwners' <=> p \in ActiveCatalogOwners
           /\ p \in OwnerHolders' <=> p \in OwnerHolders
  <1>1. CASE UNCHANGED committed
    BY <1>1 DEF ActiveCatalogOwners, OwnerHolders, committed
  <1>2. CASE Commit(w)
    <2>1. Row(w) # p
      BY <1>2, OwnRowHeld DEF Commit
    <2>2. p \in active' <=> p \in active
      BY <1>2, <2>1 DEF Commit, Row
    <2>3. p \in catalogOwners' <=> p \in catalogOwners
      BY <1>2, <2>1 DEF Commit, Row
    <2>4. \A o \in Objects : <<p, o>> \in owners' <=> <<p, o>> \in owners
      BY <1>2, <2>1 DEF Commit, Row
    <2>5. QED
      BY <2>2, <2>3, <2>4 DEF ActiveCatalogOwners, OwnerHolders
  <1>3. QED
    BY <1>1, <1>2, CommitsChange

(* A statement does not get past a row that another job holds.               *)
LEMMA RowStaysWanted ==
    ASSUME TypeOK, Progress, NEW w \in Workers, Acquire(w),
           NEW p \in want[w], lockedBy[p] \notin {Nobody, w}
    PROVE  p \in want'[w]
  BY DEF Acquire, TypeOK

-----------------------------------------------------------------------------
(* Of two jobs that count catalog owners, one waits for the other.           *)

LEMMA CountsExcludeActor ==
    ASSUME TypeOK, Progress, HoldsOwnRow, CountsExclude, Postgresql,
           NEW w \in Workers, Step(w), NEW v \in Workers, v # w,
           CountsOwners(v)', CountsOwners(w)',
           Row(v)' \in ActiveCatalogOwners', Row(w)' \in ActiveCatalogOwners'
    PROVE  AwaitsCatalogOwner(w, v)' \/ AwaitsCatalogOwner(v, w)'
  <1>1. /\ step'[v] = step[v] /\ job'[v] = job[v] /\ round'[v] = round[v] /\ want'[v] = want[v]
        /\ Row(v)' = Row(v) /\ CountsOwners(v)
    BY OthersUnchanged DEF Row, CountsOwners, Busy
  <1>2. Row(v) \in Principals /\ lockedBy[Row(v)] = v
    BY <1>1, OwnRowHeld
  <1>3. lockedBy[Row(v)] \notin {Nobody, w}
    BY <1>2, NobodyAssumption
  <1>4. Row(v) \in ActiveCatalogOwners
    BY <1>1, <1>2, <1>3, HeldRowsKeepRoles
  <1>5. /\ job'[w] = job[w] /\ job[w] \in Jobs /\ Row(w)' = Row(w)
        /\ \/ BeginLock(w) \/ Acquire(w)
           \/ /\ want'[w] = {}
              /\ \/ Guard(w) /\ round'[w] = round[w] /\ lockedBy' = lockedBy
                 \/ Check(w) /\ round'[w] = round[w] /\ lockedBy' = lockedBy
                 \/ Write(w) /\ TriggerAllows(w)
                 \/ Verify(w) /\ round'[w] = round[w] /\ lockedBy' = lockedBy
    BY OwnSteps DEF CountsOwners, Busy, Row
  <1>6. ~Commit(w)
    BY <1>5 DEF BeginLock, Acquire, Guard, Check, Write, Verify, Commit
  <1>7. Row(w) \in ActiveCatalogOwners
    BY <1>5, <1>6, CommitsChange DEF ActiveCatalogOwners, committed
  <1>8. CountsOwners(w) => AwaitsCatalogOwner(w, v) \/ AwaitsCatalogOwner(v, w)
    BY <1>1, <1>4, <1>7 DEF CountsExclude
  <1>9. AwaitsCatalogOwner(v, w) => AwaitsCatalogOwner(v, w)'
    BY <1>1, <1>5 DEF AwaitsCatalogOwner
  <1>10. CASE BeginLock(w)
    <2>1. /\ step[w] = "lock" /\ want[w] = {}
          /\ round'[w] = round[w] - 1 /\ round[w] \in 0..4
          /\ want'[w] = RowsToLock(w)
      BY <1>10 DEF BeginLock, TypeOK, Progress, ProgressOf
    <2>2. CASE CountsOwners(w)
      BY <1>8, <1>9, <2>1, <2>2 DEF AwaitsCatalogOwner
    <2>3. CASE ~CountsOwners(w)
      <3>1. Row(v)' \in want'[w]
        BY <1>1, <1>4, <2>1 DEF RowsToLock
      <3>2. <<job'[w].kind, round'[w]>> \in {<<"deactivate", 1>>, <<"demote", 0>>}
        BY <1>5, <2>1, <2>3 DEF CountsOwners, Busy
      <3>3. QED
        BY <3>1, <3>2 DEF AwaitsCatalogOwner
    <2>4. QED
      BY <2>2, <2>3
  <1>11. CASE Acquire(w)
    <2>1. round'[w] = round[w] /\ step[w] = "acquire"
      BY <1>11 DEF Acquire
    <2>2. CountsOwners(w)
      BY <1>5, <2>1 DEF CountsOwners, Busy
    <2>3. Row(v) \in want[w] => Row(v) \in want'[w]
      BY <1>3, <1>11, RowStaysWanted
    <2>4. AwaitsCatalogOwner(w, v) => AwaitsCatalogOwner(w, v)'
      BY <1>1, <1>5, <2>1, <2>3 DEF AwaitsCatalogOwner
    <2>5. QED
      BY <1>8, <1>9, <2>2, <2>4
  <1>12. CASE ~BeginLock(w) /\ ~Acquire(w)
    <2>1. step[w] \in {"guard", "check", "write", "verify"}
      BY <1>5, <1>12 DEF Guard, Check, Write, Verify
    <2>2. want[w] = {}
      BY <2>1 DEF Progress, ProgressOf
    <2>3. round'[w] = round[w]
      <3>1. CASE Write(w)
        <4>1. step'[w] # "done" /\ step[w] = "write"
          BY <3>1 DEF CountsOwners, Busy, Write
        <4>2. round'[w] = 0
          BY <1>5, <3>1, <4>1 DEF Write, Rollback, Release, Done, CountsOwners, Busy, TypeOK
        <4>3. round[w] = 0
          BY <4>1 DEF Progress, ProgressOf
        <4>4. QED
          BY <4>2, <4>3
      <3>2. QED
        BY <1>5, <1>12, <3>1
    <2>4. CountsOwners(w)
      BY <1>5, <2>1, <2>3 DEF CountsOwners, Busy
    <2>5. QED
      BY <1>8, <1>9, <2>2, <2>4 DEF AwaitsCatalogOwner
  <1>13. QED
    BY <1>10, <1>11, <1>12

LEMMA CountsExcludeStep ==
    ASSUME TypeOK, Progress, HoldsOwnRow, CountsExclude, NEW w \in Workers, Step(w)
    PROVE  CountsExclude'
  <1>1. dialect' = dialect
    BY DialectFixed
  <1> SUFFICES ASSUME Postgresql, NEW u \in Workers, NEW v \in Workers, u # v,
                      CountsOwners(u)', CountsOwners(v)',
                      Row(u)' \in ActiveCatalogOwners', Row(v)' \in ActiveCatalogOwners'
               PROVE  AwaitsCatalogOwner(u, v)' \/ AwaitsCatalogOwner(v, u)'
    BY <1>1 DEF CountsExclude, Postgresql
  <1>2. CASE u = w
    BY <1>2, CountsExcludeActor
  <1>3. CASE v = w
    BY <1>3, CountsExcludeActor
  <1>4. CASE u # w /\ v # w
    <2>1. \A x \in {u, v} :
              /\ step'[x] = step[x] /\ job'[x] = job[x]
              /\ round'[x] = round[x] /\ want'[x] = want[x]
      BY <1>4, OthersUnchanged
    <2>2. \A x \in {u, v} : CountsOwners(x) /\ Row(x)' = Row(x)
      BY <2>1 DEF CountsOwners, Busy, Row
    <2>3. \A x \in {u, v} : Row(x) \in Principals /\ lockedBy[Row(x)] = x
      BY <2>2, OwnRowHeld
    <2>4. Row(u) \in ActiveCatalogOwners /\ Row(v) \in ActiveCatalogOwners
      BY <1>4, <2>2, <2>3, HeldRowsKeepRoles
    <2>5. AwaitsCatalogOwner(u, v) \/ AwaitsCatalogOwner(v, u)
      BY <2>2, <2>4 DEF CountsExclude
    <2>6. QED
      BY <2>1, <2>2, <2>5 DEF AwaitsCatalogOwner
  <1>5. QED
    BY <1>2, <1>3, <1>4

-----------------------------------------------------------------------------
(* What was counted stays true until it is acted on.                         *)

LEMMA CommitTakesCatalogOwner ==
    ASSUME NEW w \in Workers, Commit(w)
    PROVE  /\ ActiveCatalogOwners \ {Row(w)} \subseteq ActiveCatalogOwners'
           /\ ActiveCatalogOwners' \subseteq ActiveCatalogOwners \cup {Row(w)}
           /\ job[w].kind \notin {"deactivate", "demote"}
                  => ActiveCatalogOwners \subseteq ActiveCatalogOwners'
           /\ job[w].kind \in {"deactivate", "demote"}
                  => ActiveCatalogOwners' = ActiveCatalogOwners \ {Row(w)}
  BY DEF Commit, ActiveCatalogOwners, Row

LEMMA CountsHoldOther ==
    ASSUME TypeOK, Progress, HoldsOwnRow, CountsExclude, CountsHold,
           NEW w \in Workers, Commit(w), NEW v \in Workers, v # w, Counted(v)
    PROVE  OtherCatalogOwner(Row(v))'
  <1>1. /\ Step(w)
        /\ job'[v] = job[v] /\ Row(v)' = Row(v)
    BY OthersUnchanged DEF Step, Row
  <1>2. OtherCatalogOwner(Row(v))
    BY DEF CountsHold
  <1>3. Postgresql
    <2>1. dialect = "sqlite" => writer = v /\ writer = w
      BY DEF Counted, Commit, Progress, ProgressOf, Postgresql
    <2>2. QED
      BY <2>1, TwoDialects DEF Postgresql
  <1>4. CountsOwners(v) /\ ~AwaitsCatalogOwner(v, w)
    <2>1. /\ step[v] # "acquire" => want[v] = {}
          /\ step[v] \in {"check", "write", "commit"} => round[v] = 0
      BY <1>3 DEF Progress, ProgressOf
    <2>2. QED
      BY <1>3, <2>1 DEF Counted, CountsOwners, AwaitsCatalogOwner, Busy, Postgresql
  <1>5. Row(v) \in Principals /\ lockedBy[Row(v)] = v
    BY <1>3, <1>4, OwnRowHeld
  <1>6. lockedBy[Row(w)] = w /\ Row(v) # Row(w)
    BY <1>3, <1>5, OwnRowHeld DEF Commit
  <1>7. CASE Row(v) \notin ActiveCatalogOwners
    BY <1>1, <1>6, <1>7, CommitTakesCatalogOwner DEF OtherCatalogOwner
  <1>8. CASE Row(v) \in ActiveCatalogOwners /\ Row(w) \notin ActiveCatalogOwners
    BY <1>1, <1>2, <1>8, CommitTakesCatalogOwner DEF OtherCatalogOwner
  <1>9. CASE Row(v) \in ActiveCatalogOwners /\ Row(w) \in ActiveCatalogOwners
    <2>1. ~CountsOwners(w)
      <3>1. step[w] = "commit"
        BY DEF Commit
      <3>2. ~AwaitsCatalogOwner(w, v)
        BY <3>1 DEF Progress, ProgressOf, AwaitsCatalogOwner
      <3>3. QED
        BY <1>3, <1>4, <1>9, <3>2 DEF CountsExclude
    <2>2. job[w].kind \notin {"deactivate", "demote"}
      BY <1>3, <2>1 DEF CountsOwners, Busy, Commit, Progress, ProgressOf
    <2>3. PICK p \in ActiveCatalogOwners : p # Row(v)
      BY <1>2, <1>9 DEF OtherCatalogOwner
    <2>4. p \in ActiveCatalogOwners'
      BY <2>2, CommitTakesCatalogOwner
    <2>5. QED
      BY <1>1, <2>3, <2>4 DEF OtherCatalogOwner
  <1>10. QED
    BY <1>7, <1>8, <1>9

LEMMA CountsHoldStep ==
    ASSUME TypeOK, Progress, HoldsOwnRow, CountsExclude, CountsHold, NEW w \in Workers, Step(w)
    PROVE  CountsHold'
  <1>1. SUFFICES ASSUME NEW v \in Workers, Counted(v)'
                 PROVE  OtherCatalogOwner(Row(v))'
    BY DEF CountsHold
  <1>2. dialect' = dialect
    BY DialectFixed
  <1>3. CASE v # w
    <2>1. /\ step'[v] = step[v] /\ job'[v] = job[v] /\ round'[v] = round[v]
          /\ Row(v)' = Row(v)
      BY <1>3, OthersUnchanged DEF Row
    <2>2. Counted(v)
      BY <1>1, <1>2, <2>1 DEF Counted, Postgresql
    <2>3. CASE Commit(w)
      BY <1>3, <2>2, <2>3, CountsHoldOther
    <2>4. CASE UNCHANGED committed
      BY <2>1, <2>2, <2>4 DEF CountsHold, OtherCatalogOwner, ActiveCatalogOwners, committed
    <2>5. QED
      BY <2>3, <2>4, CommitsChange
  <1>4. CASE v = w
    <2>1. /\ job'[w] = job[w] /\ job[w] \in Jobs /\ Row(w)' = Row(w)
          /\ \/ BeginLock(w) \/ Acquire(w)
             \/ /\ want'[w] = {}
                /\ \/ Guard(w) /\ round'[w] = round[w] /\ lockedBy' = lockedBy
                   \/ Check(w) /\ round'[w] = round[w] /\ lockedBy' = lockedBy
                   \/ Write(w) /\ TriggerAllows(w)
                   \/ Verify(w) /\ round'[w] = round[w] /\ lockedBy' = lockedBy
      BY <1>1, <1>4, OwnSteps DEF Counted, Row
    <2>2. UNCHANGED committed
      BY <2>1, CommitsChange DEF BeginLock, Acquire, Guard, Check, Write, Verify, Commit
    <2>3. OtherCatalogOwner(Row(w)) => OtherCatalogOwner(Row(w))'
      BY <2>1, <2>2 DEF OtherCatalogOwner, ActiveCatalogOwners, committed
    <2>4. CASE BeginLock(w)
      <3>1. step[w] = "lock" /\ step'[w] = "acquire" /\ round'[w] = round[w] - 1 /\ round[w] \in 0..4
        BY <2>4 DEF BeginLock, TypeOK
      <3>2. Counted(w)
        BY <1>1, <1>2, <1>4, <2>1, <3>1 DEF Counted, Postgresql
      <3>3. QED
        BY <1>4, <2>3, <3>2 DEF CountsHold
    <2>5. CASE Acquire(w)
      <3>1. /\ step[w] = "acquire" /\ round'[w] = round[w]
            /\ step'[w] = "acquire" \/ step'[w] = Locked(w)
        BY <2>5 DEF Acquire, TypeOK
      <3>2. Postgresql /\ round[w] \in 0..4
        BY <3>1 DEF Progress, ProgressOf, TypeOK
      <3>3. Counted(w)
        BY <1>1, <1>2, <1>4, <2>1, <3>1, <3>2 DEF Counted, Postgresql, Locked
      <3>4. QED
        BY <1>4, <2>3, <3>3 DEF CountsHold
    <2>6. CASE Guard(w)
      <3>1. OtherCatalogOwner(Row(w)) \/ step'[w] = "done"
        BY <2>6 DEF Guard, Rollback, Release, Done, Row, TypeOK
      <3>2. step'[w] # "done"
        BY <1>1, <1>4 DEF Counted
      <3>3. QED
        BY <1>4, <2>3, <3>1, <3>2
    <2>7. CASE Check(w)
      <3>1. step[w] = "check" /\ step'[w] = "write" /\ MayGoOn(w)
        BY <1>1, <1>4, <2>7 DEF Check, Rollback, Release, Done, Counted, TypeOK
      <3>2. CASE job[w].kind = "deactivate"
        <4>1. Counted(w)
          BY <1>1, <1>2, <1>4, <3>1, <3>2 DEF Counted, Postgresql
        <4>2. QED
          BY <1>4, <2>3, <4>1 DEF CountsHold
      <3>3. CASE job[w].kind = "demote"
        BY <1>4, <2>3, <3>1, <3>3 DEF MayGoOn, Row
      <3>4. QED
        BY <1>1, <1>4, <2>1, <3>1, <3>2, <3>3 DEF Counted
    <2>8. CASE Write(w) /\ TriggerAllows(w)
      <3>1. step[w] = "write"
        BY <2>8 DEF Write
      <3>2. step'[w] \in {"commit", "lock", "verify", "done"}
        BY <2>8 DEF Write, Rollback, Release, Done, TypeOK
      <3>3. step'[w] = "lock" => job[w].kind = "revoke"
        BY <2>8 DEF Write, Rollback, Release, Done, TypeOK
      <3>4. job[w].kind \in {"deactivate", "demote"}
        BY <1>1, <1>4, <2>1, <3>2, <3>3 DEF Counted
      <3>5. CASE Postgresql
        <4>1. Counted(w)
          BY <3>1, <3>4, <3>5 DEF Counted
        <4>2. QED
          BY <1>4, <2>3, <4>1 DEF CountsHold
      <3>6. CASE ~Postgresql
        BY <1>4, <2>3, <2>8, <3>4, <3>6, TwoDialects DEF TriggerAllows, Postgresql, Row
      <3>7. QED
        BY <3>5, <3>6
    <2>9. CASE Verify(w)
      <3>1. job[w].kind = "revoke" /\ step'[w] \in {"commit", "done"}
        BY <2>9 DEF Verify, Rollback, Release, Done, Progress, ProgressOf, TypeOK
      <3>2. QED
        BY <1>1, <1>4, <2>1, <3>1 DEF Counted
    <2>10. QED
      BY <2>1, <2>4, <2>5, <2>6, <2>7, <2>8, <2>9
  <1>5. QED
    BY <1>3, <1>4

LEMMA CatalogOwnerStep ==
    ASSUME TypeOK, Progress, CountsHold, CatalogOwnerKept, NEW w \in Workers, Step(w)
    PROVE  CatalogOwnerKept'
  <1>1. CASE UNCHANGED committed
    BY <1>1 DEF CatalogOwnerKept, ActiveCatalogOwners, committed
  <1>2. CASE Commit(w)
    <2>1. CASE job[w].kind \in {"deactivate", "demote"}
      <3>1. Counted(w)
        BY <1>2, <2>1, TwoDialects DEF Counted, Commit, Postgresql
      <3>2. OtherCatalogOwner(Row(w))
        BY <3>1 DEF CountsHold
      <3>3. QED
        BY <1>2, <2>1, <3>2, CommitTakesCatalogOwner DEF OtherCatalogOwner, CatalogOwnerKept
    <2>2. CASE job[w].kind \notin {"deactivate", "demote"}
      BY <1>2, <2>2, CommitTakesCatalogOwner DEF CatalogOwnerKept
    <2>3. QED
      BY <2>1, <2>2
  <1>3. QED
    BY <1>1, <1>2, CommitsChange

-----------------------------------------------------------------------------
(* Of two jobs that compare Owners, one waits for the other.                 *)

LEMMA ComparisonsExcludeActor ==
    ASSUME TypeOK, Progress, HoldsOwnRow, ComparisonsExclude, Postgresql,
           NEW w \in Workers, Step(w), NEW v \in Workers, v # w,
           ComparesOwners(v)', ComparesOwners(w)',
           Row(v)' \in OwnerHolders', Row(w)' \in OwnerHolders'
    PROVE  Row(v)' \in want'[w] \/ Row(w)' \in want'[v]
  <1>1. /\ step'[v] = step[v] /\ job'[v] = job[v] /\ round'[v] = round[v] /\ want'[v] = want[v]
        /\ Row(v)' = Row(v) /\ ComparesOwners(v)
    <2>1. /\ step'[v] = step[v] /\ job'[v] = job[v] /\ round'[v] = round[v] /\ want'[v] = want[v]
      BY OthersUnchanged
    <2>2. Busy(v)
      BY <2>1 DEF ComparesOwners, Busy
    <2>3. QED
      BY <2>1, <2>2, ClaimOfOthers DEF Row, ComparesOwners, Busy
  <1>2. Row(v) \in Principals /\ lockedBy[Row(v)] = v
    BY <1>1, OwnRowHeld
  <1>3. lockedBy[Row(v)] \notin {Nobody, w}
    BY <1>2, NobodyAssumption
  <1>4. Row(v) \in OwnerHolders
    BY <1>1, <1>2, <1>3, HeldRowsKeepRoles
  <1>5. /\ job'[w] = job[w] /\ job[w] \in Jobs /\ Row(w)' = Row(w)
        /\ \/ BeginLock(w) \/ Acquire(w)
           \/ /\ want'[w] = {}
              /\ \/ Guard(w) /\ round'[w] = round[w] /\ lockedBy' = lockedBy
                 \/ Check(w) /\ round'[w] = round[w] /\ lockedBy' = lockedBy
                 \/ Write(w) /\ TriggerAllows(w)
                 \/ Verify(w) /\ round'[w] = round[w] /\ lockedBy' = lockedBy
    BY OwnSteps DEF ComparesOwners, Busy, Row
  <1>6. ~Commit(w)
    BY <1>5 DEF BeginLock, Acquire, Guard, Check, Write, Verify, Commit
  <1>7. Row(w) \in OwnerHolders
    BY <1>5, <1>6, CommitsChange DEF OwnerHolders, committed
  <1>8. ComparesOwners(w) => Row(v) \in want[w] \/ Row(w) \in want[v]
    BY <1>1, <1>4, <1>7 DEF ComparisonsExclude
  <1>9. CASE BeginLock(w)
    <2>1. step[w] = "lock" /\ round'[w] = round[w] - 1 /\ round[w] \in 0..4 /\ want'[w] = RowsToLock(w)
      BY <1>9 DEF BeginLock, TypeOK
    <2>2. ~CatalogOwnersOnly(w)
      BY <1>5, <2>1 DEF ComparesOwners, CatalogOwnersOnly
    <2>3. Row(v) \in RowsToLock(w)
      BY <1>4, <2>2 DEF RowsToLock, OwnerHolders
    <2>4. QED
      BY <1>1, <2>1, <2>3
  <1>10. CASE Acquire(w)
    <2>1. round'[w] = round[w] /\ step[w] = "acquire"
      BY <1>10 DEF Acquire
    <2>2. Claimed(w)' => Claimed(w)
      <3>1. NextRow(w) \in Principals
        BY <2>1, NextRowWanted DEF Progress, ProgressOf
      <3>2. QED
        BY <1>5, <1>10, <3>1, JobTypes, RowsAssumption DEF Claimed, Acquire, TypeOK
    <2>3. ComparesOwners(w)
      BY <1>5, <2>1, <2>2 DEF ComparesOwners, Busy
    <2>4. Row(v) \in want[w] => Row(v) \in want'[w]
      BY <1>3, <1>10, RowStaysWanted
    <2>5. QED
      BY <1>1, <1>5, <1>8, <2>3, <2>4
  <1>11. CASE ~BeginLock(w) /\ ~Acquire(w)
    <2>1. step[w] \in {"guard", "check", "write", "verify"}
      BY <1>5, <1>11 DEF Guard, Check, Write, Verify
    <2>2. want[w] = {}
      BY <2>1 DEF Progress, ProgressOf
    <2>3. ComparesOwners(w)
      <3>1. CASE Guard(w) \/ Check(w) \/ Verify(w)
        <4>1. step[w] # "write" /\ step'[w] # "done"
          BY <1>5, <3>1 DEF Guard, Check, Verify, ComparesOwners, Busy
        <4>2. round'[w] = round[w] /\ lockedBy' = lockedBy
          BY <1>5, <1>11, <4>1 DEF Write
        <4>3. /\ Guard(w) => step'[w] \notin {"acquire", "verify", "commit"}
              /\ Check(w) => step'[w] \notin {"acquire", "verify", "commit"}
              /\ Verify(w) => step[w] = "verify"
          BY <4>1 DEF Guard, Check, Verify, Rollback, Release, Done, TypeOK
        <4>4. Claimed(w)' <=> Claimed(w)
          BY <1>5, <4>2 DEF Claimed
        <4>5. QED
          BY <1>5, <2>1, <3>1, <4>2, <4>3, <4>4 DEF ComparesOwners, Busy
      <3>2. CASE Write(w)
        <4>1. step[w] = "write" /\ round[w] = 0
          BY <3>2 DEF Write, Progress, ProgressOf
        <4>2. job[w].kind = "revoke" => step'[w] \in {"lock", "done"}
          BY <3>2 DEF Write, Rollback, Release, Done, TypeOK, Postgresql
        <4>3. QED
          BY <1>5, <4>1, <4>2 DEF ComparesOwners, Busy
      <3>3. QED
        BY <1>5, <1>11, <3>1, <3>2
    <2>4. QED
      BY <1>1, <1>5, <1>8, <2>2, <2>3
  <1>12. QED
    BY <1>9, <1>10, <1>11

LEMMA ComparisonsExcludeStep ==
    ASSUME TypeOK, Progress, HoldsOwnRow, ComparisonsExclude, NEW w \in Workers, Step(w)
    PROVE  ComparisonsExclude'
  <1>1. dialect' = dialect
    BY DialectFixed
  <1> SUFFICES ASSUME Postgresql, NEW u \in Workers, NEW v \in Workers, u # v,
                      ComparesOwners(u)', ComparesOwners(v)',
                      Row(u)' \in OwnerHolders', Row(v)' \in OwnerHolders'
               PROVE  Row(u)' \in want'[v] \/ Row(v)' \in want'[u]
    BY <1>1 DEF ComparisonsExclude, Postgresql
  <1>2. CASE u = w
    BY <1>2, ComparisonsExcludeActor
  <1>3. CASE v = w
    BY <1>3, ComparisonsExcludeActor
  <1>4. CASE u # w /\ v # w
    <2>1. \A x \in {u, v} :
              /\ step'[x] = step[x] /\ job'[x] = job[x]
              /\ round'[x] = round[x] /\ want'[x] = want[x]
      BY <1>4, OthersUnchanged
    <2>2. \A x \in {u, v} : Busy(x)
      BY <2>1 DEF ComparesOwners, Busy
    <2>3. \A x \in {u, v} : ComparesOwners(x) /\ Row(x)' = Row(x)
      BY <1>4, <2>1, <2>2, ClaimOfOthers DEF ComparesOwners, Busy, Row
    <2>4. \A x \in {u, v} : Row(x) \in Principals /\ lockedBy[Row(x)] = x
      BY <2>3, OwnRowHeld
    <2>5. Row(u) \in OwnerHolders /\ Row(v) \in OwnerHolders
      BY <1>4, <2>3, <2>4, HeldRowsKeepRoles
    <2>6. Row(u) \in want[v] \/ Row(v) \in want[u]
      BY <2>3, <2>5 DEF ComparisonsExclude
    <2>7. QED
      BY <2>1, <2>3, <2>6
  <1>5. QED
    BY <1>2, <1>3, <1>4

-----------------------------------------------------------------------------
(* What was compared stays true until it is acted on.                        *)

(* Two jobs that have both compared: one of them takes nothing away.         *)
LEMMA OneTakesNothing ==
    ASSUME TypeOK, Progress, HoldsOwnRow, ComparisonsExclude, Postgresql,
           NEW w \in Workers, Commit(w), job[w].kind \in {"deactivate", "revoke"},
           NEW v \in Workers, v # w,
           \/ step[v] \in {"write", "commit"} /\ job[v].kind = "deactivate"
           \/ step[v] = "commit" /\ job[v].kind = "revoke"
    PROVE  Row(w) \notin OwnerHolders \/ Row(v) \notin OwnerHolders
  <1>1. step[w] = "commit" /\ want[w] = {} /\ want[v] = {}
    BY DEF Commit, Progress, ProgressOf
  <1>2. ComparesOwners(w)
    BY <1>1 DEF ComparesOwners, Busy, Progress, ProgressOf
  <1>3. ComparesOwners(v)
    BY DEF ComparesOwners, Busy, Progress, ProgressOf
  <1>4. QED
    BY <1>1, <1>2, <1>3 DEF ComparisonsExclude

LEMMA ComparisonsHoldOther ==
    ASSUME TypeOK, Progress, HoldsOwnRow, ComparisonsExclude, ComparisonsHold, Postgresql,
           NEW w \in Workers, Commit(w), NEW v \in Workers, v # w
    PROVE  /\ step[v] \in {"write", "commit"} /\ job[v].kind = "deactivate"
                  => CoveredWithout(Row(v))'
           /\ step[v] = "commit" /\ job[v].kind = "revoke" => StaysCovered(v)'
  <1>1. /\ Step(w) /\ job'[v] = job[v] /\ Row(v)' = Row(v)
        /\ step[w] = "commit" /\ job[w] \in Jobs
    BY OthersUnchanged DEF Step, Row, Commit, Progress, ProgressOf, Busy
  <1> SUFFICES ASSUME \/ step[v] \in {"write", "commit"} /\ job[v].kind = "deactivate"
                      \/ step[v] = "commit" /\ job[v].kind = "revoke"
               PROVE  /\ job[v].kind = "deactivate" => CoveredWithout(Row(v))'
                      /\ job[v].kind = "revoke" => StaysCovered(v)'
    OBVIOUS
  <1>2. job[v] \in Jobs
    BY DEF Progress, ProgressOf, Busy
  <1>3. /\ job[v].kind = "deactivate" => CoveredWithout(Row(v))
        /\ job[v].kind = "revoke" => StaysCovered(v)
    BY DEF ComparisonsHold
  <1>4. Row(v) # Row(w)
    BY <1>1, OwnRowHeld
  <1>5. /\ Row(v) \in Principals /\ Row(w) \in Principals
        /\ job[v].kind = "revoke" => job[v].object \in Objects
        /\ job[w].kind = "revoke" => job[w].object \in Objects
    BY <1>1, <1>2, JobTypes DEF Row
  <1>6. CASE job[w].kind \notin {"deactivate", "revoke"}
    <2>1. active' = active /\ owners \subseteq owners'
          /\ \A o \in Objects : <<Row(v), o>> \in owners' => <<Row(v), o>> \in owners
      BY <1>4, <1>6 DEF Commit, Row
    <2>2. QED
      BY <1>1, <1>3, <2>1 DEF CoveredWithout, StaysCovered, Covered
  <1>7. CASE job[w].kind = "deactivate"
    <2>1. active' = active \ {Row(w)} /\ owners' = owners
      BY <1>7 DEF Commit, Row
    <2>2. Row(w) \notin OwnerHolders \/ Row(v) \notin OwnerHolders
      BY <1>7, OneTakesNothing
    <2>3. CoveredWithout(Row(w))
      BY <1>1, <1>7 DEF ComparisonsHold
    <2>4. CASE job[v].kind = "deactivate"
      <3>1. SUFFICES ASSUME NEW o \in Objects, <<Row(v), o>> \in owners
                     PROVE  \E p \in (active \ {Row(w)}) \ {Row(v)} : <<p, o>> \in owners
        BY <1>1, <2>1, <2>4 DEF CoveredWithout, Covered
      <3>2. PICK p \in active \ {Row(v)} : <<p, o>> \in owners
        BY <1>3, <2>4, <3>1 DEF CoveredWithout, Covered
      <3>3. p # Row(w)
        BY <1>5, <2>2, <3>1, <3>2 DEF OwnerHolders
      <3>4. QED
        BY <3>2, <3>3
    <2>5. CASE job[v].kind = "revoke"
      <3>1. SUFFICES ASSUME Row(v) \in active
                     PROVE  \E p \in active \ {Row(w)} : <<p, job[v].object>> \in owners \ {Grant(v)}
        BY <1>1, <2>1, <2>5 DEF StaysCovered, Covered, Grant, Row
      <3>2. PICK p \in active : <<p, job[v].object>> \in owners \ {Grant(v)}
        BY <1>3, <2>5, <3>1 DEF StaysCovered, Covered, Grant, Row
      <3>3. CASE p # Row(w)
        BY <3>2, <3>3
      <3>4. CASE p = Row(w)
        <4>1. Row(v) \notin OwnerHolders
          BY <1>5, <2>2, <2>5, <3>2, <3>4 DEF OwnerHolders
        <4>2. PICK q \in active \ {Row(w)} : <<q, job[v].object>> \in owners
          BY <1>5, <2>3, <2>5, <3>2, <3>4 DEF CoveredWithout, Covered
        <4>3. <<q, job[v].object>> # Grant(v)
          BY <1>5, <2>5, <4>1, <4>2 DEF OwnerHolders, Grant
        <4>4. QED
          BY <4>2, <4>3
      <3>5. QED
        BY <3>3, <3>4
    <2>6. QED
      BY <2>4, <2>5
  <1>8. CASE job[w].kind = "revoke"
    <2>1. active' = active /\ owners' = owners \ {Grant(w)}
      BY <1>8 DEF Commit, Row, Grant
    <2>2. Row(w) \notin OwnerHolders \/ Row(v) \notin OwnerHolders
      BY <1>8, OneTakesNothing
    <2>3. StaysCovered(w)
      BY <1>1, <1>8 DEF ComparisonsHold
    <2>4. Row(w) \notin OwnerHolders => owners' = owners
      BY <1>5, <1>8, <2>1 DEF OwnerHolders, Grant
    <2>5. CASE job[v].kind = "deactivate"
      <3>1. Row(v) \notin OwnerHolders => \A o \in Objects : <<Row(v), o>> \notin owners
        BY <1>5 DEF OwnerHolders
      <3>2. QED
        BY <1>1, <1>3, <2>1, <2>2, <2>4, <2>5, <3>1 DEF CoveredWithout, Covered
    <2>6. CASE job[v].kind = "revoke" /\ Row(w) \notin OwnerHolders
      BY <1>1, <1>3, <2>1, <2>4, <2>6 DEF StaysCovered
    <2>7. CASE job[v].kind = "revoke" /\ Row(v) \notin OwnerHolders
      <3>1. SUFFICES ASSUME Row(v) \in active
                     PROVE  \E p \in active : <<p, job[v].object>> \in owners' \ {Grant(v)}
        BY <1>1, <2>1, <2>7 DEF StaysCovered, Covered, Grant, Row
      <3>2. PICK p \in active : <<p, job[v].object>> \in owners \ {Grant(v)}
        BY <1>3, <2>7, <3>1 DEF StaysCovered, Covered, Grant, Row
      <3>3. CASE <<p, job[v].object>> # Grant(w)
        BY <2>1, <3>2, <3>3
      <3>4. CASE <<p, job[v].object>> = Grant(w)
        <4>1. p = Row(w) /\ job[v].object = job[w].object
          BY <3>4 DEF Grant
        <4>2. PICK q \in active : <<q, job[v].object>> \in owners \ {Grant(w)}
          BY <2>3, <3>2, <4>1 DEF StaysCovered, Covered, Grant, Row
        <4>3. <<q, job[v].object>> # Grant(v)
          BY <1>5, <2>7, <4>2 DEF OwnerHolders, Grant
        <4>4. QED
          BY <2>1, <4>2, <4>3
      <3>5. QED
        BY <3>3, <3>4
    <2>8. QED
      BY <2>2, <2>5, <2>6, <2>7
  <1>9. QED
    BY <1>6, <1>7, <1>8

LEMMA ComparisonsHoldActor ==
    ASSUME TypeOK, Progress, ComparisonsHold, Postgresql, NEW w \in Workers, Step(w)
    PROVE  /\ step'[w] \in {"write", "commit"} /\ job'[w].kind = "deactivate"
                  => CoveredWithout(Row(w))'
           /\ step'[w] = "commit" /\ job'[w].kind = "revoke" => StaysCovered(w)'
  <1> SUFFICES ASSUME \/ step'[w] \in {"write", "commit"} /\ job'[w].kind = "deactivate"
                      \/ step'[w] = "commit" /\ job'[w].kind = "revoke"
               PROVE  /\ job'[w].kind = "deactivate" => CoveredWithout(Row(w))'
                      /\ job'[w].kind = "revoke" => StaysCovered(w)'
    OBVIOUS
  <1>1. step'[w] \in {"write", "commit"}
    OBVIOUS
  <1>2. /\ job'[w] = job[w] /\ Row(w)' = Row(w)
        /\ BeginLock(w) \/ Acquire(w) \/ Guard(w) \/ Check(w) \/ Write(w) \/ Verify(w)
    BY <1>1, OwnSteps DEF Row
  <1>3. UNCHANGED committed
    <2>1. ~Commit(w)
      BY <1>2 DEF BeginLock, Acquire, Guard, Check, Write, Verify, Commit
    <2>2. QED
      BY <2>1, CommitsChange
  <1>4. /\ CoveredWithout(Row(w))' <=> CoveredWithout(Row(w))
        /\ StaysCovered(w)' <=> StaysCovered(w)
    BY <1>2, <1>3 DEF CoveredWithout, StaysCovered, Covered, committed
  <1>5. CASE BeginLock(w) \/ Acquire(w) \/ Guard(w)
    BY <1>1, <1>5 DEF BeginLock, Acquire, Guard, Locked, Rollback, Release, Done, TypeOK
  <1>6. CASE Check(w)
    <2>1. MayGoOn(w) /\ step'[w] = "write"
      BY <1>1, <1>6 DEF Check, Rollback, Release, Done, TypeOK
    <2>2. QED
      BY <1>2, <1>4, <2>1 DEF MayGoOn, Row
  <1>7. CASE Write(w)
    <2>1. job[w].kind # "revoke"
      BY <1>1, <1>2, <1>7 DEF Write, Rollback, Release, Done, TypeOK, Postgresql
    <2>2. step[w] = "write"
      BY <1>7 DEF Write
    <2>3. QED
      BY <1>2, <1>4, <2>1, <2>2 DEF ComparisonsHold
  <1>8. CASE Verify(w)
    <2>1. StaysCovered(w) /\ step[w] = "verify"
      BY <1>1, <1>8 DEF Verify, Rollback, Release, Done, TypeOK
    <2>2. job[w].kind = "revoke"
      BY <2>1 DEF Progress, ProgressOf
    <2>3. QED
      BY <1>2, <1>4, <2>1, <2>2
  <1>9. QED
    BY <1>2, <1>5, <1>6, <1>7, <1>8

LEMMA ComparisonsHoldStep ==
    ASSUME TypeOK, Progress, HoldsOwnRow, ComparisonsExclude, ComparisonsHold,
           NEW w \in Workers, Step(w)
    PROVE  ComparisonsHold'
  <1>1. dialect' = dialect
    BY DialectFixed
  <1> SUFFICES ASSUME Postgresql, NEW v \in Workers, v # w
               PROVE  /\ step'[v] \in {"write", "commit"} /\ job'[v].kind = "deactivate"
                             => CoveredWithout(Row(v))'
                      /\ step'[v] = "commit" /\ job'[v].kind = "revoke" => StaysCovered(v)'
    BY <1>1, ComparisonsHoldActor DEF ComparisonsHold, Postgresql
  <1>2. step'[v] = step[v] /\ job'[v] = job[v]
    BY OthersUnchanged
  <1>3. CASE Commit(w)
    BY <1>2, <1>3, ComparisonsHoldOther
  <1>4. CASE UNCHANGED committed
    <2>1. /\ CoveredWithout(Row(v))' <=> CoveredWithout(Row(v))
          /\ StaysCovered(v)' <=> StaysCovered(v)
      BY <1>2, <1>4 DEF CoveredWithout, StaysCovered, Covered, Row, committed
    <2>2. QED
      BY <1>2, <2>1 DEF ComparisonsHold
  <1>5. QED
    BY <1>3, <1>4, CommitsChange

-----------------------------------------------------------------------------
(* Owner coverage.                                                          *)

LEMMA CoverageStep ==
    ASSUME TypeOK, Progress, ComparisonsHold, LocksKeepCoverage, NEW w \in Workers, Step(w)
    PROVE  LocksKeepCoverage'
  <1>1. dialect' = dialect
    BY DialectFixed
  <1>2. CASE UNCHANGED committed
    BY <1>1, <1>2 DEF LocksKeepCoverage, EveryObjectOwned, OwnedBy, Covered, committed
  <1>3. CASE Commit(w)
    <2> SUFFICES ASSUME Postgresql, NEW o \in Objects
                 PROVE  \E p \in active' : <<p, o>> \in owners'
      BY <1>1 DEF LocksKeepCoverage, EveryObjectOwned, OwnedBy, Covered, Postgresql
    <2>1. PICK p \in active : <<p, o>> \in owners
      BY DEF LocksKeepCoverage, EveryObjectOwned, OwnedBy, Covered, Postgresql
    <2>2. step[w] = "commit"
      BY <1>3 DEF Commit
    <2>3. CASE job[w].kind \notin {"deactivate", "revoke"}
      BY <1>3, <2>1, <2>3 DEF Commit
    <2>4. CASE job[w].kind = "deactivate"
      <3>1. active' = active \ {Row(w)} /\ owners' = owners
        BY <1>3, <2>4 DEF Commit, Row
      <3>2. CoveredWithout(Row(w))
        BY <2>2, <2>4 DEF ComparisonsHold
      <3>3. QED
        BY <2>1, <3>1, <3>2 DEF CoveredWithout, Covered
    <2>5. CASE job[w].kind = "revoke"
      <3>1. active' = active /\ owners' = owners \ {Grant(w)}
        BY <1>3, <2>5 DEF Commit, Row, Grant
      <3>2. StaysCovered(w)
        BY <2>2, <2>5 DEF ComparisonsHold
      <3>3. CASE <<p, o>> # Grant(w)
        BY <2>1, <3>1, <3>3
      <3>4. CASE <<p, o>> = Grant(w)
        BY <2>1, <3>1, <3>2, <3>4 DEF StaysCovered, Covered, Grant, Row
      <3>5. QED
        BY <3>3, <3>4
    <2>6. QED
      BY <2>3, <2>4, <2>5
  <1>4. QED
    BY <1>2, <1>3, CommitsChange
-----------------------------------------------------------------------------
(* The invariant, and what follows from it.                                  *)

LEMMA IInvInit == Init => IInv
  <1> SUFFICES ASSUME Init PROVE IInv
    OBVIOUS
  <1> USE DEF Init
  <1>1. \A w \in Workers :
            /\ job[w] \in Jobs /\ want[w] = {} /\ ~Claimed(w)
            /\ step[w] = FirstStep(job[w]) /\ round[w] = LockRounds(job[w])
    BY JobTypes, NobodyAssumption DEF Claimed
  <1>2. TypeOK
    BY <1>1, JobTypes DEF TypeOK, FirstStep, Steps
  <1>3. dialect \in {"sqlite", "postgresql"}
    BY <1>2, TwoDialects
  <1>4. Progress
    BY <1>1, <1>3, JobTypes DEF Progress, ProgressOf, FirstStep, Postgresql
  <1>5. HoldsOwnRow
    BY <1>1 DEF HoldsOwnRow, FirstStep, Postgresql
  <1>6. Postgresql => \A w \in Workers : ~CountsOwners(w) /\ ~ComparesOwners(w)
    BY <1>1, JobTypes DEF CountsOwners, ComparesOwners, FirstStep, Postgresql
  <1>7. CountsExclude /\ ComparisonsExclude
    BY <1>6 DEF CountsExclude, ComparisonsExclude
  <1>8. CountsHold /\ ComparisonsHold
    BY <1>1, JobTypes DEF CountsHold, Counted, ComparisonsHold, FirstStep, Postgresql
  <1>9. CatalogOwnerKept
    BY DEF CatalogOwnerKept, ActiveCatalogOwners
  <1>10. LocksKeepCoverage
    BY DEF LocksKeepCoverage, EveryObjectOwned
  <1>11. QED
    BY <1>2, <1>4, <1>5, <1>7, <1>8, <1>9, <1>10 DEF IInv

LEMMA IInvStep == IInv /\ [Next]_vars => IInv'
  <1>1. SUFFICES ASSUME IInv, [Next]_vars PROVE IInv'
    OBVIOUS
  <1>2. CASE UNCHANGED vars
    <2> USE <1>1, <1>2 DEF vars
    <2>1. TypeOK'
      BY DEF IInv, TypeOK
    <2>2. Progress'
      BY DEF IInv, Progress, ProgressOf, Busy, Postgresql, Claimed
    <2>3. HoldsOwnRow'
      BY DEF IInv, HoldsOwnRow, Busy, Row, Claimed, Postgresql
    <2>4. CountsExclude' /\ ComparisonsExclude'
      BY DEF IInv, CountsExclude, ComparisonsExclude, CountsOwners, AwaitsCatalogOwner,
         ComparesOwners, ActiveCatalogOwners, OwnerHolders, Busy, Row, Claimed, Postgresql
    <2>5. CountsHold' /\ ComparisonsHold'
      BY DEF IInv, CountsHold, ComparisonsHold, Counted, OtherCatalogOwner, ActiveCatalogOwners,
         CoveredWithout, StaysCovered, Covered, Row, Postgresql
    <2>6. CatalogOwnerKept' /\ LocksKeepCoverage'
      BY DEF IInv, CatalogOwnerKept, LocksKeepCoverage, EveryObjectOwned, OwnedBy, Covered,
         ActiveCatalogOwners
    <2>7. QED
      BY <2>1, <2>2, <2>3, <2>4, <2>5, <2>6 DEF IInv
  <1>3. CASE \E w \in Workers : Step(w)
    <2>1. PICK w \in Workers : Step(w)
      BY <1>3
    <2> USE <1>1, <2>1 DEF IInv
    <2>2. TypeOK' /\ Progress' /\ HoldsOwnRow'
      BY TypeStep, ProgressStep, HoldsOwnRowStep
    <2>3. CountsExclude' /\ CountsHold' /\ CatalogOwnerKept'
      BY CountsExcludeStep, CountsHoldStep, CatalogOwnerStep
    <2>4. ComparisonsExclude' /\ ComparisonsHold' /\ LocksKeepCoverage'
      BY ComparisonsExcludeStep, ComparisonsHoldStep, CoverageStep
    <2>5. QED
      BY <2>2, <2>3, <2>4
  <1>4. QED
    BY <1>1, <1>2, <1>3 DEF Next

(* IInv holds in every state of every installation.                          *)
THEOREM Invariance == Spec => []IInv
  BY IInvInit, IInvStep, PTL DEF Spec

(* Every variable keeps its type, whatever the workers do.                   *)
THEOREM TypeCorrect == Spec => []TypeOK
  <1>1. IInv => TypeOK
    BY DEF IInv
  <1>2. QED
    BY <1>1, Invariance, PTL

(* On PostgreSQL no interleaving of deactivations, demotions, promotions,     *)
(* grants and revocations leaves an object without an active Owner.          *)
THEOREM CoverageKept == Spec => []LocksKeepCoverage
  <1>1. IInv => LocksKeepCoverage
    BY DEF IInv
  <1>2. QED
    BY <1>1, Invariance, PTL

(* On both databases no interleaving of them takes the last active catalog    *)
(* owner away.                                                              *)
THEOREM CatalogOwnerStays == Spec => []CatalogOwnerKept
  <1>1. IInv => CatalogOwnerKept
    BY DEF IInv
  <1>2. QED
    BY <1>1, Invariance, PTL

-----------------------------------------------------------------------------
(* The knowledge command.                                                     *)

(* What a catalog file holds.                                                  *)
CatalogFile(d) ==
    /\ d = [objects |-> d.objects, relations |-> d.relations, owner |-> d.owner, log |-> d.log,
            applied |-> d.applied, undone |-> d.undone, stamps |-> d.stamps]
    /\ d.objects \in [Refs -> K!ObjectStates \cup {Nobody}]
    /\ d.relations \subseteq K!Relations
    /\ d.owner \in BOOLEAN
    /\ d.log \subseteq 1..MaxWrites
    /\ d.undone \subseteq 1..MaxBackups

(* Every record of an apply names a plan in ps and the receipt, among rs, of a     *)
(* backup of that plan in which it had not been applied; a digest that a record     *)
(* carries is of the writes that the backup has; no entry is applied twice.        *)
Receipted(a, rs) == \E rc \in rs : rc.id = a.receipt /\ rc.plan = a.plan /\ K!Prior(rc.state, a.plan) = {}
Stamped(s, rs) == \E rc \in rs : rc.id = s.receipt /\ s.digest.log = rc.state.log
Accounted(d, ps, rs) ==
    /\ \A a \in d.applied : a.plan \in ps /\ Receipted(a, rs)
    /\ \A s \in d.stamps : Stamped(s, rs)
    /\ \A a, b \in d.applied : a # b => ~K!Overlaps(a.plan, b.plan)

PlansSound(ps) == \A p \in ps : p.manifest \in Plannable /\ K!ApplyReady(p)

ReceiptsSound(ps, rs) ==
    /\ IsFiniteSet(rs) /\ Cardinality(rs) <= MaxBackups
    /\ \A rc \in rs : /\ rc.id \in 1..Cardinality(rs) /\ rc.plan \in ps
                      /\ CatalogFile(rc.state) /\ Accounted(rc.state, ps, rs)
    /\ \A rc, other \in rs : rc.id = other.id => rc = other

LEMMA KnowledgeConstants ==
    /\ IsFiniteSet(Refs) /\ Nobody \notin Refs /\ Nobody \notin Values /\ Nobody \notin K!ObjectStates
    /\ MaxWrites \in Nat /\ MaxPlans \in Nat /\ MaxBackups \in Nat
    /\ \A m \in Plannable : m \subseteq K!Entries
  BY KnowledgeAssumption DEF K!ConstantsSound, K!IsFiniteSet, IsFiniteSet

LEMMA KnowledgeCardinality == \A S : K!Cardinality(S) = Cardinality(S)
  BY DEF K!Cardinality, Cardinality, K!IsFiniteSet, IsFiniteSet

(* Files of one digest differ in what their records carry at most.                *)
LEMMA SameDigest ==
    ASSUME NEW d, NEW e, CatalogFile(d), CatalogFile(e), K!Digest(d) = K!Digest(e)
    PROVE  d.objects = e.objects /\ d.applied = e.applied /\ d.log = e.log /\ d.relations = e.relations
  <1>1. /\ K!Digest(d).objects = d.objects /\ K!Digest(d).applied = d.applied
        /\ K!Digest(d).log = d.log /\ K!Digest(d).relations = d.relations
    BY DEF CatalogFile, K!Digest
  <1>2. /\ K!Digest(e).objects = e.objects /\ K!Digest(e).applied = e.applied
        /\ K!Digest(e).log = e.log /\ K!Digest(e).relations = e.relations
    BY DEF CatalogFile, K!Digest
  <1>3. QED
    BY <1>1, <1>2

LEMMA DigestLog == ASSUME NEW d, CatalogFile(d) PROVE K!Digest(d).log = d.log
  BY DEF CatalogFile, K!Digest

LEMMA AccountedGrows ==
    ASSUME NEW d, NEW ps, NEW qs, NEW rs, NEW ss, Accounted(d, ps, rs), ps \subseteq qs, rs \subseteq ss
    PROVE  Accounted(d, qs, ss)
  BY DEF Accounted, Receipted, Stamped

-----------------------------------------------------------------------------
(* What the transaction writes.                                                *)

LEMMA TargetsTyped ==
    ASSUME NEW m \in Plannable
    PROVE  /\ K!Targets(m) \subseteq Refs
           /\ \A e \in m : e.value \in Values \cup {Nobody} /\ e.relations \subseteq K!Relations
           /\ K!AllDeclared(m) \subseteq K!Relations
           /\ K!Targets(m) \subseteq K!RequiredRefs(m)
  <1>1. \A e \in m : /\ e.target \in Refs \cup {Nobody} /\ e.value \in Values \cup {Nobody}
                     /\ e.relations \subseteq K!Relations
    BY KnowledgeConstants DEF K!Entries
  <1>2. QED
    BY <1>1 DEF K!Targets, K!AllDeclared, K!Declared, K!Group, K!RequiredRefs

LEMMA NewRelationsTyped ==
    ASSUME NEW p, p.manifest \in Plannable, NEW t \in K!Targets(p.manifest)
    PROVE  K!NewRelations(p, t) \subseteq K!Relations
  <1>1. K!Declared(p.manifest, t) \subseteq K!AllDeclared(p.manifest)
    BY DEF K!AllDeclared
  <1>2. QED
    BY <1>1, TargetsTyped DEF K!NewRelations

LEMMA TargetsFinite ==
    ASSUME NEW p, p.manifest \in Plannable
    PROVE  IsFiniteSet(K!Targets(p.manifest))
  BY TargetsTyped, KnowledgeConstants, FS_Subset

LEMMA RelationsFinite == IsFiniteSet(K!Relations)
  <1>1. IsFiniteSet(Refs \X Refs)
    BY KnowledgeConstants, FS_Product
  <1>2. K!Relations \in SUBSET (Refs \X Refs)
    BY DEF K!Relations
  <1>3. QED
    BY <1>1, <1>2, FS_Subset

(* What a ready plan makes of a target is a document.                            *)
LEMMA CandidateTyped ==
    ASSUME NEW d, NEW p, CatalogFile(d), p.manifest \in Plannable, K!ApplyReady(p), K!AsPlanned(d, p),
           NEW t \in K!Targets(p.manifest)
    PROVE  /\ p.objects[t] = d.objects[t] /\ t \in Refs
           /\ d.objects[t] \in K!ObjectStates \cup {Nobody}
           /\ K!CandidateValue(p, t) \in Values
  <1>1. t \in Refs /\ t \in K!RequiredRefs(p.manifest)
    BY TargetsTyped
  <1>2. p.objects = [r \in K!RequiredRefs(p.manifest) |-> d.objects[r]]
    BY DEF K!AsPlanned, K!PlanFor
  <1>3. p.objects[t] = d.objects[t] /\ d.objects[t] \in K!ObjectStates \cup {Nobody}
    BY <1>1, <1>2 DEF CatalogFile
  <1>4. K!Mapped(p, t) \subseteq Values
    BY TargetsTyped DEF K!Mapped, K!Group
  <1>5. CASE K!Mapped(p, t) = {}
    <2>1. K!Present(p, t)
      BY <1>5 DEF K!ApplyReady, K!TargetBlocked
    <2>2. p.objects[t].value \in Values
      BY <2>1, <1>3 DEF K!Present, K!ObjectStates
    <2>3. QED
      BY <1>5, <2>2, <1>1, <1>3 DEF K!CandidateValue
  <1>6. CASE K!Mapped(p, t) # {}
    <2>1. K!CandidateValue(p, t) \in K!Mapped(p, t)
      BY <1>6 DEF K!CandidateValue
    <2>2. QED
      BY <2>1, <1>4, <1>1, <1>3
  <1>7. QED
    BY <1>5, <1>6

(* Each object after the transaction.                                           *)
Touched(p, r) == {k \in UNION {K!NewRelations(p, t) : t \in K!Targets(p.manifest)} : K!Touches(k, r)}

LEMMA TouchedCount ==
    ASSUME NEW p, p.manifest \in Plannable, NEW r
    PROVE  K!Cardinality(Touched(p, r)) \in Nat
  <1>1. Touched(p, r) \in SUBSET K!Relations
    BY NewRelationsTyped DEF Touched
  <1>2. QED
    BY <1>1, RelationsFinite, FS_Subset, FS_CardinalityType, KnowledgeCardinality

Upserted(d, p, r) ==
    IF r \notin K!Targets(p.manifest) \/ K!TargetAction(p, r) = "unchanged" THEN d.objects[r]
    ELSE [revision |-> IF d.objects[r] = Nobody THEN 1 ELSE d.objects[r].revision + 1,
          value |-> K!CandidateValue(p, r)]

LEMMA WrittenUnfolds ==
    ASSUME NEW d, NEW p
    PROVE  K!Written(d, p) =
             [d EXCEPT !.objects = [r \in Refs |->
                          IF Upserted(d, p, r) = Nobody THEN Nobody
                          ELSE [Upserted(d, p, r) EXCEPT !.revision = @ + K!Cardinality(Touched(p, r))]],
                       !.relations = @ \cup UNION {K!NewRelations(p, t) : t \in K!Targets(p.manifest)}]
  BY DEF K!Written, Upserted, Touched

NewOnes(p) == UNION {K!NewRelations(p, t) : t \in K!Targets(p.manifest)}

LEMMA TargetActions ==
    ASSUME NEW p, NEW t
    PROVE  /\ K!TargetAction(p, t) = "new" <=> p.objects[t] = Nobody
           /\ K!TargetAction(p, t) = "update" <=>
                  p.objects[t] # Nobody /\ K!CandidateValue(p, t) # p.objects[t].value
           /\ K!TargetAction(p, t) \in {"new", "update", "unchanged"}
  <1>1. CASE p.objects[t] = Nobody
    BY <1>1 DEF K!TargetAction, K!Present
  <1>2. CASE p.objects[t] # Nobody /\ K!CandidateValue(p, t) # p.objects[t].value
    BY <1>2 DEF K!TargetAction, K!Present
  <1>3. CASE p.objects[t] # Nobody /\ K!CandidateValue(p, t) = p.objects[t].value
    BY <1>3 DEF K!TargetAction, K!Present
  <1>4. QED
    BY <1>1, <1>2, <1>3

LEMMA UpsertedTyped ==
    ASSUME NEW d, NEW p, CatalogFile(d), p.manifest \in Plannable, K!ApplyReady(p), K!AsPlanned(d, p),
           NEW r \in Refs
    PROVE  Upserted(d, p, r) \in K!ObjectStates \cup {Nobody}
  <1>1. d.objects[r] \in K!ObjectStates \cup {Nobody}
    BY DEF CatalogFile
  <1>2. CASE r \notin K!Targets(p.manifest) \/ K!TargetAction(p, r) = "unchanged"
    BY <1>1, <1>2 DEF Upserted
  <1>3. CASE r \in K!Targets(p.manifest) /\ K!TargetAction(p, r) # "unchanged"
    <2>1. K!CandidateValue(p, r) \in Values
      BY <1>3, CandidateTyped
    <2>2. PICK n : n = IF d.objects[r] = Nobody THEN 1 ELSE d.objects[r].revision + 1
      OBVIOUS
    <2>3. n \in Nat \ {0}
      BY <1>1, <2>2 DEF K!ObjectStates
    <2>4. Upserted(d, p, r) = [revision |-> n, value |-> K!CandidateValue(p, r)]
      BY <1>3, <2>2 DEF Upserted
    <2>5. QED
      BY <2>1, <2>3, <2>4 DEF K!ObjectStates
  <1>4. QED
    BY <1>2, <1>3

LEMMA WrittenTyped ==
    ASSUME NEW d, NEW p, CatalogFile(d), p.manifest \in Plannable, K!ApplyReady(p), K!AsPlanned(d, p)
    PROVE  /\ CatalogFile(K!Written(d, p))
           /\ K!Written(d, p).applied = d.applied /\ K!Written(d, p).stamps = d.stamps
           /\ K!Written(d, p).log = d.log
           /\ K!Written(d, p).relations = d.relations \cup NewOnes(p)
           /\ \A r \in Refs :
                 /\ Upserted(d, p, r) = Nobody => K!Written(d, p).objects[r] = Nobody
                 /\ Upserted(d, p, r) # Nobody => /\ K!Written(d, p).objects[r] # Nobody
                                                  /\ K!Written(d, p).objects[r].value = Upserted(d, p, r).value
  <1> DEFINE object(r) ==
          IF Upserted(d, p, r) = Nobody THEN Nobody
          ELSE [Upserted(d, p, r) EXCEPT !.revision = @ + K!Cardinality(Touched(p, r))]
  <1>1. \A r \in Refs :
           /\ object(r) \in K!ObjectStates \cup {Nobody}
           /\ Upserted(d, p, r) = Nobody => object(r) = Nobody
           /\ Upserted(d, p, r) # Nobody => /\ object(r) # Nobody
                                            /\ object(r).value = Upserted(d, p, r).value
    <2> TAKE r \in Refs
    <2>1. Upserted(d, p, r) \in K!ObjectStates \cup {Nobody}
      BY UpsertedTyped
    <2>2. K!Cardinality(Touched(p, r)) \in Nat
      BY TouchedCount
    <2>3. CASE Upserted(d, p, r) = Nobody
      BY <2>3
    <2>4. CASE Upserted(d, p, r) # Nobody
      <3>1. PICK u \in K!ObjectStates, n \in Nat : u = Upserted(d, p, r) /\ n = K!Cardinality(Touched(p, r))
        BY <2>1, <2>2, <2>4
      <3>2. object(r) = [u EXCEPT !.revision = @ + n]
        BY <3>1, <2>4
      <3>3. [u EXCEPT !.revision = @ + n] \in K!ObjectStates /\ [u EXCEPT !.revision = @ + n].value = u.value
        BY DEF K!ObjectStates
      <3>4. object(r) \in K!ObjectStates /\ object(r).value = Upserted(d, p, r).value
        BY <3>1, <3>2, <3>3
      <3>5. QED
        BY <3>4, <2>4, KnowledgeConstants
    <2>5. QED
      BY <2>3, <2>4
  <1>2. K!Written(d, p) = [d EXCEPT !.objects = [r \in Refs |-> object(r)], !.relations = @ \cup NewOnes(p)]
    BY WrittenUnfolds DEF NewOnes
  <1> HIDE DEF object
  <1>3. NewOnes(p) \subseteq K!Relations
    BY NewRelationsTyped DEF NewOnes
  <1>4. PICK w : w = K!Written(d, p)
    OBVIOUS
  <1>5. PICK os : os = [r \in Refs |-> object(r)]
    OBVIOUS
  <1>6. os \in [Refs -> K!ObjectStates \cup {Nobody}]
    BY <1>1, <1>5
  <1>7. /\ w = [objects |-> os, relations |-> d.relations \cup NewOnes(p), owner |-> d.owner, log |-> d.log,
                applied |-> d.applied, undone |-> d.undone, stamps |-> d.stamps]
    BY <1>2, <1>4, <1>5 DEF CatalogFile
  <1>8. /\ w.objects = os /\ w.relations = d.relations \cup NewOnes(p) /\ w.owner = d.owner /\ w.log = d.log
        /\ w.applied = d.applied /\ w.undone = d.undone /\ w.stamps = d.stamps
    BY <1>7
  <1>9. CatalogFile(w)
    BY <1>3, <1>6, <1>7, <1>8 DEF CatalogFile
  <1>10. \A r \in Refs : w.objects[r] = object(r)
    BY <1>5, <1>8
  <1>11. QED
    BY <1>1, <1>4, <1>8, <1>9, <1>10

(* What is new to the catalog is counted once per target that declares it.         *)
LEMMA RelationsCounted ==
    ASSUME NEW p, p.manifest \in Plannable,
           \A t, u \in K!Targets(p.manifest) : t # u => K!NewRelations(p, t) \cap K!NewRelations(p, u) = {}
    PROVE  K!Cardinality(NewOnes(p)) =
             K!Cardinality({c \in K!Targets(p.manifest) \X K!Relations : c[2] \in K!NewRelations(p, c[1])})
  <1> DEFINE T == K!Targets(p.manifest)
             N(t) == K!NewRelations(p, t)
             pairs == {c \in T \X K!Relations : c[2] \in N(c[1])}
             f == [c \in pairs |-> c[2]]
  <1>1. IsFiniteSet(pairs)
    <2>1. IsFiniteSet(T \X K!Relations)
      BY TargetsFinite, RelationsFinite, FS_Product
    <2>2. QED
      BY <2>1, FS_Subset
  <1>2. NewOnes(p) = UNION {N(t) : t \in T} /\ \A t \in T : N(t) \subseteq K!Relations
    BY NewRelationsTyped DEF NewOnes
  <1>3. \A t, u \in T : t # u => N(t) \cap N(u) = {}
    OBVIOUS
  <1> HIDE DEF T, N
  <1>4. f \in [pairs -> NewOnes(p)]
    BY <1>2
  <1>5. \A a, b \in pairs : f[a] = f[b] => a = b
    <2> TAKE a \in pairs, b \in pairs
    <2>1. a = <<a[1], a[2]>> /\ b = <<b[1], b[2]>> /\ a[1] \in T /\ b[1] \in T /\ a[2] \in N(a[1]) /\ b[2] \in N(b[1])
      OBVIOUS
    <2>2. HAVE f[a] = f[b]
    <2>3. a[2] = b[2]
      BY <2>2
    <2>4. a[1] = b[1]
      BY <2>1, <2>3, <1>3
    <2>5. QED
      BY <2>1, <2>3, <2>4
  <1>6. \A k \in NewOnes(p) : \E c \in pairs : f[c] = k
    <2> TAKE k \in NewOnes(p)
    <2>1. PICK t \in T : k \in N(t)
      BY <1>2
    <2>2. <<t, k>> \in pairs /\ f[<<t, k>>] = k
      BY <2>1, <1>2
    <2>3. QED
      BY <2>2
  <1>7. f \in Bijection(pairs, NewOnes(p))
    BY <1>4, <1>5, <1>6 DEF Bijection, Injection, Surjection, IsInjective
  <1>8. ExistsBijection(pairs, NewOnes(p))
    BY <1>7 DEF ExistsBijection
  <1>9. Cardinality(NewOnes(p)) = Cardinality(pairs)
    BY <1>1, <1>8, FS_Bijection
  <1>10. QED
    BY <1>9, KnowledgeCardinality DEF pairs, T, N

(* Deltas are as planned unless two targets declare one new relation.               *)
LEMMA DeltasFollowPlan ==
    ASSUME NEW d, NEW p, CatalogFile(d), p.manifest \in Plannable, K!ApplyReady(p), K!AsPlanned(d, p),
           \A t, u \in K!Targets(p.manifest) : t # u => K!NewRelations(p, t) \cap K!NewRelations(p, u) = {}
    PROVE  K!DeltasAsPlanned(d, p)
  <1> DEFINE e == K!Written(d, p)
             T == K!Targets(p.manifest)
  <1>1. \A t \in T : /\ p.objects[t] = d.objects[t] /\ t \in Refs
                     /\ d.objects[t] \in K!ObjectStates \cup {Nobody}
                     /\ K!CandidateValue(p, t) \in Values
    BY CandidateTyped
  <1>2. \A r \in Refs :
           /\ Upserted(d, p, r) = Nobody => e.objects[r] = Nobody
           /\ Upserted(d, p, r) # Nobody => /\ e.objects[r] # Nobody
                                            /\ e.objects[r].value = Upserted(d, p, r).value
    BY WrittenTyped
  <1>3. e.relations = d.relations \cup NewOnes(p)
    BY WrittenTyped
  <1> HIDE DEF e
  <1>4. \A t \in T : /\ (d.objects[t] = Nobody /\ e.objects[t] # Nobody) <=> K!TargetAction(p, t) = "new"
                     /\ (~(d.objects[t] = Nobody /\ e.objects[t] # Nobody) /\ e.objects[t].value # d.objects[t].value)
                            <=> K!TargetAction(p, t) = "update"
    <2> TAKE t \in T
    <2>1. CASE d.objects[t] = Nobody
      <3>1. K!TargetAction(p, t) = "new"
        BY <2>1, <1>1, TargetActions
      <3>2. Upserted(d, p, t) \in K!ObjectStates \cup {Nobody}
            /\ Upserted(d, p, t) = [revision |-> 1, value |-> K!CandidateValue(p, t)]
        BY <3>1, <2>1, <1>1, UpsertedTyped DEF Upserted
      <3>3. [revision |-> 1, value |-> K!CandidateValue(p, t)] \in K!ObjectStates
        BY <1>1 DEF K!ObjectStates
      <3>4. e.objects[t] # Nobody
        BY <3>2, <3>3, <1>2, <1>1, KnowledgeConstants
      <3>5. QED
        BY <3>1, <3>4, <2>1
    <2>2. CASE d.objects[t] # Nobody
      <3>1. d.objects[t] \in K!ObjectStates /\ p.objects[t] = d.objects[t] /\ t \in Refs
        BY <2>2, <1>1
      <3>2. CASE K!CandidateValue(p, t) = d.objects[t].value
        <4>1. K!TargetAction(p, t) = "unchanged"
          BY <3>1, <3>2, <2>2, TargetActions
        <4>2. Upserted(d, p, t) = d.objects[t]
          BY <4>1 DEF Upserted
        <4>3. e.objects[t] # Nobody /\ e.objects[t].value = d.objects[t].value
          BY <4>2, <3>1, <2>2, <1>2
        <4>4. QED
          BY <4>1, <4>3, <2>2
      <3>3. CASE K!CandidateValue(p, t) # d.objects[t].value
        <4>1. K!TargetAction(p, t) = "update"
          BY <3>1, <3>3, <2>2, TargetActions
        <4>2. Upserted(d, p, t) = [revision |-> d.objects[t].revision + 1, value |-> K!CandidateValue(p, t)]
          BY <4>1, <2>2 DEF Upserted
        <4>3. Upserted(d, p, t) # Nobody
          <5>1. [revision |-> d.objects[t].revision + 1, value |-> K!CandidateValue(p, t)] \in K!ObjectStates
            BY <3>1, <1>1 DEF K!ObjectStates
          <5>2. QED
            BY <5>1, <4>2, KnowledgeConstants
        <4>4. e.objects[t] # Nobody /\ e.objects[t].value = K!CandidateValue(p, t)
          BY <4>2, <4>3, <3>1, <1>2
        <4>5. QED
          BY <4>1, <4>4, <3>3, <2>2
      <3>4. QED
        BY <3>2, <3>3
    <2>3. QED
      BY <2>1, <2>2
  <1>5. {t \in T : d.objects[t] = Nobody /\ e.objects[t] # Nobody} = {t \in T : K!TargetAction(p, t) = "new"}
    BY <1>4
  <1>6. {t \in T : ~(d.objects[t] = Nobody /\ e.objects[t] # Nobody) /\ e.objects[t].value # d.objects[t].value}
          = {t \in T : K!TargetAction(p, t) = "update"}
    BY <1>4
  <1>7. e.relations \ d.relations = NewOnes(p)
    <2>1. p.relations = K!AllDeclared(p.manifest) \cap d.relations
      BY DEF K!AsPlanned, K!PlanFor
    <2>2. \A t \in T : K!NewRelations(p, t) \cap d.relations = {}
      BY <2>1 DEF K!NewRelations, K!AllDeclared
    <2>3. NewOnes(p) \cap d.relations = {}
      BY <2>2 DEF NewOnes
    <2>4. QED
      BY <2>3, <1>3
  <1>8. K!Cardinality(NewOnes(p)) =
           K!Cardinality({c \in T \X K!Relations : c[2] \in K!NewRelations(p, c[1])})
    BY RelationsCounted
  <1>9. K!Delta(d, e, p) = K!Expected(p)
    BY <1>5, <1>6, <1>7, <1>8 DEF K!Delta, K!Expected
  <1>10. QED
    BY <1>9 DEF K!DeltasAsPlanned, e

Stages == {"idle", "backup", "commit", "verify", "replay", "stage", "recheck", "replace", "readback"}
Restoring == {"stage", "recheck", "replace", "readback"}

(* What a run of the command at stage a knows, by what it works with, x: whatever   *)
(* record of its plan the catalog had that it looked at, the backup of that record    *)
(* is from before the plan and has the same writes of others.                      *)
RunSound(a, x, ps, rs) ==
    /\ a \in {"backup", "commit"} => x.plan \in ps
    /\ a = "commit" => \E rc \in rs : rc.id = x.receipt /\ rc.plan = x.plan
    /\ a \in Restoring =>
          /\ \E rc \in rs : rc.id = x.receipt
          /\ \A b \in x.active.applied :
                b.plan = x.plan =>
                    \E rc \in rs : /\ rc.id = b.receipt /\ K!Prior(rc.state, x.plan) = {}
                                   /\ rc.state.log = x.active.log

Told(a, said, replaced) ==
    /\ a \notin {"idle", "readback"} => ~replaced
    /\ a = "readback" => replaced
    /\ a = "idle" /\ said \in {"failed", "applied", "replayed"} => ~replaced
    /\ a = "idle" /\ said \in {"restored", "failed after replacement"} => replaced

KnowledgeInv ==
    /\ CatalogFile(db) /\ Accounted(db, plans, receipts)
    /\ PlansSound(plans) /\ ReceiptsSound(plans, receipts)
    /\ at \in [Runners -> Stages] /\ report \in [Runners -> K!Reports]
    /\ run = [w \in Runners |-> run[w]]
    /\ swapped \subseteq Runners
    /\ raced \in [Runners -> SUBSET (1..MaxWrites)]
    /\ writes \in 0..MaxWrites
    /\ \A w \in Runners : /\ RunSound(at[w], run[w], plans, receipts)
                          /\ Told(at[w], report[w], w \in swapped)
                          /\ at[w] = "replace" => db.log \subseteq run[w].active.log \cup raced[w]

LEMMA GoOnly ==
    ASSUME NEW d, NEW p, K!Preflight(d, p) = "go"
    PROVE  /\ K!Prior(d, p) = {} /\ K!AsPlanned(d, p)
           /\ \A a \in d.applied : a.plan # p => ~K!Overlaps(a.plan, p)
  <1>1. ~K!Refused(d, p) /\ ~(\E a \in d.applied : a.plan # p /\ K!Overlaps(a.plan, p))
    <2>1. CASE K!Refused(d, p)
      BY <2>1 DEF K!Preflight
    <2>2. CASE ~K!Refused(d, p) /\ \E a \in d.applied : a.plan # p /\ K!Overlaps(a.plan, p)
      BY <2>2 DEF K!Preflight
    <2>3. QED
      BY <2>1, <2>2
  <1>2. K!Prior(d, p) = {}
    <2>1. SUFFICES ASSUME K!Prior(d, p) # {} PROVE FALSE
      OBVIOUS
    <2>2. K!Preflight(d, p) \in {"replay", "error"}
      BY <1>1, <2>1 DEF K!Preflight
    <2>3. QED
      BY <2>2
  <1>3. K!AsPlanned(d, p)
    <2>1. SUFFICES ASSUME ~K!AsPlanned(d, p) PROVE FALSE
      OBVIOUS
    <2>2. K!Preflight(d, p) = "error"
      BY <1>1, <1>2, <2>1 DEF K!Preflight
    <2>3. QED
      BY <2>2
  <1>4. QED
    BY <1>1, <1>2, <1>3

(* A record of the transaction accounts for itself.                              *)
LEMMA AuditedSound ==
    ASSUME NEW d, NEW p, NEW ps, NEW rs, NEW rc \in rs,
           CatalogFile(d), Accounted(d, ps, rs), p \in ps, PlansSound(ps),
           K!Preflight(d, p) = "go", rc.plan = p, CatalogFile(rc.state),
           K!Digest(d) = K!Digest(rc.state)
    PROVE  LET e == K!Audited(K!Written(d, p), p, rc.id)
           IN  CatalogFile(e) /\ Accounted(e, ps, rs) /\ e.log = d.log
  <1>1. p.manifest \in Plannable /\ K!ApplyReady(p)
    BY DEF PlansSound
  <1>2. /\ K!Prior(d, p) = {} /\ K!AsPlanned(d, p)
        /\ \A a \in d.applied : a.plan # p => ~K!Overlaps(a.plan, p)
    BY GoOnly
  <1>3. PICK w : w = K!Written(d, p)
    OBVIOUS
  <1>4. CatalogFile(w) /\ w.applied = d.applied /\ w.stamps = d.stamps /\ w.log = d.log
    BY <1>1, <1>2, <1>3, WrittenTyped
  <1>5. PICK a : a = [plan |-> p, receipt |-> rc.id, post |-> K!PostState(w, p)]
    OBVIOUS
  <1>6. a.plan = p /\ a.receipt = rc.id
    BY <1>5
  <1>7. PICK f : f = [w EXCEPT !.applied = @ \cup {a}]
    OBVIOUS
  <1>8. f = [objects |-> w.objects, relations |-> w.relations, owner |-> w.owner, log |-> w.log,
             applied |-> d.applied \cup {a}, undone |-> w.undone, stamps |-> d.stamps]
    BY <1>4, <1>7 DEF CatalogFile
  <1>9. CatalogFile(f) /\ f.log = d.log /\ f.stamps = d.stamps /\ f.applied = d.applied \cup {a}
    BY <1>4, <1>8 DEF CatalogFile
  <1>10. PICK s : s = [receipt |-> rc.id, digest |-> K!Digest(f)]
    OBVIOUS
  <1>11. s.receipt = rc.id /\ s.digest.log = d.log
    BY <1>9, <1>10, DigestLog
  <1>12. PICK e : e = [f EXCEPT !.stamps = @ \cup {s}]
    OBVIOUS
  <1>13. e = [objects |-> f.objects, relations |-> f.relations, owner |-> f.owner, log |-> f.log,
              applied |-> f.applied, undone |-> f.undone, stamps |-> f.stamps \cup {s}]
    BY <1>9, <1>12 DEF CatalogFile
  <1>14. CatalogFile(e) /\ e.log = d.log /\ e.stamps = d.stamps \cup {s} /\ e.applied = d.applied \cup {a}
    BY <1>9, <1>13 DEF CatalogFile
  <1>15. K!Audited(w, p, rc.id) = e
    BY <1>5, <1>7, <1>10, <1>12 DEF K!Audited
  <1>16. rc.state.applied = d.applied /\ rc.state.log = d.log
    BY SameDigest
  <1>17. Receipted(a, rs)
    BY <1>2, <1>6, <1>16 DEF Receipted, K!Prior
  <1>18. Stamped(s, rs)
    BY <1>11, <1>16 DEF Stamped
  <1>19. \A b \in d.applied : b.plan # p
    BY <1>2 DEF K!Prior
  <1>20. \A b \in d.applied : ~K!Overlaps(b.plan, a.plan) /\ ~K!Overlaps(a.plan, b.plan)
    BY <1>2, <1>6, <1>19 DEF K!Overlaps
  <1>21. Accounted(e, ps, rs)
    <2>1. \A b \in e.applied : b.plan \in ps /\ Receipted(b, rs)
      BY <1>14, <1>17, <1>6 DEF Accounted
    <2>2. \A x \in e.stamps : Stamped(x, rs)
      BY <1>14, <1>18 DEF Accounted
    <2>3. \A b, c \in e.applied : b # c => ~K!Overlaps(b.plan, c.plan)
      BY <1>14, <1>20 DEF Accounted
    <2>4. QED
      BY <2>1, <2>2, <2>3 DEF Accounted
  <1>22. QED
    BY <1>3, <1>14, <1>15, <1>21

(* What a backup adds.                                                         *)
LEMMA BackedUp ==
    ASSUME NEW ps, NEW rs, NEW d, NEW p \in ps, ReceiptsSound(ps, rs), CatalogFile(d), Accounted(d, ps, rs),
           Cardinality(rs) < MaxBackups
    PROVE  LET rc == [id |-> Cardinality(rs) + 1, plan |-> p, state |-> d]
           IN  ReceiptsSound(ps, rs \cup {rc})
  <1> DEFINE n == Cardinality(rs)
             rc == [id |-> n + 1, plan |-> p, state |-> d]
             new == rs \cup {rc}
  <1>1. n \in Nat /\ IsFiniteSet(rs)
    BY FS_CardinalityType DEF ReceiptsSound
  <1>2. \A r \in rs : r.id \in 1..n
    BY DEF ReceiptsSound
  <1>3. rc \notin rs
    <2>1. rc.id = n + 1
      OBVIOUS
    <2>2. n + 1 \notin 1..n
      BY <1>1
    <2>3. QED
      BY <2>1, <2>2, <1>2
  <1>4. IsFiniteSet(new) /\ Cardinality(new) = n + 1
    BY <1>1, <1>3, FS_AddElement
  <1>5. rc.id = n + 1 /\ rc.plan = p /\ rc.state = d
    OBVIOUS
  <1> HIDE DEF rc, n
  <1>6. \A r \in new : /\ r.id \in 1..(n + 1) /\ r.plan \in ps
                       /\ CatalogFile(r.state) /\ Accounted(r.state, ps, new)
    <2>1. \A r \in rs : r.plan \in ps /\ CatalogFile(r.state) /\ Accounted(r.state, ps, rs)
      BY DEF ReceiptsSound
    <2>2. \A r \in rs : Accounted(r.state, ps, new)
      BY <2>1, AccountedGrows
    <2>3. Accounted(d, ps, new)
      BY AccountedGrows
    <2>4. \A r \in new : r.id \in 1..(n + 1)
      BY <1>1, <1>2, <1>5
    <2>5. QED
      BY <2>1, <2>2, <2>3, <2>4, <1>5
  <1>7. \A r, other \in new : r.id = other.id => r = other
    <2>1. \A r \in rs : r.id # n + 1
      BY <1>1, <1>2
    <2>2. QED
      BY <2>1, <1>5 DEF ReceiptsSound
  <1>8. n + 1 <= MaxBackups
    BY <1>1, KnowledgeConstants DEF n
  <1>9. ReceiptsSound(ps, new)
    BY <1>4, <1>6, <1>7, <1>8 DEF ReceiptsSound
  <1>10. QED
    BY <1>9 DEF rc, n

LEMMA RunSoundGrows ==
    ASSUME NEW a, NEW x, NEW ps, NEW rs, NEW qs, NEW ss, RunSound(a, x, ps, rs), ps \subseteq qs, rs \subseteq ss
    PROVE  RunSound(a, x, qs, ss)
  BY DEF RunSound

LEMMA UnseenKeeps ==
    ASSUME KnowledgeInv, CatalogFile(db'), K!Unseen
    PROVE  /\ raced' \in [Runners -> SUBSET (1..MaxWrites)]
           /\ \A v \in Runners : at[v] = "replace" /\ at'[v] = "replace" =>
                 db'.log \subseteq run[v].active.log \cup raced'[v]
  <1>1. db'.log \subseteq 1..MaxWrites /\ raced \in [Runners -> SUBSET (1..MaxWrites)]
    BY DEF CatalogFile, KnowledgeInv
  <1>2. raced' = [v \in Runners |->
            IF at[v] = "replace" /\ at'[v] = "replace" THEN raced[v] \cup (db'.log \ db.log) ELSE {}]
    BY DEF K!Unseen
  <1>3. \A v \in Runners : at[v] = "replace" => db.log \subseteq run[v].active.log \cup raced[v]
    BY DEF KnowledgeInv
  <1>4. \A v \in Runners : raced'[v] \in SUBSET (1..MaxWrites)
    BY <1>1, <1>2
  <1>5. QED
    BY <1>2, <1>3, <1>4

(* A step of one run keeps the invariant when what it leaves is sound.             *)
LEMMA RunMoves ==
    ASSUME KnowledgeInv, NEW w \in Runners, NEW to \in Stages, NEW x, NEW said \in K!Reports,
           at' = [at EXCEPT ![w] = to], run' = [run EXCEPT ![w] = x], report' = [report EXCEPT ![w] = said],
           plans' = plans, writes' = writes, receipts \subseteq receipts', ReceiptsSound(plans, receipts'),
           CatalogFile(db'), Accounted(db', plans, receipts'),
           RunSound(to, x, plans, receipts'),
           swapped' \in {swapped, swapped \ {w}, swapped \cup {w}}, Told(to, said, w \in swapped'),
           to = "replace" => at[w] # "replace" /\ db'.log \subseteq x.active.log,
           K!Unseen
    PROVE  KnowledgeInv'
  <1>1. /\ at \in [Runners -> Stages] /\ report \in [Runners -> K!Reports]
        /\ run = [v \in Runners |-> run[v]] /\ swapped \subseteq Runners
    BY DEF KnowledgeInv
  <1>2. /\ at' \in [Runners -> Stages] /\ report' \in [Runners -> K!Reports]
        /\ run' = [v \in Runners |-> run'[v]] /\ swapped' \subseteq Runners
    BY <1>1
  <1>3. at'[w] = to /\ run'[w] = x /\ report'[w] = said
    BY <1>1
  <1>4. \A v \in Runners \ {w} : /\ at'[v] = at[v] /\ run'[v] = run[v] /\ report'[v] = report[v]
                                 /\ v \in swapped' <=> v \in swapped
    BY <1>1
  <1>5. \A v \in Runners : /\ RunSound(at[v], run[v], plans, receipts)
                           /\ Told(at[v], report[v], v \in swapped)
    BY DEF KnowledgeInv
  <1>6. \A v \in Runners : RunSound(at'[v], run'[v], plans', receipts')
    <2> TAKE v \in Runners
    <2>1. CASE v = w
      BY <2>1, <1>3
    <2>2. CASE v # w
      BY <2>2, <1>4, <1>5, RunSoundGrows
    <2>3. QED
      BY <2>1, <2>2
  <1>7. \A v \in Runners : Told(at'[v], report'[v], v \in swapped')
    <2> TAKE v \in Runners
    <2>1. CASE v = w
      BY <2>1, <1>3
    <2>2. CASE v # w
      BY <2>2, <1>4, <1>5 DEF Told
    <2>3. QED
      BY <2>1, <2>2
  <1>8. /\ raced' \in [Runners -> SUBSET (1..MaxWrites)]
        /\ \A v \in Runners : at[v] = "replace" /\ at'[v] = "replace" =>
              db'.log \subseteq run[v].active.log \cup raced'[v]
    BY UnseenKeeps
  <1>9. \A v \in Runners : at'[v] = "replace" => db'.log \subseteq run'[v].active.log \cup raced'[v]
    <2> TAKE v \in Runners
    <2>1. CASE v = w
      BY <2>1, <1>3
    <2>2. CASE v # w
      BY <2>2, <1>4, <1>8
    <2>3. QED
      BY <2>1, <2>2
  <1>10. PlansSound(plans') /\ writes' \in 0..MaxWrites
    BY DEF KnowledgeInv
  <1>11. ReceiptsSound(plans', receipts') /\ Accounted(db', plans', receipts')
    OBVIOUS
  <1>12. QED
    BY <1>2, <1>6, <1>7, <1>8, <1>9, <1>10, <1>11 DEF KnowledgeInv

(* Nothing but what runs work with and report changes.                            *)
LEMMA DiskSame ==
    ASSUME KnowledgeInv, UNCHANGED K!disk
    PROVE  /\ plans' = plans /\ writes' = writes /\ receipts' = receipts /\ db' = db
           /\ ReceiptsSound(plans, receipts')
           /\ CatalogFile(db') /\ Accounted(db', plans, receipts')
  <1>1. plans' = plans /\ writes' = writes /\ receipts' = receipts /\ db' = db
    BY DEF K!disk
  <1>2. ReceiptsSound(plans, receipts) /\ CatalogFile(db) /\ Accounted(db, plans, receipts)
    BY DEF KnowledgeInv
  <1>3. QED
    BY <1>1, <1>2

LEMMA EndsSound ==
    ASSUME KnowledgeInv, NEW w \in Runners, NEW said \in K!Reports, K!End(w, said), UNCHANGED <<K!disk, swapped>>,
           Told("idle", said, w \in swapped), K!Unseen
    PROVE  KnowledgeInv'
  <1>1. RunSound("idle", K!Nothing, plans, receipts')
    BY DEF RunSound, Restoring
  <1>2. "idle" \in Stages /\ ("idle" = "replace" => at[w] # "replace" /\ db'.log \subseteq K!Nothing.active.log)
    BY DEF Stages
  <1>3. /\ at' = [at EXCEPT ![w] = "idle"] /\ run' = [run EXCEPT ![w] = K!Nothing]
        /\ report' = [report EXCEPT ![w] = said] /\ swapped' = swapped
    BY DEF K!End
  <1>4. QED
    BY <1>1, <1>2, <1>3, DiskSame, RunMoves

LEMMA NowTold == ASSUME KnowledgeInv, NEW w \in Runners
                 PROVE  Told(at[w], report[w], w \in swapped) /\ RunSound(at[w], run[w], plans, receipts)
  BY DEF KnowledgeInv

LEMMA CrashKeeps == ASSUME KnowledgeInv, NEW w \in Runners, K!Crash(w), K!Unseen PROVE KnowledgeInv'
  BY EndsSound DEF K!Crash, K!Reports, Told

LEMMA FailKeeps == ASSUME KnowledgeInv, NEW w \in Runners, K!Fail(w), K!Unseen PROVE KnowledgeInv'
  <1>1. Told("idle", "failed", w \in swapped)
    BY NowTold DEF Told, K!Fail
  <1>2. QED
    BY <1>1, EndsSound DEF K!Fail, K!Reports

LEMMA FailAfterReplacementKeeps ==
    ASSUME KnowledgeInv, NEW w \in Runners, K!FailAfterReplacement(w), K!Unseen
    PROVE  KnowledgeInv'
  <1>1. Told("idle", "failed after replacement", w \in swapped)
    BY NowTold DEF Told, K!FailAfterReplacement
  <1>2. QED
    BY <1>1, EndsSound DEF K!FailAfterReplacement, K!Reports

LEMMA ReadBackKeeps == ASSUME KnowledgeInv, NEW w \in Runners, K!ReadBack(w), K!Unseen PROVE KnowledgeInv'
  <1>1. PICK said \in {"restored", "failed after replacement"} : K!End(w, said)
    BY DEF K!ReadBack
  <1>2. Told("idle", said, w \in swapped)
    BY NowTold DEF Told, K!ReadBack
  <1>3. QED
    BY <1>1, <1>2, EndsSound DEF K!ReadBack, K!Reports

LEMMA VerifyKeeps == ASSUME KnowledgeInv, NEW w \in Runners, K!Verify(w), K!Unseen PROVE KnowledgeInv'
  <1>1. PICK said \in {"applied", "failed"} : K!End(w, said)
    BY DEF K!Verify
  <1>2. Told("idle", said, w \in swapped)
    BY NowTold DEF Told, K!Verify
  <1>3. QED
    BY <1>1, <1>2, EndsSound DEF K!Verify, K!Reports

LEMMA ReplayKeeps == ASSUME KnowledgeInv, NEW w \in Runners, K!Replay(w), K!Unseen PROVE KnowledgeInv'
  <1>1. Told("idle", "replayed", w \in swapped)
    BY NowTold DEF Told, K!Replay
  <1>2. QED
    BY <1>1, EndsSound DEF K!Replay, K!Reports

LEMMA RunHeld == ASSUME KnowledgeInv, NEW w \in Runners, UNCHANGED run PROVE run' = [run EXCEPT ![w] = run[w]]
  BY DEF KnowledgeInv

LEMMA StageKeeps == ASSUME KnowledgeInv, NEW w \in Runners, K!Stage(w), K!Unseen PROVE KnowledgeInv'
  <1>1. at[w] = "stage" /\ UNCHANGED <<K!disk, swapped>>
    BY DEF K!Stage
  <1>2. w \notin swapped /\ RunSound("stage", run[w], plans, receipts)
    BY <1>1, NowTold DEF Told
  <1>3. CASE K!GoOn(w, "recheck") /\ UNCHANGED run
    <2>1. RunSound("recheck", run[w], plans, receipts')
      BY <1>1, <1>2, DiskSame DEF RunSound, Restoring
    <2>2. Told("recheck", "none", w \in swapped') /\ "none" \in K!Reports /\ "recheck" \in Stages
      BY <1>1, <1>2 DEF Told, K!Reports, Stages
    <2>3. /\ at' = [at EXCEPT ![w] = "recheck"] /\ report' = [report EXCEPT ![w] = "none"]
          /\ swapped' = swapped /\ run' = [run EXCEPT ![w] = run[w]]
      BY <1>1, <1>3, RunHeld DEF K!GoOn
    <2>4. "recheck" = "replace" => at[w] # "replace" /\ db'.log \subseteq run[w].active.log
      OBVIOUS
    <2>5. QED
      BY <1>1, <2>1, <2>2, <2>3, <2>4, DiskSame, RunMoves
  <1>4. CASE K!End(w, "failed")
    BY <1>1, <1>2, <1>4, EndsSound DEF K!Reports, Told
  <1>5. QED
    BY <1>3, <1>4 DEF K!Stage

LEMMA RecheckKeeps == ASSUME KnowledgeInv, NEW w \in Runners, K!Recheck(w), K!Unseen PROVE KnowledgeInv'
  <1>1. at[w] = "recheck" /\ UNCHANGED <<K!disk, swapped>>
    BY DEF K!Recheck
  <1>2. w \notin swapped /\ RunSound("recheck", run[w], plans, receipts)
    BY <1>1, NowTold DEF Told
  <1>3. CASE K!ActiveUnchanged(w) /\ K!GoOn(w, "replace") /\ UNCHANGED run
    <2>1. RunSound("replace", run[w], plans, receipts')
      BY <1>1, <1>2, DiskSame DEF RunSound, Restoring
    <2>2. Told("replace", "none", w \in swapped') /\ "none" \in K!Reports /\ "replace" \in Stages
      BY <1>1, <1>2 DEF Told, K!Reports, Stages
    <2>3. /\ at' = [at EXCEPT ![w] = "replace"] /\ report' = [report EXCEPT ![w] = "none"]
          /\ swapped' = swapped /\ run' = [run EXCEPT ![w] = run[w]]
      BY <1>1, <1>3, RunHeld DEF K!GoOn
    <2>4. at[w] # "replace" /\ db'.log \subseteq run[w].active.log
      BY <1>1, <1>3, DiskSame DEF K!ActiveUnchanged
    <2>5. QED
      BY <1>1, <2>1, <2>2, <2>3, <2>4, DiskSame, RunMoves
  <1>4. CASE K!End(w, "failed")
    BY <1>1, <1>2, <1>4, EndsSound DEF K!Reports, Told
  <1>5. QED
    BY <1>3, <1>4 DEF K!Recheck

LEMMA ReceiptFound ==
    ASSUME KnowledgeInv, NEW w, NEW rc \in receipts, rc.id = run[w].receipt
    PROVE  K!ReceiptOf(w) = rc
  <1>1. K!ReceiptOf(w) \in receipts /\ K!ReceiptOf(w).id = run[w].receipt
    BY DEF K!ReceiptOf
  <1>2. QED
    BY <1>1 DEF KnowledgeInv, ReceiptsSound

LEMMA StartApplyKeeps ==
    ASSUME KnowledgeInv, NEW w \in Runners, NEW p \in plans, K!StartApply(w, p), K!Unseen
    PROVE  KnowledgeInv'
  <1>1. at[w] = "idle" /\ UNCHANGED K!disk /\ swapped' = swapped \ {w} /\ w \notin swapped'
    BY DEF K!StartApply
  <1>2. \A to \in {"backup", "replay", "idle"} :
            to \in Stages /\ (to = "replace" => at[w] # "replace" /\ db'.log \subseteq [plan |-> p].active.log)
    BY DEF Stages
  <1>3. CASE K!GoOn(w, IF K!Preflight(db, p) = "go" THEN "backup" ELSE "replay")
             /\ run' = [run EXCEPT ![w] = [plan |-> p]]
    <2>1. PICK to \in {"backup", "replay"} : K!GoOn(w, to)
      BY <1>3
    <2>2. RunSound(to, [plan |-> p], plans, receipts')
      BY <2>1 DEF RunSound, Restoring
    <2>3. Told(to, "none", w \in swapped') /\ "none" \in K!Reports /\ to \in Stages
      BY <1>1, <2>1 DEF Told, K!Reports, Stages
    <2>4. at' = [at EXCEPT ![w] = to] /\ report' = [report EXCEPT ![w] = "none"]
      BY <2>1 DEF K!GoOn
    <2>5. to # "replace"
      BY <2>1
    <2>6. QED
      BY <1>1, <1>3, <2>2, <2>3, <2>4, <2>5, DiskSame, RunMoves
  <1>4. CASE K!End(w, "failed")
    <2>1. RunSound("idle", K!Nothing, plans, receipts')
      BY DEF RunSound, Restoring
    <2>2. Told("idle", "failed", w \in swapped') /\ "failed" \in K!Reports /\ "idle" \in Stages
      BY <1>1 DEF Told, K!Reports, Stages
    <2>3. /\ at' = [at EXCEPT ![w] = "idle"] /\ run' = [run EXCEPT ![w] = K!Nothing]
          /\ report' = [report EXCEPT ![w] = "failed"]
      BY <1>4 DEF K!End
    <2>4. QED
      BY <1>1, <2>1, <2>2, <2>3, DiskSame, RunMoves
  <1>5. QED
    BY <1>3, <1>4 DEF K!StartApply

LEMMA BackupKeeps == ASSUME KnowledgeInv, NEW w \in Runners, K!Backup(w), K!Unseen PROVE KnowledgeInv'
  <1>1. /\ at[w] = "backup" /\ db' = db /\ plans' = plans /\ swapped' = swapped /\ writes' = writes
        /\ Cardinality(receipts) < MaxBackups
    BY KnowledgeCardinality DEF K!Backup
  <1>2. w \notin swapped /\ run[w].plan \in plans
    BY <1>1, NowTold DEF Told, RunSound
  <1>3. PICK n : n = Cardinality(receipts) + 1
    OBVIOUS
  <1>4. PICK rc : rc = [id |-> n, plan |-> run[w].plan, state |-> db]
    OBVIOUS
  <1>5. /\ receipts' = receipts \cup {rc}
        /\ run' = [run EXCEPT ![w] = [plan |-> run[w].plan, receipt |-> n]]
        /\ K!GoOn(w, "commit")
    BY <1>3, <1>4, KnowledgeCardinality DEF K!Backup
  <1>6. CatalogFile(db) /\ Accounted(db, plans, receipts) /\ ReceiptsSound(plans, receipts)
    BY DEF KnowledgeInv
  <1>7. ReceiptsSound(plans, receipts')
    BY <1>1, <1>2, <1>3, <1>4, <1>5, <1>6, BackedUp
  <1>8. Accounted(db', plans, receipts') /\ CatalogFile(db') /\ receipts \subseteq receipts'
    BY <1>1, <1>5, <1>6, AccountedGrows
  <1>9. RunSound("commit", [plan |-> run[w].plan, receipt |-> n], plans, receipts')
    BY <1>2, <1>4, <1>5 DEF RunSound, Restoring
  <1>10. Told("commit", "none", w \in swapped') /\ "none" \in K!Reports /\ "commit" \in Stages
    BY <1>1, <1>2 DEF Told, K!Reports, Stages
  <1>11. at' = [at EXCEPT ![w] = "commit"] /\ report' = [report EXCEPT ![w] = "none"]
    BY <1>5 DEF K!GoOn
  <1>12. QED
    BY <1>1, <1>5, <1>7, <1>8, <1>9, <1>10, <1>11, RunMoves

LEMMA CommitKeeps == ASSUME KnowledgeInv, NEW w \in Runners, K!Commit(w), K!Unseen PROVE KnowledgeInv'
  <1>1. /\ at[w] = "commit" /\ plans' = plans /\ receipts' = receipts /\ swapped' = swapped /\ writes' = writes
    BY DEF K!Commit
  <1>2. w \notin swapped /\ run[w].plan \in plans
    BY <1>1, NowTold DEF Told, RunSound
  <1>3. PICK rc \in receipts : rc.id = run[w].receipt /\ rc.plan = run[w].plan
    BY <1>1, NowTold DEF RunSound
  <1>4. K!ReceiptOf(w) = rc
    BY <1>3, ReceiptFound
  <1>5. /\ CatalogFile(db) /\ Accounted(db, plans, receipts) /\ ReceiptsSound(plans, receipts) /\ PlansSound(plans)
        /\ CatalogFile(rc.state)
    BY <1>3 DEF KnowledgeInv, ReceiptsSound
  <1>6. CASE K!End(w, "failed") /\ UNCHANGED db
    <2>1. UNCHANGED <<K!disk, swapped>> /\ "failed" \in K!Reports /\ Told("idle", "failed", w \in swapped)
      BY <1>1, <1>2, <1>6 DEF K!disk, K!Reports, Told
    <2>2. QED
      BY <2>1, <1>6, EndsSound
  <1>7. CASE K!GoOn(w, "replay") /\ UNCHANGED <<db, run>>
    <2>1. RunSound("replay", run[w], plans, receipts')
      BY DEF RunSound, Restoring
    <2>2. Told("replay", "none", w \in swapped') /\ "none" \in K!Reports /\ "replay" \in Stages
      BY <1>1, <1>2 DEF Told, K!Reports, Stages
    <2>3. /\ at' = [at EXCEPT ![w] = "replay"] /\ report' = [report EXCEPT ![w] = "none"]
          /\ run' = [run EXCEPT ![w] = run[w]] /\ db' = db
      BY <1>7, RunHeld DEF K!GoOn
    <2>4. "replay" # "replace"
      OBVIOUS
    <2>5. QED
      BY <1>1, <1>5, <2>1, <2>2, <2>3, <2>4, RunMoves
  <1>8. CASE /\ K!Digest(db) = K!Digest(K!ReceiptOf(w).state)
             /\ K!Preflight(db, run[w].plan) = "go"
             /\ db' = K!Audited(K!Written(db, run[w].plan), run[w].plan, run[w].receipt)
             /\ \E x : run' = [run EXCEPT ![w] = x]
             /\ K!GoOn(w, "verify")
    <2>1. CatalogFile(db') /\ Accounted(db', plans, receipts')
      BY <1>1, <1>2, <1>3, <1>4, <1>5, <1>8, AuditedSound
    <2>2. PICK x : run' = [run EXCEPT ![w] = x]
      BY <1>8
    <2>3. RunSound("verify", x, plans, receipts')
      BY DEF RunSound, Restoring
    <2>4. Told("verify", "none", w \in swapped') /\ "none" \in K!Reports /\ "verify" \in Stages
      BY <1>1, <1>2 DEF Told, K!Reports, Stages
    <2>5. at' = [at EXCEPT ![w] = "verify"] /\ report' = [report EXCEPT ![w] = "none"]
      BY <1>8 DEF K!GoOn
    <2>6. "verify" # "replace"
      OBVIOUS
    <2>7. QED
      BY <1>1, <1>5, <2>1, <2>2, <2>3, <2>4, <2>5, <2>6, RunMoves
  <1>9. QED
    BY <1>6, <1>7, <1>8 DEF K!Commit

(* A run that starts a rollback knows the backup of the apply that it undoes.       *)
LEMMA ActiveSound ==
    ASSUME KnowledgeInv, NEW r \in receipts, NEW q, K!RollbackPreflight(r, q)
    PROVE  RunSound("stage", [plan |-> q.plan, receipt |-> r.id, active |-> db], plans, receipts)
  <1>1. PICK a \in db.applied : /\ K!Prior(db, q.plan) = {a}
                                /\ [receipt |-> a.receipt, digest |-> q.database] \in db.stamps
    BY DEF K!RollbackPreflight
  <1>2. K!Digest(db) = q.database
    BY DEF K!RollbackPreflight
  <1>3. CatalogFile(db) /\ Accounted(db, plans, receipts) /\ ReceiptsSound(plans, receipts)
    BY DEF KnowledgeInv
  <1>4. a.plan = q.plan
    BY <1>1 DEF K!Prior
  <1>5. PICK rc \in receipts : rc.id = a.receipt /\ rc.plan = a.plan /\ K!Prior(rc.state, a.plan) = {}
    BY <1>3 DEF Accounted, Receipted
  <1>6. PICK s \in db.stamps : s.receipt = a.receipt /\ s.digest = q.database
    BY <1>1
  <1>7. PICK other \in receipts : other.id = s.receipt /\ s.digest.log = other.state.log
    BY <1>3 DEF Accounted, Stamped
  <1>8. other = rc
    BY <1>3, <1>5, <1>6, <1>7 DEF ReceiptsSound
  <1>9. rc.state.log = db.log
    BY <1>2, <1>3, <1>6, <1>7, <1>8, DigestLog
  <1>10. \A b \in db.applied : b.plan = q.plan => b = a
    BY <1>1 DEF K!Prior
  <1>11. QED
    BY <1>4, <1>5, <1>9, <1>10 DEF RunSound

LEMMA StartRollbackKeeps ==
    ASSUME KnowledgeInv, NEW w \in Runners, NEW r \in receipts, NEW q, K!StartRollback(w, r, q), K!Unseen
    PROVE  KnowledgeInv'
  <1>1. at[w] = "idle" /\ UNCHANGED K!disk /\ swapped' = swapped \ {w} /\ w \notin swapped'
    BY DEF K!StartRollback
  <1>2. CASE /\ K!RollbackPreflight(r, q) /\ K!GoOn(w, "stage")
             /\ run' = [run EXCEPT ![w] = [plan |-> q.plan, receipt |-> r.id, active |-> db]]
    <2>1. RunSound("stage", [plan |-> q.plan, receipt |-> r.id, active |-> db], plans, receipts')
      BY <1>1, <1>2, ActiveSound, DiskSame
    <2>2. Told("stage", "none", w \in swapped') /\ "none" \in K!Reports /\ "stage" \in Stages
      BY <1>1 DEF Told, K!Reports, Stages
    <2>3. at' = [at EXCEPT ![w] = "stage"] /\ report' = [report EXCEPT ![w] = "none"]
      BY <1>2 DEF K!GoOn
    <2>4. "stage" # "replace"
      OBVIOUS
    <2>5. QED
      BY <1>1, <1>2, <2>1, <2>2, <2>3, <2>4, DiskSame, RunMoves
  <1>3. CASE K!End(w, "failed")
    <2>1. RunSound("idle", K!Nothing, plans, receipts')
      BY DEF RunSound, Restoring
    <2>2. Told("idle", "failed", w \in swapped') /\ "failed" \in K!Reports /\ "idle" \in Stages
      BY <1>1 DEF Told, K!Reports, Stages
    <2>3. /\ at' = [at EXCEPT ![w] = "idle"] /\ run' = [run EXCEPT ![w] = K!Nothing]
          /\ report' = [report EXCEPT ![w] = "failed"]
      BY <1>3 DEF K!End
    <2>4. QED
      BY <1>1, <2>1, <2>2, <2>3, DiskSame, RunMoves
  <1>4. QED
    BY <1>2, <1>3 DEF K!StartRollback

(* The backup with the record of the rollback.                                   *)
LEMMA CandidateSound ==
    ASSUME KnowledgeInv, NEW w \in Runners, NEW rc \in receipts, rc.id = run[w].receipt
    PROVE  /\ CatalogFile(K!Candidate(w)) /\ Accounted(K!Candidate(w), plans, receipts)
           /\ K!Candidate(w).log = rc.state.log /\ K!Candidate(w).applied = rc.state.applied
           /\ run[w].receipt \in K!Candidate(w).undone
  <1>1. K!Candidate(w) = [rc.state EXCEPT !.undone = @ \cup {run[w].receipt}]
    BY ReceiptFound DEF K!Candidate
  <1>2. CatalogFile(rc.state) /\ Accounted(rc.state, plans, receipts)
    BY DEF KnowledgeInv, ReceiptsSound
  <1>3. run[w].receipt \in 1..MaxBackups
    <2>1. /\ IsFiniteSet(receipts) /\ Cardinality(receipts) <= MaxBackups
          /\ rc.id \in 1..Cardinality(receipts)
      BY DEF KnowledgeInv, ReceiptsSound
    <2>2. Cardinality(receipts) \in Nat
      BY <2>1, FS_CardinalityType
    <2>3. QED
      BY <2>1, <2>2, KnowledgeConstants
  <1>4. PICK d : d = rc.state
    OBVIOUS
  <1>5. PICK c : c = K!Candidate(w)
    OBVIOUS
  <1>6. c = [objects |-> d.objects, relations |-> d.relations, owner |-> d.owner, log |-> d.log,
             applied |-> d.applied, undone |-> d.undone \cup {run[w].receipt}, stamps |-> d.stamps]
    BY <1>1, <1>2, <1>4, <1>5 DEF CatalogFile
  <1>7. CatalogFile(c)
    BY <1>2, <1>3, <1>4, <1>6 DEF CatalogFile
  <1>8. Accounted(c, plans, receipts)
    BY <1>2, <1>4, <1>6 DEF Accounted
  <1>9. QED
    BY <1>4, <1>5, <1>6, <1>7, <1>8

LEMMA ReplaceKeeps == ASSUME KnowledgeInv, NEW w \in Runners, K!Replace(w), K!Unseen PROVE KnowledgeInv'
  <1>1. /\ at[w] = "replace" /\ plans' = plans /\ receipts' = receipts /\ writes' = writes
        /\ db' = K!Candidate(w) /\ swapped' = swapped \cup {w} /\ w \in swapped'
    BY DEF K!Replace
  <1>2. RunSound("replace", run[w], plans, receipts)
    BY <1>1, NowTold
  <1>3. PICK rc \in receipts : rc.id = run[w].receipt
    BY <1>2 DEF RunSound, Restoring
  <1>4. CatalogFile(db') /\ Accounted(db', plans, receipts') /\ ReceiptsSound(plans, receipts')
    BY <1>1, <1>3, CandidateSound DEF KnowledgeInv
  <1>5. CASE K!GoOn(w, "readback") /\ UNCHANGED run
    <2>1. RunSound("readback", run[w], plans, receipts')
      BY <1>1, <1>2 DEF RunSound, Restoring
    <2>2. Told("readback", "none", w \in swapped') /\ "none" \in K!Reports /\ "readback" \in Stages
      BY <1>1 DEF Told, K!Reports, Stages
    <2>3. /\ at' = [at EXCEPT ![w] = "readback"] /\ report' = [report EXCEPT ![w] = "none"]
          /\ run' = [run EXCEPT ![w] = run[w]]
      BY <1>5, RunHeld DEF K!GoOn
    <2>4. "readback" # "replace"
      OBVIOUS
    <2>5. QED
      BY <1>1, <1>4, <2>1, <2>2, <2>3, <2>4, RunMoves
  <1>6. CASE K!End(w, "failed after replacement")
    <2>1. RunSound("idle", K!Nothing, plans, receipts')
      BY DEF RunSound, Restoring
    <2>2. /\ Told("idle", "failed after replacement", w \in swapped')
          /\ "failed after replacement" \in K!Reports /\ "idle" \in Stages
      BY <1>1 DEF Told, K!Reports, Stages
    <2>3. /\ at' = [at EXCEPT ![w] = "idle"] /\ run' = [run EXCEPT ![w] = K!Nothing]
          /\ report' = [report EXCEPT ![w] = "failed after replacement"]
      BY <1>6 DEF K!End
    <2>4. QED
      BY <1>1, <1>4, <2>1, <2>2, <2>3, RunMoves
  <1>7. QED
    BY <1>5, <1>6 DEF K!Replace

(* Reviews and writes of others leave the runs alone.                             *)
LEMMA RunsRest ==
    ASSUME KnowledgeInv, UNCHANGED <<receipts, at, run, report, swapped>>, plans \subseteq plans',
           PlansSound(plans'), CatalogFile(db'), Accounted(db', plans, receipts), writes' \in 0..MaxWrites,
           K!Unseen
    PROVE  KnowledgeInv'
  <1>1. ReceiptsSound(plans', receipts')
    <2>1. ReceiptsSound(plans, receipts) /\ receipts' = receipts
      BY DEF KnowledgeInv
    <2>2. \A rc \in receipts : Accounted(rc.state, plans', receipts) /\ rc.plan \in plans'
      BY <2>1, AccountedGrows DEF ReceiptsSound
    <2>3. QED
      BY <2>1, <2>2 DEF ReceiptsSound
  <1>2. Accounted(db', plans', receipts')
    BY AccountedGrows
  <1>3. \A v \in Runners : RunSound(at'[v], run'[v], plans', receipts') /\ Told(at'[v], report'[v], v \in swapped')
    BY RunSoundGrows DEF KnowledgeInv
  <1>4. /\ raced' \in [Runners -> SUBSET (1..MaxWrites)]
        /\ \A v \in Runners : at'[v] = "replace" => db'.log \subseteq run'[v].active.log \cup raced'[v]
    BY UnseenKeeps
  <1>5. /\ at' \in [Runners -> Stages] /\ report' \in [Runners -> K!Reports]
        /\ run' = [v \in Runners |-> run'[v]] /\ swapped' \subseteq Runners
    BY DEF KnowledgeInv
  <1>6. QED
    BY <1>1, <1>2, <1>3, <1>4, <1>5 DEF KnowledgeInv

LEMMA ReviewKeeps == ASSUME KnowledgeInv, NEW m \in Plannable, K!Review(m), K!Unseen PROVE KnowledgeInv'
  <1>1. PICK p : p = K!PlanFor(m, db)
    OBVIOUS
  <1>2. /\ K!ApplyReady(p) /\ plans' = plans \cup {p}
        /\ UNCHANGED <<db, receipts, at, run, report, swapped, writes>>
    BY <1>1 DEF K!Review
  <1>3. p.manifest = m
    BY <1>1 DEF K!PlanFor
  <1>4. PlansSound(plans')
    BY <1>2, <1>3 DEF PlansSound, KnowledgeInv
  <1>5. CatalogFile(db') /\ Accounted(db', plans, receipts) /\ writes' \in 0..MaxWrites
    BY <1>2 DEF KnowledgeInv
  <1>6. QED
    BY <1>2, <1>4, <1>5, RunsRest

LEMMA OtherWriteKeeps ==
    ASSUME KnowledgeInv, NEW d, CatalogFile(d), d.applied = db.applied, d.stamps = db.stamps, K!OtherWrite(d), K!Unseen
    PROVE  KnowledgeInv'
  <1>1. /\ writes' = writes + 1 /\ writes < MaxWrites /\ db' = [d EXCEPT !.log = @ \cup {writes'}]
        /\ UNCHANGED <<plans, receipts, at, run, report, swapped>>
    BY DEF K!OtherWrite
  <1>2. writes' \in 1..MaxWrites /\ writes' \in 0..MaxWrites
    BY <1>1, KnowledgeConstants DEF KnowledgeInv
  <1>3. db' = [objects |-> d.objects, relations |-> d.relations, owner |-> d.owner, log |-> d.log \cup {writes'},
               applied |-> d.applied, undone |-> d.undone, stamps |-> d.stamps]
    BY <1>1 DEF CatalogFile
  <1>4. CatalogFile(db') /\ db'.applied = db.applied /\ db'.stamps = db.stamps
    BY <1>2, <1>3 DEF CatalogFile
  <1>5. Accounted(db', plans, receipts)
    BY <1>4 DEF Accounted, KnowledgeInv
  <1>6. PlansSound(plans') /\ plans \subseteq plans'
    BY <1>1 DEF KnowledgeInv
  <1>7. QED
    BY <1>1, <1>2, <1>4, <1>5, <1>6, RunsRest

LEMMA EditKeeps == ASSUME KnowledgeInv, NEW r \in Refs, K!Edit(r), K!Unseen PROVE KnowledgeInv'
  <1>1. db.objects[r] # Nobody /\ K!OtherWrite([db EXCEPT !.objects[r].revision = @ + 1])
    BY DEF K!Edit
  <1>2. CatalogFile(db)
    BY DEF KnowledgeInv
  <1>3. PICK d : d = [db EXCEPT !.objects[r].revision = @ + 1]
    OBVIOUS
  <1>4. PICK os : os = [db.objects EXCEPT ![r].revision = @ + 1]
    OBVIOUS
  <1>5. d = [objects |-> os, relations |-> db.relations, owner |-> db.owner, log |-> db.log,
             applied |-> db.applied, undone |-> db.undone, stamps |-> db.stamps]
    BY <1>2, <1>3, <1>4 DEF CatalogFile
  <1>6. os \in [Refs -> K!ObjectStates \cup {Nobody}]
    <2>1. db.objects \in [Refs -> K!ObjectStates \cup {Nobody}] /\ db.objects[r] \in K!ObjectStates
      BY <1>1, <1>2 DEF CatalogFile
    <2>2. [db.objects[r] EXCEPT !.revision = @ + 1] \in K!ObjectStates
      BY <2>1 DEF K!ObjectStates
    <2>3. os = [db.objects EXCEPT ![r] = [db.objects[r] EXCEPT !.revision = @ + 1]]
      BY <1>4
    <2>4. QED
      BY <2>1, <2>2, <2>3
  <1>7. CatalogFile(d) /\ d.applied = db.applied /\ d.stamps = db.stamps
    BY <1>2, <1>5, <1>6 DEF CatalogFile
  <1>8. QED
    BY <1>1, <1>3, <1>7, OtherWriteKeeps

LEMMA DemoteKeeps == ASSUME KnowledgeInv, K!Demote, K!Unseen PROVE KnowledgeInv'
  <1>1. K!OtherWrite([db EXCEPT !.owner = FALSE])
    BY DEF K!Demote
  <1>2. CatalogFile(db)
    BY DEF KnowledgeInv
  <1>3. PICK d : d = [db EXCEPT !.owner = FALSE]
    OBVIOUS
  <1>4. d = [objects |-> db.objects, relations |-> db.relations, owner |-> FALSE, log |-> db.log,
             applied |-> db.applied, undone |-> db.undone, stamps |-> db.stamps]
    BY <1>2, <1>3 DEF CatalogFile
  <1>5. CatalogFile(d) /\ d.applied = db.applied /\ d.stamps = db.stamps
    BY <1>2, <1>4 DEF CatalogFile
  <1>6. QED
    BY <1>1, <1>3, <1>5, OtherWriteKeeps

LEMMA KnowledgeStarts == K!Init => KnowledgeInv
  <1> SUFFICES ASSUME K!Init PROVE KnowledgeInv
    OBVIOUS
  <1>1. PICK objects \in [Refs -> {Nobody} \cup [revision: {1}, value: Values]] :
            db = [objects |-> objects, relations |-> {}, owner |-> TRUE,
                  log |-> {}, applied |-> {}, undone |-> {}, stamps |-> {}]
    BY DEF K!Init
  <1>2. objects \in [Refs -> K!ObjectStates \cup {Nobody}]
    BY <1>1 DEF K!ObjectStates
  <1>3. CatalogFile(db) /\ db.applied = {} /\ db.stamps = {} /\ db.log = {}
    BY <1>1, <1>2 DEF CatalogFile
  <1>4. /\ plans = {} /\ receipts = {} /\ at = [w \in Runners |-> "idle"] /\ run = [w \in Runners |-> K!Nothing]
        /\ report = [w \in Runners |-> "none"] /\ swapped = {} /\ raced = [w \in Runners |-> {}] /\ writes = 0
    BY DEF K!Init
  <1>5. Accounted(db, plans, receipts) /\ PlansSound(plans)
    BY <1>3, <1>4 DEF Accounted, PlansSound
  <1>6. ReceiptsSound(plans, receipts)
    BY <1>4, FS_EmptySet, KnowledgeConstants DEF ReceiptsSound
  <1>7. \A w \in Runners : at[w] = "idle" /\ run[w] = K!Nothing /\ report[w] = "none" /\ w \notin swapped
    BY <1>4
  <1>8. \A w \in Runners : RunSound(at[w], run[w], plans, receipts)
    BY <1>7 DEF RunSound, Restoring
  <1>9. \A w \in Runners : Told(at[w], report[w], w \in swapped)
    BY <1>7 DEF Told
  <1>10. at \in [Runners -> Stages] /\ report \in [Runners -> K!Reports] /\ run = [w \in Runners |-> run[w]]
    BY <1>4 DEF Stages, K!Reports
  <1>11. /\ raced \in [Runners -> SUBSET (1..MaxWrites)] /\ writes \in 0..MaxWrites /\ swapped \subseteq Runners
    BY <1>4, KnowledgeConstants
  <1>12. \A w \in Runners : at[w] # "replace"
    BY <1>7
  <1>13. QED
    BY <1>3, <1>5, <1>6, <1>8, <1>9, <1>10, <1>11, <1>12 DEF KnowledgeInv

LEMMA StepKeeps == ASSUME KnowledgeInv, NEW w \in Runners, K!Step(w), K!Unseen PROVE KnowledgeInv'
  <1>1. CASE \E p \in plans : K!StartApply(w, p)
    BY <1>1, StartApplyKeeps
  <1>2. CASE \E r \in receipts, q \in results : K!StartRollback(w, r, q)
    BY <1>2, StartRollbackKeeps
  <1>3. CASE K!Backup(w) \/ K!Commit(w) \/ K!Verify(w) \/ K!Replay(w)
    BY <1>3, BackupKeeps, CommitKeeps, VerifyKeeps, ReplayKeeps
  <1>4. CASE K!Stage(w) \/ K!Recheck(w) \/ K!Replace(w) \/ K!ReadBack(w)
    BY <1>4, StageKeeps, RecheckKeeps, ReplaceKeeps, ReadBackKeeps
  <1>5. CASE K!Crash(w) \/ K!Fail(w) \/ K!FailAfterReplacement(w)
    BY <1>5, CrashKeeps, FailKeeps, FailAfterReplacementKeeps
  <1>6. QED
    BY <1>1, <1>2, <1>3, <1>4, <1>5 DEF K!Step

LEMMA KnowledgeRests == ASSUME KnowledgeInv, UNCHANGED knowledgeVars PROVE KnowledgeInv'
  <1>1. /\ db' = db /\ plans' = plans /\ receipts' = receipts /\ at' = at /\ run' = run /\ report' = report
        /\ swapped' = swapped /\ raced' = raced /\ writes' = writes
    BY DEF knowledgeVars
  <1>2. QED
    BY <1>1 DEF KnowledgeInv

LEMMA KnowledgeStep == KnowledgeInv /\ [K!Next]_knowledgeVars => KnowledgeInv'
  <1> SUFFICES ASSUME KnowledgeInv, [K!Next]_knowledgeVars PROVE KnowledgeInv'
    OBVIOUS
  <1>1. CASE UNCHANGED knowledgeVars
    BY <1>1, KnowledgeRests
  <1>2. CASE K!Next
    <2>1. K!Unseen
      BY <1>2 DEF K!Next
    <2>2. CASE \E m \in Plannable : K!Review(m)
      BY <2>1, <2>2, ReviewKeeps
    <2>3. CASE \E r \in Refs : K!Edit(r)
      BY <2>1, <2>3, EditKeeps
    <2>4. CASE K!Demote
      BY <2>1, <2>4, DemoteKeeps
    <2>5. CASE \E w \in Runners : K!Step(w)
      BY <2>1, <2>5, StepKeeps
    <2>6. QED
      BY <1>2, <2>2, <2>3, <2>4, <2>5 DEF K!Next
  <1>3. QED
    BY <1>1, <1>2

LEMMA KnowledgeSafe ==
    KnowledgeInv => /\ K!TypeOK /\ K!EntriesAppliedOnce /\ K!ReportsTellReplacement
                    /\ K!RefusedForDoubleCountsOnly
  <1> SUFFICES ASSUME KnowledgeInv
               PROVE  /\ K!TypeOK /\ K!EntriesAppliedOnce /\ K!ReportsTellReplacement
                      /\ K!RefusedForDoubleCountsOnly
    OBVIOUS
  <1>1. /\ CatalogFile(db) /\ Accounted(db, plans, receipts) /\ PlansSound(plans)
        /\ ReceiptsSound(plans, receipts)
    BY DEF KnowledgeInv
  <1>2. K!TypeOK
    <2>1. \A r \in Refs : db.objects[r] \in K!ObjectStates \cup {Nobody}
      BY <1>1 DEF CatalogFile
    <2>2. \A rc \in receipts : rc.id \in 1..MaxBackups /\ rc.plan \in plans
      <3>1. IsFiniteSet(receipts) /\ Cardinality(receipts) <= MaxBackups
        BY <1>1 DEF ReceiptsSound
      <3>2. Cardinality(receipts) \in Nat
        BY <3>1, FS_CardinalityType
      <3>3. QED
        BY <1>1, <3>1, <3>2, KnowledgeConstants DEF ReceiptsSound
    <2>3. \A a \in db.applied : a.plan \in plans /\ a.receipt \in 1..MaxBackups
      BY <1>1, <2>2 DEF Accounted, Receipted
    <2>4. /\ db.relations \subseteq K!Relations /\ db.owner \in BOOLEAN /\ db.log \subseteq 1..MaxWrites
          /\ \A u \in db.undone : u \in 1..MaxBackups
      BY <1>1 DEF CatalogFile
    <2>5. QED
      BY <2>1, <2>2, <2>3, <2>4 DEF K!TypeOK, KnowledgeInv, Stages
  <1>3. K!EntriesAppliedOnce
    BY <1>1 DEF Accounted, K!EntriesAppliedOnce
  <1>4. K!ReportsTellReplacement
    BY DEF KnowledgeInv, Told, K!ReportsTellReplacement
  <1>5. K!RefusedForDoubleCountsOnly
    <2>1. SUFFICES ASSUME NEW w \in Runners, at[w] = "commit", K!AsPlanned(db, run[w].plan),
                          ~K!DeltasAsPlanned(db, run[w].plan)
                   PROVE  \E t, u \in K!Targets(run[w].plan.manifest) :
                              t # u /\ K!NewRelations(run[w].plan, t) \cap K!NewRelations(run[w].plan, u) # {}
      BY DEF K!RefusedForDoubleCountsOnly
    <2>2. run[w].plan \in plans
      BY <2>1, NowTold DEF RunSound
    <2>3. run[w].plan.manifest \in Plannable /\ K!ApplyReady(run[w].plan)
      BY <1>1, <2>2 DEF PlansSound
    <2>4. QED
      BY <1>1, <2>1, <2>3, DeltasFollowPlan
  <1>6. QED
    BY <1>2, <1>3, <1>4, <1>5

(* Only the rename puts a run among those that have replaced the file.             *)
LEMMA OnlyReplaceSwaps ==
    ASSUME KnowledgeInv, K!Next, NEW w \in Runners, w \in swapped', w \notin swapped
    PROVE  K!Replace(w)
  <1>1. CASE \E m \in Plannable : K!Review(m)
    BY <1>1 DEF K!Review
  <1>2. CASE (\E r \in Refs : K!Edit(r)) \/ K!Demote
    BY <1>2 DEF K!Edit, K!Demote, K!OtherWrite
  <1>3. CASE \E v \in Runners : K!Step(v)
    <2>1. PICK v \in Runners : K!Step(v)
      BY <1>3
    <2>2. CASE (\E p \in plans : K!StartApply(v, p)) \/ (\E r \in receipts, q \in results : K!StartRollback(v, r, q))
      BY <2>2 DEF K!StartApply, K!StartRollback
    <2>3. CASE K!Backup(v) \/ K!Commit(v) \/ K!Verify(v) \/ K!Replay(v)
      BY <2>3 DEF K!Backup, K!Commit, K!Verify, K!Replay
    <2>4. CASE K!Stage(v) \/ K!Recheck(v) \/ K!ReadBack(v)
      BY <2>4 DEF K!Stage, K!Recheck, K!ReadBack
    <2>5. CASE K!Crash(v) \/ K!Fail(v) \/ K!FailAfterReplacement(v)
      BY <2>5 DEF K!Crash, K!Fail, K!FailAfterReplacement
    <2>6. CASE K!Replace(v)
      <3>1. swapped' = swapped \cup {v}
        BY <2>6 DEF K!Replace
      <3>2. QED
        BY <3>1, <2>6
    <2>7. QED
      BY <2>1, <2>2, <2>3, <2>4, <2>5, <2>6 DEF K!Step
  <1>4. QED
    BY <1>1, <1>2, <1>3 DEF K!Next

LEMMA RollbackUndoes == KnowledgeInv /\ K!Next => K!RollbackUndoesItsApplyOnly
  <1> SUFFICES ASSUME KnowledgeInv, K!Next, NEW w \in Runners, K!Replaces(w)
               PROVE  /\ run[w].receipt \in db'.undone
                      /\ K!Paired(w) => K!Prior(db', run[w].plan) = {} /\ db.log \ db'.log \subseteq raced[w]
    BY DEF K!RollbackUndoesItsApplyOnly
  <1>1. at[w] = "replace" /\ w \in swapped'
    BY DEF K!Replaces
  <1>2. w \notin swapped /\ RunSound("replace", run[w], plans, receipts)
    BY <1>1, NowTold DEF Told
  <1>3. K!Replace(w)
    BY <1>1, <1>2, OnlyReplaceSwaps
  <1>4. db' = K!Candidate(w)
    BY <1>3 DEF K!Replace
  <1>5. PICK rc \in receipts : rc.id = run[w].receipt
    BY <1>2 DEF RunSound, Restoring
  <1>6. db'.log = rc.state.log /\ db'.applied = rc.state.applied /\ run[w].receipt \in db'.undone
    BY <1>4, <1>5, CandidateSound
  <1>7. ASSUME K!Paired(w)
        PROVE  K!Prior(db', run[w].plan) = {} /\ db.log \ db'.log \subseteq raced[w]
    <2>1. PICK a \in run[w].active.applied : a.receipt = run[w].receipt /\ a.plan = run[w].plan
      BY <1>7 DEF K!Paired
    <2>2. PICK other \in receipts : /\ other.id = a.receipt /\ K!Prior(other.state, run[w].plan) = {}
                                    /\ other.state.log = run[w].active.log
      BY <1>2, <2>1 DEF RunSound, Restoring
    <2>3. other = rc
      BY <1>5, <2>1, <2>2 DEF KnowledgeInv, ReceiptsSound
    <2>4. K!Prior(db', run[w].plan) = {}
      BY <1>6, <2>2, <2>3 DEF K!Prior
    <2>5. db.log \subseteq run[w].active.log \cup raced[w]
      BY <1>1 DEF KnowledgeInv
    <2>6. QED
      BY <1>6, <2>2, <2>3, <2>4, <2>5
  <1>8. QED
    BY <1>6, <1>7

-----------------------------------------------------------------------------
(* Source coverage.                                                            *)

(* What snapshots, collectors, plans and listings hold.                             *)
RowSound(e) ==
    /\ DOMAIN e = {"fp", "intent", "presence", "maps"} /\ e.presence \in {"present", "absent"}
    /\ \A m \in e.maps : m.object \in Things /\ m.role \in {"primary", "derived"}
EntriesSound(entries) == DOMAIN entries \subseteq Keys /\ \A k \in DOMAIN entries : RowSound(entries[k])
SnapshotSound(s) == s.at \in 1..MaxTime /\ EntriesSound(s.entries)
PlanSound(p) == p.manifest \in Collected /\ p.at \in 1..MaxTime

ViewSound(view) ==
    /\ \A d \in view : d.key \in Keys
    /\ \A d, e \in view : d.key = e.key => d = e

(* A listing has shown its view up to the key that its cursor names.                *)
ListingSound(l) ==
    /\ l = [policy |-> l.policy, view |-> l.view, sourceOnly |-> l.sourceOnly,
            shown |-> l.shown, position |-> l.position, done |-> l.done]
    /\ ViewSound(l.view)
    /\ l.position \in Keys \cup {0}
    /\ l.shown = {d \in l.view : d.key <= l.position}
    /\ l.done => l.shown = l.view

CoverageInv ==
    /\ \A s \in snapshots : SnapshotSound(s)
    /\ visible \subseteq Things /\ now \in 1..MaxTime
    /\ plan # Nobody => PlanSound(plan)

LEMMA CoverageConstants ==
    /\ Keys \subseteq Nat \ {0} /\ MaxTime \in Nat \ {0}
    /\ \A manifest \in Collected :
          /\ EntriesSound(manifest)
          /\ \A k \in DOMAIN manifest :
                /\ manifest[k].intent \in {"expect_object", "no_catalog_object"}
                /\ manifest[k].intent = "no_catalog_object" => manifest[k].maps = {}
  BY CoverageAssumption DEF Listings!ConstantsSound, Listings!Intents, Listings!Roles, EntriesSound, RowSound

(* Of some instants no later than a bound one is the latest.                         *)
LEMMA LatestInstant ==
    ASSUME NEW S \in SUBSET Nat, S # {}, NEW n \in Nat, \A i \in S : i <= n
    PROVE  \E i \in S : \A j \in S : j <= i
  <1> DEFINE T == {n - i : i \in S}
  <1>1. T \subseteq Nat /\ T # {}
    <2>1. \A i \in S : n - i \in Nat
      OBVIOUS
    <2>2. PICK i \in S : TRUE
      OBVIOUS
    <2>3. n - i \in T
      BY <2>2
    <2>4. T \subseteq Nat
      BY <2>1, Zenon
    <2>5. QED
      BY <2>3, <2>4, Zenon
  <1>2. PICK m \in T : \A j \in T : ~(<<j, m>> \in OpToRel(<, Nat))
    BY <1>1, NatLessThanWellFounded, WFMin
  <1>3. \A j \in T : ~(j < m)
    BY <1>1, <1>2 DEF OpToRel
  <1>4. PICK i \in S : m = n - i
    OBVIOUS
  <1>5. \A j \in S : n - j \in T
    OBVIOUS
  <1> HIDE DEF T
  <1>6. \A j \in S : ~(n - j < n - i)
    BY <1>3, <1>4, <1>5
  <1>7. QED
    BY <1>6

(* A step of a page.                                                              *)
LEMMA FirstOfRest ==
    ASSUME NEW view, ViewSound(view), NEW rest \in SUBSET view, rest # {}
    PROVE  \E d \in rest : {e \in rest : \A x \in rest : e.key <= x.key} = {d}
  <1> DEFINE T == {d.key : d \in rest}
  <1>1. T \subseteq Nat /\ T # {}
    <2>1. \A d \in rest : d.key \in Nat
      BY CoverageConstants DEF ViewSound
    <2>2. PICK d \in rest : TRUE
      OBVIOUS
    <2>3. d.key \in T
      BY <2>2
    <2>4. T \subseteq Nat
      BY <2>1, Zenon
    <2>5. QED
      BY <2>3, <2>4, Zenon
  <1>2. PICK m \in T : \A j \in T : ~(<<j, m>> \in OpToRel(<, Nat))
    BY <1>1, NatLessThanWellFounded, WFMin
  <1>3. \A j \in T : ~(j < m)
    BY <1>1, <1>2 DEF OpToRel
  <1>4. PICK d \in rest : m = d.key
    OBVIOUS
  <1>5. \A e \in rest : e.key \in T
    OBVIOUS
  <1> HIDE DEF T
  <1>6. \A e \in rest : d.key <= e.key /\ e.key \in Nat
    BY <1>1, <1>3, <1>4, <1>5
  <1>7. \A e \in rest : (\A x \in rest : e.key <= x.key) => e.key = d.key
    BY <1>6
  <1>8. \A e \in rest : e.key = d.key => e = d
    BY DEF ViewSound
  <1>9. QED
    BY <1>6, <1>7, <1>8

LEMMA CursorMoves ==
    ASSUME NEW view, NEW c,
           c = [policy |-> c.policy, view |-> view, sourceOnly |-> c.sourceOnly,
                shown |-> c.shown, position |-> c.position, done |-> c.done],
           NEW page, NEW to, NEW last
    PROVE  [c EXCEPT !.shown = @ \cup page, !.done = last, !.position = to] =
               [policy |-> c.policy, view |-> view, sourceOnly |-> c.sourceOnly,
                shown |-> c.shown \cup page, position |-> to, done |-> last]
  <1>1. PICK a : a = [c EXCEPT !.shown = @ \cup page]
    OBVIOUS
  <1>2. a = [policy |-> c.policy, view |-> view, sourceOnly |-> c.sourceOnly,
             shown |-> c.shown \cup page, position |-> c.position, done |-> c.done]
    BY <1>1
  <1>3. PICK b : b = [a EXCEPT !.done = last]
    OBVIOUS
  <1>4. b = [policy |-> c.policy, view |-> view, sourceOnly |-> c.sourceOnly,
             shown |-> c.shown \cup page, position |-> c.position, done |-> last]
    BY <1>2, <1>3
  <1>5. [b EXCEPT !.position = to] = [policy |-> c.policy, view |-> view, sourceOnly |-> c.sourceOnly,
             shown |-> c.shown \cup page, position |-> to, done |-> last]
    BY <1>4
  <1>6. QED
    BY <1>1, <1>3, <1>5

(* What of a view comes after a position, a page at a time.                          *)
LEMMA PageSound ==
    ASSUME NEW view, ViewSound(view), NEW c, NEW position \in Keys \cup {0},
           c = [policy |-> c.policy, view |-> view, sourceOnly |-> c.sourceOnly,
                shown |-> c.shown, position |-> c.position, done |-> c.done],
           c.shown = {d \in view : d.key <= position},
           Listings!Coverage(c.sourceOnly) = view
    PROVE  ListingSound(Listings!Page(c, position))
  <1>1. PICK rest : rest = {d \in view : d.key > position}
    OBVIOUS
  <1>2. PICK page : page = {d \in rest : \A e \in rest : d.key <= e.key}
    OBVIOUS
  <1>3. PICK to : to = IF page = {} THEN position ELSE (CHOOSE d \in page : TRUE).key
    OBVIOUS
  <1>4. PICK last \in BOOLEAN : last = (page = rest)
    OBVIOUS
  <1> DEFINE l == Listings!Page(c, position)
  <1>8. l = [c EXCEPT !.shown = @ \cup page, !.done = last, !.position = to]
    BY <1>1, <1>2, <1>3, <1>4 DEF Listings!Page
  <1> HIDE DEF l
  <1>5. /\ \A d \in view : d.key \in Nat /\ d.key \in Keys
        /\ position \in Nat /\ rest \subseteq view
    BY <1>1, CoverageConstants DEF ViewSound
  <1>6. /\ to \in Keys \cup {0} /\ page \subseteq rest
        /\ c.shown \cup page = {d \in view : d.key <= to}
    <2>1. CASE rest = {}
      <3>1. page = {} /\ to = position
        BY <2>1, <1>2, <1>3
      <3>2. QED
        BY <3>1
    <2>2. CASE rest # {}
      <3>1. PICK d \in rest : page = {d}
        <4>1. \E d \in rest : {e \in rest : \A x \in rest : e.key <= x.key} = {d}
          BY <2>2, <1>5, FirstOfRest
        <4>2. QED
          BY <4>1, <1>2
      <3>2. to = d.key
        BY <3>1, <1>3
      <3>3. \A e \in rest : d.key <= e.key
        BY <3>1, <1>2
      <3>4. \A e \in view : e.key <= d.key => e.key <= position \/ e = d
        <4> SUFFICES ASSUME NEW e \in view, e.key <= d.key, ~(e.key <= position) PROVE e = d
          OBVIOUS
        <4>1. e \in rest
          BY <1>1, <1>5
        <4>2. e.key = d.key
          BY <4>1, <3>3, <1>5
        <4>3. QED
          BY <4>2, <1>5 DEF ViewSound
      <3>5. d.key > position /\ d \in view
        BY <1>1
      <3>6. \A e \in view : e.key <= position => e.key <= d.key
        BY <3>5, <1>5
      <3>7. c.shown \cup {d} = {e \in view : e.key <= d.key}
        BY <3>4, <3>5, <3>6, <1>5
      <3>8. QED
        BY <3>1, <3>2, <3>7, <1>5
    <2>3. QED
      BY <2>1, <2>2
  <1>7. page = rest => c.shown \cup page = view
    BY <1>1, <1>5
  <1>9. l = [policy |-> c.policy, view |-> view, sourceOnly |-> c.sourceOnly,
             shown |-> c.shown \cup page, position |-> to, done |-> last]
    BY <1>8, CursorMoves
  <1>10. /\ l.policy = c.policy /\ l.view = view /\ l.sourceOnly = c.sourceOnly
         /\ l.shown = c.shown \cup page /\ l.position = to /\ l.done = last
    BY <1>9
  <1>11. ListingSound(l)
    BY <1>4, <1>6, <1>7, <1>9, <1>10 DEF ListingSound
  <1>12. QED
    BY <1>11 DEF l

LEMMA ListingsCurrentSound == ASSUME CoverageInv PROVE EntriesSound(Listings!Entries(Listings!Current))
  <1>1. CASE snapshots = {}
    <2>1. Listings!Entries(Listings!Current) = [k \in {} |-> Nobody]
      BY <1>1 DEF Listings!Current, Listings!NoSnapshot, Listings!Entries
    <2>2. QED
      BY <2>1 DEF EntriesSound
  <1>2. CASE snapshots # {}
    <2>1. PICK S : S = {s.at : s \in snapshots}
      OBVIOUS
    <2>2. S \in SUBSET Nat /\ S # {} /\ MaxTime \in Nat /\ \A i \in S : i <= MaxTime
      BY <1>2, <2>1, CoverageConstants DEF CoverageInv, SnapshotSound
    <2>3. PICK i \in S : \A j \in S : j <= i
      BY <2>2, LatestInstant
    <2>4. \E s \in snapshots : \A t \in snapshots : t.at <= s.at
      BY <2>1, <2>3
    <2>5. Listings!Current \in snapshots
      BY <1>2, <2>4 DEF Listings!Current
    <2>6. QED
      BY <2>5 DEF CoverageInv, SnapshotSound, Listings!Entries
  <1>3. QED
    BY <1>1, <1>2

LEMMA ListingsManifestSound ==
    ASSUME CoverageInv, NEW manifest \in Collected
    PROVE  EntriesSound(Listings!ManifestEntries(manifest, Listings!Current))
  <1>1. PICK old : old = Listings!Entries(Listings!Current)
    OBVIOUS
  <1>2. EntriesSound(old)
    BY <1>1, ListingsCurrentSound
  <1>3. EntriesSound(manifest)
    BY CoverageConstants
  <1>4. \A k \in DOMAIN old : RowSound([old[k] EXCEPT !.presence = "absent"])
    BY <1>2 DEF EntriesSound, RowSound
  <1>5. Listings!ManifestEntries(manifest, Listings!Current) =
          [k \in DOMAIN manifest \cup DOMAIN old |->
              IF k \in DOMAIN manifest THEN manifest[k] ELSE [old[k] EXCEPT !.presence = "absent"]]
    BY <1>1 DEF Listings!ManifestEntries
  <1>6. QED
    BY <1>2, <1>3, <1>4, <1>5 DEF EntriesSound

LEMMA ListingsRecordSound ==
    ASSUME CoverageInv, NEW collector, NEW instant \in 1..MaxTime, NEW entries, EntriesSound(entries),
           Listings!Record([collector |-> collector, at |-> instant, entries |-> entries])
    PROVE  \A s \in snapshots' : SnapshotSound(s)
  BY DEF Listings!Record, SnapshotSound, CoverageInv

(* Entries that agree on what is shown give one view.                                *)
LEMMA ViewSame ==
    ASSUME NEW entries, NEW cat, NEW other, NEW seen, NEW sourceOnly \in BOOLEAN,
           \A o \in seen : other[o] = cat[o],
           sourceOnly => \A k \in DOMAIN entries : \A m \in entries[k].maps :
                             other[m.object] = "gone" <=> cat[m.object] = "gone"
    PROVE  Listings!View(entries, other, seen, sourceOnly) = Listings!View(entries, cat, seen, sourceOnly)
  <1>1. PICK targets : targets = {o \in seen : cat[o] # "gone"}
    OBVIOUS
  <1>2. {o \in seen : other[o] # "gone"} = targets
    BY <1>1
  <1>3. \A k \in DOMAIN entries :
            Listings!Mapped(entries[k], other, seen, sourceOnly) = Listings!Mapped(entries[k], cat, seen, sourceOnly)
    <2> TAKE k \in DOMAIN entries
    <2>1. \A m \in entries[k].maps :
             (\/ m.object \in seen /\ other[m.object] # "gone"
              \/ sourceOnly /\ other[m.object] = "gone")
             <=> (\/ m.object \in seen /\ cat[m.object] # "gone"
                  \/ sourceOnly /\ cat[m.object] = "gone")
      OBVIOUS
    <2>2. QED
      BY <2>1 DEF Listings!Mapped, Listings!Gone
  <1>4. \A k \in DOMAIN entries :
            Listings!Listed(entries[k], other, seen, sourceOnly) <=> Listings!Listed(entries[k], cat, seen, sourceOnly)
    BY <1>3 DEF Listings!Listed
  <1>5. PICK shown : shown =
            [k \in {k \in DOMAIN entries : Listings!Listed(entries[k], cat, seen, sourceOnly)} |->
                     [entries[k] EXCEPT !.maps = Listings!Mapped(entries[k], cat, seen, sourceOnly)]]
    OBVIOUS
  <1>6. {k \in DOMAIN entries : Listings!Listed(entries[k], other, seen, sourceOnly)}
          = {k \in DOMAIN entries : Listings!Listed(entries[k], cat, seen, sourceOnly)}
    BY <1>4
  <1>7. [k \in {k \in DOMAIN entries : Listings!Listed(entries[k], other, seen, sourceOnly)} |->
                     [entries[k] EXCEPT !.maps = Listings!Mapped(entries[k], other, seen, sourceOnly)]] = shown
    BY <1>3, <1>5, <1>6
  <1>8. \A k \in DOMAIN shown : Listings!ResolveState(shown, k, other, targets) = Listings!ResolveState(shown, k, cat, targets)
    <2> TAKE k \in DOMAIN shown
    <2>1. CASE \E m \in shown[k].maps : m.object \notin targets
      BY <2>1 DEF Listings!ResolveState
    <2>2. CASE \A m \in shown[k].maps : m.object \in targets
      <3>1. \A m \in shown[k].maps : other[m.object] = cat[m.object]
        BY <2>2, <1>1
      <3>2. (\E m \in shown[k].maps : other[m.object] = "stale") <=> (\E m \in shown[k].maps : cat[m.object] = "stale")
        BY <3>1
      <3>3. QED
        BY <3>2 DEF Listings!ResolveState
    <2>3. QED
      BY <2>1, <2>2
  <1>9. \A k \in DOMAIN shown :
            {[object |-> m.object, role |-> m.role, changed |-> m.fp # shown[k].fp,
              kind |-> IF m.object \in targets THEN Listings!Kind(other[m.object]) ELSE Nobody] : m \in shown[k].maps}
          = {[object |-> m.object, role |-> m.role, changed |-> m.fp # shown[k].fp,
              kind |-> IF m.object \in targets THEN Listings!Kind(cat[m.object]) ELSE Nobody] : m \in shown[k].maps}
    <2> TAKE k \in DOMAIN shown
    <2> DEFINE kind(c, m) == IF m.object \in targets THEN Listings!Kind(c[m.object]) ELSE Nobody
               row(c, m) == [object |-> m.object, role |-> m.role, changed |-> m.fp # shown[k].fp, kind |-> kind(c, m)]
    <2>1. \A m : kind(other, m) = kind(cat, m)
      BY <1>1
    <2> HIDE DEF kind
    <2>2. \A m : row(other, m) = row(cat, m)
      BY <2>1, Zenon
    <2> HIDE DEF row
    <2>3. {row(other, m) : m \in shown[k].maps} = {row(cat, m) : m \in shown[k].maps}
      BY <2>2
    <2>4. QED
      BY <2>3, Zenon DEF row, kind
  <1>10. Listings!Resolved(shown, other, targets) = Listings!Resolved(shown, cat, targets)
    <2> DEFINE maps(c, k) ==
            {[object |-> m.object, role |-> m.role, changed |-> m.fp # shown[k].fp,
              kind |-> IF m.object \in targets THEN Listings!Kind(c[m.object]) ELSE Nobody] : m \in shown[k].maps}
    <2>1. \A k \in DOMAIN shown : maps(other, k) = maps(cat, k)
      BY <1>9
    <2> DEFINE row(c, k) ==
            [key |-> k, fp |-> shown[k].fp, intent |-> shown[k].intent, presence |-> shown[k].presence,
             state |-> Listings!ResolveState(shown, k, c, targets), maps |-> maps(c, k)]
    <2>2. \A c : Listings!Resolved(shown, c, targets) = {row(c, k) : k \in DOMAIN shown}
      BY Zenon DEF Listings!Resolved
    <2> HIDE DEF maps
    <2>3. \A k \in DOMAIN shown : row(other, k) = row(cat, k)
      BY <1>8, <2>1, Zenon
    <2> HIDE DEF row
    <2>4. {row(other, k) : k \in DOMAIN shown} = {row(cat, k) : k \in DOMAIN shown}
      BY <2>3
    <2>5. QED
      BY <2>2, <2>4
  <1>11. Listings!View(entries, cat, seen, sourceOnly) = Listings!Resolved(shown, cat, targets)
    BY <1>1, <1>5, Zenon DEF Listings!View, Listings!Gone
  <1>12. Listings!View(entries, other, seen, sourceOnly) = Listings!Resolved(shown, other, targets)
    BY <1>2, <1>7, Zenon DEF Listings!View, Listings!Gone
  <1>13. QED
    BY <1>10, <1>11, <1>12

CatalogStates == {"gone", "fresh", "stale"}

ListingInv ==
    /\ CoverageInv
    /\ catalog \in [Things -> CatalogStates]
    /\ listing # Nobody => ListingSound(listing)

(* A view has one row for each key that it shows.                                    *)
LEMMA ResolvedSound ==
    ASSUME NEW shown, DOMAIN shown \subseteq Keys, NEW cat, NEW targets
    PROVE  ViewSound(Listings!Resolved(shown, cat, targets))
  <1> DEFINE row(k) ==
          [key |-> k, fp |-> shown[k].fp, intent |-> shown[k].intent, presence |-> shown[k].presence,
           state |-> Listings!ResolveState(shown, k, cat, targets),
           maps |-> {[object |-> m.object, role |-> m.role, changed |-> m.fp # shown[k].fp,
                      kind |-> IF m.object \in targets THEN Listings!Kind(cat[m.object]) ELSE Nobody]
                         : m \in shown[k].maps}]
  <1>1. Listings!Resolved(shown, cat, targets) = {row(k) : k \in DOMAIN shown}
    BY Zenon DEF Listings!Resolved
  <1>2. \A k : row(k).key = k
    OBVIOUS
  <1> HIDE DEF row
  <1>3. QED
    BY <1>1, <1>2 DEF ViewSound

LEMMA CoverageViewSound == ASSUME CoverageInv, NEW sourceOnly PROVE ViewSound(Listings!Coverage(sourceOnly))
  <1>1. PICK entries : entries = Listings!Entries(Listings!Current)
    OBVIOUS
  <1>2. DOMAIN entries \subseteq Keys
    BY <1>1, ListingsCurrentSound DEF EntriesSound
  <1>3. PICK shown : shown =
            [k \in {k \in DOMAIN entries : Listings!Listed(entries[k], catalog, visible, sourceOnly)} |->
                     [entries[k] EXCEPT !.maps = Listings!Mapped(entries[k], catalog, visible, sourceOnly)]]
    OBVIOUS
  <1>4. DOMAIN shown \subseteq Keys
    BY <1>2, <1>3
  <1>5. Listings!Coverage(sourceOnly) =
            Listings!Resolved(shown, catalog, {o \in visible : catalog[o] # Listings!Gone})
    BY <1>1, <1>3, Zenon DEF Listings!Coverage, Listings!View
  <1>6. QED
    BY <1>4, <1>5, ResolvedSound

(* Mappings to concealed objects show in no ordinary view.                           *)
LEMMA UnmappedSame ==
    ASSUME NEW entries, NEW cat, NEW seen
    PROVE  LET unmapped == [k \in DOMAIN entries |->
                               [entries[k] EXCEPT !.maps = {m \in @ : m.object \in seen}]]
           IN  EntriesSound(entries) =>
                   Listings!View(unmapped, cat, seen, FALSE) = Listings!View(entries, cat, seen, FALSE)
  <1> DEFINE unmapped == [k \in DOMAIN entries |->
                             [entries[k] EXCEPT !.maps = {m \in @ : m.object \in seen}]]
             keys(es) == {k \in DOMAIN es : Listings!Listed(es[k], cat, seen, FALSE)}
             shown(es) == [k \in keys(es) |-> [es[k] EXCEPT !.maps = Listings!Mapped(es[k], cat, seen, FALSE)]]
  <1> SUFFICES ASSUME EntriesSound(entries)
               PROVE  Listings!View(unmapped, cat, seen, FALSE) = Listings!View(entries, cat, seen, FALSE)
    OBVIOUS
  <1>1. \A k \in DOMAIN entries : /\ unmapped[k].maps = {m \in entries[k].maps : m.object \in seen}
                                  /\ unmapped[k].presence = entries[k].presence
    BY DEF EntriesSound, RowSound
  <1>2. \A k \in DOMAIN entries :
            unmapped[k] = [entries[k] EXCEPT !.maps = {m \in entries[k].maps : m.object \in seen}]
    OBVIOUS
  <1>3. DOMAIN unmapped = DOMAIN entries
    OBVIOUS
  <1> HIDE DEF unmapped
  <1>4. \A k \in DOMAIN entries :
            Listings!Mapped(unmapped[k], cat, seen, FALSE) = Listings!Mapped(entries[k], cat, seen, FALSE)
    BY <1>1 DEF Listings!Mapped
  <1>5. \A k \in DOMAIN entries :
            Listings!Listed(unmapped[k], cat, seen, FALSE) <=> Listings!Listed(entries[k], cat, seen, FALSE)
    <2> TAKE k \in DOMAIN entries
    <2>1. PICK maps : maps = Listings!Mapped(entries[k], cat, seen, FALSE)
      OBVIOUS
    <2>2. Listings!Mapped(unmapped[k], cat, seen, FALSE) = maps
      BY <1>4, <2>1
    <2>3. maps # {} => entries[k].maps # {} /\ unmapped[k].maps # {}
      BY <2>1, <1>1 DEF Listings!Mapped
    <2>4. QED
      BY <2>1, <2>2, <2>3, <1>1 DEF Listings!Listed
  <1>6. keys(unmapped) = keys(entries)
    BY <1>3, <1>5
  <1>7. \A k \in keys(entries) :
            [unmapped[k] EXCEPT !.maps = Listings!Mapped(unmapped[k], cat, seen, FALSE)]
              = [entries[k] EXCEPT !.maps = Listings!Mapped(entries[k], cat, seen, FALSE)]
    <2> TAKE k \in keys(entries)
    <2>1. PICK maps : maps = Listings!Mapped(entries[k], cat, seen, FALSE)
      OBVIOUS
    <2>2. Listings!Mapped(unmapped[k], cat, seen, FALSE) = maps
      BY <1>4, <2>1
    <2>3. [[entries[k] EXCEPT !.maps = {m \in entries[k].maps : m.object \in seen}] EXCEPT !.maps = maps]
            = [entries[k] EXCEPT !.maps = maps]
      OBVIOUS
    <2>4. QED
      BY <2>1, <2>2, <2>3, <1>2
  <1>8. shown(unmapped) = shown(entries)
    BY <1>6, <1>7
  <1>9. \A es : Listings!View(es, cat, seen, FALSE) =
            Listings!Resolved(shown(es), cat, {o \in seen : cat[o] # Listings!Gone})
    BY Zenon DEF Listings!View
  <1> HIDE DEF shown
  <1>10. QED
    BY <1>8, <1>9

LEMMA ListingsSafe ==
    ListingInv => Listings!TypeOK /\ Listings!ConcealedChangesNothing /\ Listings!ListingsShowOneView
  <1> SUFFICES ASSUME ListingInv
               PROVE  Listings!TypeOK /\ Listings!ConcealedChangesNothing /\ Listings!ListingsShowOneView
    OBVIOUS
  <1>1. Listings!TypeOK
    <2>1. \A s \in snapshots : /\ s.at \in 1..MaxTime /\ DOMAIN s.entries \subseteq Keys
                               /\ \A k \in DOMAIN s.entries : Listings!EntryOK(s.entries[k])
      BY DEF ListingInv, CoverageInv, SnapshotSound, EntriesSound, RowSound, Listings!EntryOK, Listings!Roles
    <2>2. listing # Nobody => listing.position \in Keys \cup {0}
      BY DEF ListingInv, ListingSound
    <2>3. QED
      BY <2>1, <2>2 DEF Listings!TypeOK, ListingInv, CoverageInv, CatalogStates
  <1>2. Listings!ConcealedChangesNothing
    <2>1. PICK entries : entries = Listings!Entries(Listings!Current)
      OBVIOUS
    <2>2. EntriesSound(entries)
      BY <2>1, ListingsCurrentSound DEF ListingInv
    <2>3. \A sourceOnly : Listings!Coverage(sourceOnly) = Listings!View(entries, catalog, visible, sourceOnly)
      BY <2>1 DEF Listings!Coverage
    <2>4. ASSUME NEW other \in [Things -> CatalogStates], \A o \in visible : other[o] = catalog[o]
          PROVE  Listings!View(entries, other, visible, FALSE) = Listings!Coverage(FALSE)
      <3>1. \A o \in visible : other[o] = catalog[o]
        BY <2>4
      <3>2. QED
        BY <2>3, <3>1, ViewSame
    <2>5. ASSUME NEW other \in [Things -> CatalogStates], \A o \in visible : other[o] = catalog[o],
                 \A o \in Things \ visible : other[o] = "gone" <=> catalog[o] = "gone"
          PROVE  Listings!View(entries, other, visible, TRUE) = Listings!Coverage(TRUE)
      <3>1. \A o \in Things : other[o] = "gone" <=> catalog[o] = "gone"
        BY <2>5
      <3>2. \A k \in DOMAIN entries : \A m \in entries[k].maps : other[m.object] = "gone" <=> catalog[m.object] = "gone"
        BY <2>2, <3>1 DEF EntriesSound, RowSound
      <3>3. \A o \in visible : other[o] = catalog[o]
        BY <2>5
      <3>4. QED
        BY <2>3, <3>2, <3>3, ViewSame
    <2>6. Listings!View([k \in DOMAIN entries |-> [entries[k] EXCEPT !.maps = {m \in @ : m.object \in visible}]],
                        catalog, visible, FALSE) = Listings!Coverage(FALSE)
      BY <2>2, <2>3, UnmappedSame
    <2>7. QED
      BY <2>1, <2>4, <2>5, <2>6 DEF Listings!ConcealedChangesNothing, Listings!Gone, CatalogStates
  <1>3. Listings!ListingsShowOneView
    BY DEF ListingInv, ListingSound, Listings!ListingsShowOneView
  <1>4. QED
    BY <1>1, <1>2, <1>3

LEMMA ListingsStart == Listings!Init => ListingInv
  <1> SUFFICES ASSUME Listings!Init PROVE ListingInv
    OBVIOUS
  <1>1. /\ snapshots = {} /\ now = 1 /\ plan = Nobody /\ listing = Nobody
        /\ catalog \in [Things -> CatalogStates] /\ visible \subseteq Things
    BY DEF Listings!Init, CatalogStates
  <1>2. CoverageInv
    BY <1>1, CoverageConstants DEF CoverageInv
  <1>3. QED
    BY <1>1, <1>2 DEF ListingInv

LEMMA FirstPageKeeps == ASSUME ListingInv, Listings!FirstPage PROVE ListingInv'
  <1>1. PICK sourceOnly \in BOOLEAN :
            listing' = Listings!Page([policy |-> visible, view |-> Listings!Coverage(sourceOnly), sourceOnly |-> sourceOnly,
                                      shown |-> {}, position |-> 0, done |-> FALSE], 0)
    BY DEF Listings!FirstPage
  <1>2. UNCHANGED <<snapshots, catalog, visible, now, changes, markdown, plan>>
    BY DEF Listings!FirstPage
  <1>3. PICK view : view = Listings!Coverage(sourceOnly)
    OBVIOUS
  <1>4. ViewSound(view)
    BY <1>3, CoverageViewSound DEF ListingInv
  <1>5. PICK c : c = [policy |-> visible, view |-> view, sourceOnly |-> sourceOnly,
                      shown |-> {}, position |-> 0, done |-> FALSE]
    OBVIOUS
  <1>6. /\ c = [policy |-> c.policy, view |-> view, sourceOnly |-> c.sourceOnly,
                shown |-> c.shown, position |-> c.position, done |-> c.done]
        /\ c.shown = {} /\ c.sourceOnly = sourceOnly
    BY <1>5
  <1>7. c.shown = {d \in view : d.key <= 0}
    <2>1. \A d \in view : d.key \in Nat \ {0}
      BY <1>4, CoverageConstants DEF ViewSound
    <2>2. \A d \in view : ~(d.key <= 0)
      BY <2>1
    <2>3. QED
      BY <2>2, <1>6
  <1>8. ListingSound(Listings!Page(c, 0))
    BY <1>3, <1>4, <1>6, <1>7, PageSound
  <1>9. ListingSound(listing')
    BY <1>1, <1>3, <1>5, <1>8
  <1>10. CoverageInv' /\ catalog' \in [Things -> CatalogStates]
    BY <1>2 DEF ListingInv, CoverageInv
  <1>11. QED
    BY <1>9, <1>10 DEF ListingInv

LEMMA NextPageKeeps == ASSUME ListingInv, Listings!NextPage PROVE ListingInv'
  <1>1. /\ listing # Nobody
        /\ listing' = IF Listings!Bound(listing) THEN Listings!Page(listing, listing.position) ELSE Nobody
        /\ UNCHANGED <<snapshots, catalog, visible, now, changes, markdown, plan>>
    BY DEF Listings!NextPage
  <1>2. ListingSound(listing)
    BY <1>1 DEF ListingInv
  <1>3. CASE Listings!Bound(listing)
    <2>1. PICK view : view = listing.view
      OBVIOUS
    <2>2. Listings!Coverage(listing.sourceOnly) = view
      BY <1>3, <2>1 DEF Listings!Bound
    <2>3. /\ ViewSound(view) /\ listing.position \in Keys \cup {0}
          /\ listing = [policy |-> listing.policy, view |-> view, sourceOnly |-> listing.sourceOnly,
                        shown |-> listing.shown, position |-> listing.position, done |-> listing.done]
          /\ listing.shown = {d \in view : d.key <= listing.position}
      BY <1>2, <2>1 DEF ListingSound
    <2>4. ListingSound(Listings!Page(listing, listing.position))
      BY <2>2, <2>3, PageSound
    <2>5. QED
      BY <1>1, <1>3, <2>4 DEF ListingInv, CoverageInv
  <1>4. CASE ~Listings!Bound(listing)
    BY <1>1, <1>4 DEF ListingInv, CoverageInv
  <1>5. QED
    BY <1>3, <1>4

LEMMA ListingsRecordKeeps == ASSUME ListingInv, Listings!RecordManifest PROVE ListingInv'
  <1>1. /\ plan # Nobody /\ plan' = Nobody
        /\ Listings!Record([collector |-> "manifest", at |-> plan.at,
               entries |-> Listings!ManifestEntries(plan.manifest, Listings!Current)])
        /\ UNCHANGED <<catalog, visible, now, changes, markdown, listing>>
    BY DEF Listings!RecordManifest
  <1>2. CoverageInv /\ PlanSound(plan)
    BY <1>1 DEF ListingInv, CoverageInv
  <1>3. EntriesSound(Listings!ManifestEntries(plan.manifest, Listings!Current)) /\ plan.at \in 1..MaxTime
    BY <1>2, ListingsManifestSound DEF PlanSound
  <1>4. \A s \in snapshots' : SnapshotSound(s)
    BY <1>1, <1>2, <1>3, ListingsRecordSound
  <1>5. QED
    BY <1>1, <1>4 DEF ListingInv, CoverageInv

LEMMA ListingsDryRunKeeps == ASSUME ListingInv, Listings!DryRun PROVE ListingInv'
  <1>1. PICK manifest \in Collected, instant \in 1..MaxTime :
            /\ plan' = [manifest |-> manifest, at |-> instant, contract |-> Listings!Contract(manifest, instant)]
            /\ UNCHANGED <<snapshots, catalog, visible, now, changes, markdown, listing>>
    BY DEF Listings!DryRun
  <1>2. PlanSound(plan')
    BY <1>1 DEF PlanSound
  <1>3. QED
    BY <1>1, <1>2 DEF ListingInv, CoverageInv

LEMMA ListingsRest ==
    ASSUME ListingInv, UNCHANGED <<snapshots, plan, listing>>, catalog' \in [Things -> CatalogStates],
           visible' \subseteq Things, now' \in 1..MaxTime
    PROVE  ListingInv'
  BY DEF ListingInv, CoverageInv

LEMMA ListingsStep == ListingInv /\ [Listings!Next]_coverageVars => ListingInv'
  <1> SUFFICES ASSUME ListingInv, [Listings!Next]_coverageVars PROVE ListingInv'
    OBVIOUS
  <1>1. CASE UNCHANGED coverageVars
    BY <1>1 DEF coverageVars, ListingInv, CoverageInv
  <1>2. CASE Listings!Tick
    <2>1. now \in 1..MaxTime /\ MaxTime \in Nat
      BY CoverageConstants DEF ListingInv, CoverageInv
    <2>2. now' \in 1..MaxTime /\ UNCHANGED <<snapshots, plan, listing, catalog, visible>>
      BY <1>2, <2>1 DEF Listings!Tick
    <2>3. QED
      BY <2>2 DEF ListingInv, CoverageInv
  <1>3. CASE Listings!Change
    <2>1. UNCHANGED <<snapshots, plan, listing, now>>
      BY <1>3 DEF Listings!Change
    <2>2. catalog' \in [Things -> CatalogStates] /\ visible' \subseteq Things
      <3>1. catalog \in [Things -> CatalogStates] /\ visible \subseteq Things
        BY DEF ListingInv, CoverageInv
      <3>2. CASE \E o \in Things, s \in CatalogStates : catalog' = [catalog EXCEPT ![o] = s] /\ UNCHANGED visible
        BY <3>1, <3>2
      <3>3. CASE \E S \in SUBSET Things : visible' = S /\ UNCHANGED catalog
        BY <3>1, <3>3
      <3>4. QED
        BY <1>3, <3>2, <3>3 DEF Listings!Change, CatalogStates
    <2>3. QED
      BY <2>1, <2>2, ListingsRest DEF ListingInv, CoverageInv
  <1>4. QED
    BY <1>1, <1>2, <1>3, FirstPageKeeps, NextPageKeeps, ListingsRecordKeeps, ListingsDryRunKeeps
    DEF Listings!Next

LEMMA CollectorsCurrentSound == ASSUME CoverageInv PROVE EntriesSound(Collectors!Entries(Collectors!Current))
  <1>1. CASE snapshots = {}
    <2>1. Collectors!Entries(Collectors!Current) = [k \in {} |-> Nobody]
      BY <1>1 DEF Collectors!Current, Collectors!NoSnapshot, Collectors!Entries
    <2>2. QED
      BY <2>1 DEF EntriesSound
  <1>2. CASE snapshots # {}
    <2>1. PICK S : S = {s.at : s \in snapshots}
      OBVIOUS
    <2>2. S \in SUBSET Nat /\ S # {} /\ MaxTime \in Nat /\ \A i \in S : i <= MaxTime
      BY <1>2, <2>1, CoverageConstants DEF CoverageInv, SnapshotSound
    <2>3. PICK i \in S : \A j \in S : j <= i
      BY <2>2, LatestInstant
    <2>4. \E s \in snapshots : \A t \in snapshots : t.at <= s.at
      BY <2>1, <2>3
    <2>5. Collectors!Current \in snapshots
      BY <1>2, <2>4 DEF Collectors!Current
    <2>6. QED
      BY <2>5 DEF CoverageInv, SnapshotSound, Collectors!Entries
  <1>3. QED
    BY <1>1, <1>2

LEMMA CollectorsManifestSound ==
    ASSUME CoverageInv, NEW manifest \in Collected
    PROVE  EntriesSound(Collectors!ManifestEntries(manifest, Collectors!Current))
  <1>1. PICK old : old = Collectors!Entries(Collectors!Current)
    OBVIOUS
  <1>2. EntriesSound(old)
    BY <1>1, CollectorsCurrentSound
  <1>3. EntriesSound(manifest)
    BY CoverageConstants
  <1>4. \A k \in DOMAIN old : RowSound([old[k] EXCEPT !.presence = "absent"])
    BY <1>2 DEF EntriesSound, RowSound
  <1>5. Collectors!ManifestEntries(manifest, Collectors!Current) =
          [k \in DOMAIN manifest \cup DOMAIN old |->
              IF k \in DOMAIN manifest THEN manifest[k] ELSE [old[k] EXCEPT !.presence = "absent"]]
    BY <1>1 DEF Collectors!ManifestEntries
  <1>6. QED
    BY <1>2, <1>3, <1>4, <1>5 DEF EntriesSound

LEMMA CollectorsRecordSound ==
    ASSUME CoverageInv, NEW collector, NEW instant \in 1..MaxTime, NEW entries, EntriesSound(entries),
           Collectors!Record([collector |-> collector, at |-> instant, entries |-> entries])
    PROVE  \A s \in snapshots' : SnapshotSound(s)
  BY DEF Collectors!Record, SnapshotSound, CoverageInv

LEMMA CollectorsCurrentLatest ==
    ASSUME CoverageInv, NEW s \in snapshots
    PROVE  s.at <= Collectors!Current.at
  <1>1. PICK S : S = {t.at : t \in snapshots}
    OBVIOUS
  <1>2. S \in SUBSET Nat /\ S # {} /\ MaxTime \in Nat /\ \A i \in S : i <= MaxTime
    BY <1>1, CoverageConstants DEF CoverageInv, SnapshotSound
  <1>3. PICK i \in S : \A j \in S : j <= i
    BY <1>2, LatestInstant
  <1>4. \E u \in snapshots : \A t \in snapshots : t.at <= u.at
    BY <1>1, <1>3
  <1>5. \A t \in snapshots : t.at <= Collectors!Current.at
    BY <1>4 DEF Collectors!Current
  <1>6. QED
    BY <1>5

CollectorStates == {"gone", "fresh", "other kind"}

(* What a Markdown collector holds.                                                 *)
HoldsSound(x) ==
    x # Nobody =>
        /\ x = [at |-> x.at, entries |-> x.entries] /\ x.at \in 1..MaxTime
        /\ x.entries # Nobody => EntriesSound(x.entries)

CollectorInv ==
    /\ CoverageInv
    /\ catalog \in [Things -> CollectorStates]
    /\ listing = Nobody
    /\ markdown = [r \in {1} |-> markdown[r]] /\ HoldsSound(markdown[1])

LEMMA ReadingsSound ==
    ASSUME NEW rows \in Readings
    PROVE  /\ DOMAIN rows \subseteq Keys
           /\ \A k \in DOMAIN rows : \A i \in DOMAIN rows[k].candidates : rows[k].candidates[i] \in Things
  BY CoverageAssumption DEF Collectors!ConstantsSound

LEMMA MarkdownEntriesSound ==
    ASSUME CoverageInv, NEW rows \in Readings, NEW cat
    PROVE  EntriesSound(Collectors!MarkdownEntries(rows, Collectors!Current, cat))
  <1> DEFINE old == Collectors!Restricted(Collectors!Entries(Collectors!Current), {k \in Keys : SourceOf[k] = Tools})
             role(k, i) == IF \A j \in 1..(i - 1) : cat[rows[k].candidates[j]] = Collectors!Gone THEN "primary" ELSE "derived"
             new(k) == {[object |-> rows[k].candidates[i], role |-> role(k, i), fp |-> rows[k].fp]
                           : i \in {i \in DOMAIN rows[k].candidates : cat[rows[k].candidates[i]] # Collectors!Gone}}
             read(k) == [fp |-> rows[k].fp, intent |-> rows[k].intent, presence |-> "present",
                         maps |-> IF k \in DOMAIN old THEN old[k].maps ELSE new(k)]
  <1>1. Collectors!MarkdownEntries(rows, Collectors!Current, cat) =
            [k \in DOMAIN rows \cup DOMAIN old |->
                IF k \in DOMAIN rows THEN read(k) ELSE [old[k] EXCEPT !.presence = "absent"]]
    BY Zenon DEF Collectors!MarkdownEntries
  <1>2. EntriesSound(old)
    BY CollectorsCurrentSound DEF Collectors!Restricted, EntriesSound
  <1>3. \A k \in DOMAIN rows : \A m \in new(k) : m.object \in Things /\ m.role \in {"primary", "derived"}
    <2> TAKE k \in DOMAIN rows
    <2> TAKE m \in new(k)
    <2>1. PICK i \in DOMAIN rows[k].candidates :
              m = [object |-> rows[k].candidates[i], role |-> role(k, i), fp |-> rows[k].fp]
      OBVIOUS
    <2>2. role(k, i) \in {"primary", "derived"}
      OBVIOUS
    <2> HIDE DEF role
    <2>3. QED
      BY <2>1, <2>2, ReadingsSound
  <1> HIDE DEF new, old
  <1>4. \A k \in DOMAIN rows : RowSound(read(k))
    <2> TAKE k \in DOMAIN rows
    <2>1. PICK maps : maps = IF k \in DOMAIN old THEN old[k].maps ELSE new(k)
      OBVIOUS
    <2>2. \A m \in maps : m.object \in Things /\ m.role \in {"primary", "derived"}
      BY <2>1, <1>2, <1>3 DEF EntriesSound, RowSound
    <2>3. read(k) = [fp |-> rows[k].fp, intent |-> rows[k].intent, presence |-> "present", maps |-> maps]
      BY <2>1
    <2>4. QED
      BY <2>2, <2>3 DEF RowSound
  <1> HIDE DEF read
  <1>5. \A k \in DOMAIN old : RowSound([old[k] EXCEPT !.presence = "absent"])
    BY <1>2 DEF EntriesSound, RowSound
  <1>6. DOMAIN rows \subseteq Keys /\ DOMAIN old \subseteq Keys
    BY <1>2, ReadingsSound DEF EntriesSound
  <1>7. QED
    BY <1>1, <1>4, <1>5, <1>6 DEF EntriesSound

LEMMA CollectorsStart == Collectors!Init => CollectorInv
  <1> SUFFICES ASSUME Collectors!Init PROVE CollectorInv
    OBVIOUS
  <1>1. /\ snapshots = {} /\ now = 1 /\ plan = Nobody /\ listing = Nobody
        /\ catalog \in [Things -> CollectorStates] /\ visible \subseteq Things
        /\ markdown = [r \in {1} |-> Nobody]
    BY DEF Collectors!Init, CollectorStates
  <1>2. CoverageInv
    BY <1>1, CoverageConstants DEF CoverageInv
  <1>3. HoldsSound(markdown[1]) /\ markdown = [r \in {1} |-> markdown[r]]
    BY <1>1 DEF HoldsSound
  <1>4. QED
    BY <1>1, <1>2, <1>3 DEF CollectorInv

(* A step of the Markdown collector.                                                *)
LEMMA HoldsChange ==
    ASSUME CollectorInv, NEW x, HoldsSound(x), markdown' = [markdown EXCEPT ![1] = x],
           \A s \in snapshots' : SnapshotSound(s), UNCHANGED <<catalog, visible, now, plan, listing>>
    PROVE  CollectorInv'
  <1>1. markdown'[1] = x /\ markdown' = [r \in {1} |-> markdown'[r]]
    BY DEF CollectorInv
  <1>2. HoldsSound(markdown'[1])
    BY <1>1
  <1>3. CoverageInv'
    BY DEF CollectorInv, CoverageInv
  <1>4. QED
    BY <1>1, <1>2, <1>3 DEF CollectorInv

LEMMA PlanMarkdownKeeps == ASSUME CollectorInv, Collectors!PlanMarkdown(1) PROVE CollectorInv'
  <1>1. PICK x : x = [at |-> now, entries |-> Nobody]
    OBVIOUS
  <1>2. HoldsSound(x)
    BY <1>1 DEF HoldsSound, CollectorInv, CoverageInv
  <1>3. /\ markdown' = [markdown EXCEPT ![1] = x] /\ UNCHANGED <<snapshots, catalog, visible, now, plan, listing>>
    BY <1>1 DEF Collectors!PlanMarkdown
  <1>4. \A s \in snapshots' : SnapshotSound(s)
    BY <1>3 DEF CollectorInv, CoverageInv
  <1>5. QED
    BY <1>2, <1>3, <1>4, HoldsChange

LEMMA CollectMarkdownKeeps == ASSUME CollectorInv, Collectors!CollectMarkdown(1) PROVE CollectorInv'
  <1>1. PICK rows \in Readings :
            /\ markdown[1] # Nobody
            /\ markdown' = [markdown EXCEPT ![1].entries = Collectors!MarkdownEntries(rows, Collectors!Current, catalog)]
            /\ UNCHANGED <<snapshots, catalog, visible, now, changes, plan, listing>>
    BY DEF Collectors!CollectMarkdown
  <1>2. PICK entries : entries = Collectors!MarkdownEntries(rows, Collectors!Current, catalog)
    OBVIOUS
  <1>3. EntriesSound(entries)
    BY <1>2, MarkdownEntriesSound DEF CollectorInv
  <1>4. PICK x : x = [markdown[1] EXCEPT !.entries = entries]
    OBVIOUS
  <1>5. markdown[1] = [at |-> markdown[1].at, entries |-> markdown[1].entries] /\ markdown[1].at \in 1..MaxTime
    BY <1>1 DEF CollectorInv, HoldsSound
  <1>6. x = [at |-> markdown[1].at, entries |-> entries]
    BY <1>4, <1>5
  <1>7. HoldsSound(x)
    BY <1>3, <1>5, <1>6 DEF HoldsSound
  <1>8. markdown' = [markdown EXCEPT ![1] = x]
    BY <1>1, <1>2, <1>4
  <1>9. \A s \in snapshots' : SnapshotSound(s)
    BY <1>1 DEF CollectorInv, CoverageInv
  <1>10. QED
    BY <1>1, <1>7, <1>8, <1>9, HoldsChange

LEMMA RecordMarkdownKeeps == ASSUME CollectorInv, Collectors!RecordMarkdown(1) PROVE CollectorInv'
  <1>1. /\ markdown[1] # Nobody /\ markdown[1].entries # Nobody
        /\ Collectors!Record([collector |-> "markdown_tools", at |-> markdown[1].at, entries |-> markdown[1].entries])
        /\ markdown' = [markdown EXCEPT ![1] = Nobody]
        /\ UNCHANGED <<catalog, visible, now, changes, plan, listing>>
    BY DEF Collectors!RecordMarkdown
  <1>2. markdown[1].at \in 1..MaxTime /\ EntriesSound(markdown[1].entries)
    BY <1>1 DEF CollectorInv, HoldsSound
  <1>3. \A s \in snapshots' : SnapshotSound(s)
    BY <1>1, <1>2, CollectorsRecordSound DEF CollectorInv
  <1>4. HoldsSound(Nobody)
    BY DEF HoldsSound
  <1>5. QED
    BY <1>1, <1>3, <1>4, HoldsChange

(* A step that leaves the Markdown collector alone.                                  *)
LEMMA HoldsRest ==
    ASSUME CollectorInv, UNCHANGED <<markdown, listing>>, CoverageInv', catalog' \in [Things -> CollectorStates]
    PROVE  CollectorInv'
  BY DEF CollectorInv

LEMMA CollectorsStep == CollectorInv /\ [Collectors!Next]_coverageVars => CollectorInv'
  <1> SUFFICES ASSUME CollectorInv, [Collectors!Next]_coverageVars PROVE CollectorInv'
    OBVIOUS
  <1>1. CASE UNCHANGED coverageVars
    BY <1>1, HoldsRest DEF coverageVars, CollectorInv, CoverageInv
  <1>2. CASE Collectors!Tick
    <2>1. now \in 1..MaxTime /\ MaxTime \in Nat
      BY CoverageConstants DEF CollectorInv, CoverageInv
    <2>2. now' \in 1..MaxTime /\ UNCHANGED <<snapshots, plan, listing, catalog, visible, markdown>>
      BY <1>2, <2>1 DEF Collectors!Tick
    <2>3. CoverageInv'
      BY <2>2 DEF CollectorInv, CoverageInv
    <2>4. QED
      BY <2>2, <2>3, HoldsRest DEF CollectorInv
  <1>3. CASE Collectors!Change
    <2>1. UNCHANGED <<snapshots, plan, listing, now, markdown>>
      BY <1>3 DEF Collectors!Change
    <2>2. catalog' \in [Things -> CollectorStates] /\ visible' \subseteq Things
      <3>1. catalog \in [Things -> CollectorStates] /\ visible \subseteq Things
        BY DEF CollectorInv, CoverageInv
      <3>2. CASE \E o \in Things, s \in CollectorStates : catalog' = [catalog EXCEPT ![o] = s] /\ UNCHANGED visible
        BY <3>1, <3>2
      <3>3. CASE \E S \in SUBSET Things : visible' = S /\ UNCHANGED catalog
        BY <3>1, <3>3
      <3>4. QED
        BY <1>3, <3>2, <3>3 DEF Collectors!Change, CollectorStates
    <2>3. CoverageInv'
      BY <2>1, <2>2 DEF CollectorInv, CoverageInv
    <2>4. QED
      BY <2>1, <2>2, <2>3, HoldsRest
  <1>4. CASE Collectors!DryRun
    <2>1. PICK manifest \in Collected, instant \in 1..MaxTime :
              /\ plan' = [manifest |-> manifest, at |-> instant, contract |-> Collectors!Contract(manifest, instant)]
              /\ UNCHANGED <<snapshots, catalog, visible, now, changes, markdown, listing>>
      BY <1>4 DEF Collectors!DryRun
    <2>2. PlanSound(plan')
      BY <2>1 DEF PlanSound
    <2>3. CoverageInv'
      BY <2>1, <2>2 DEF CollectorInv, CoverageInv
    <2>4. QED
      BY <2>1, <2>3, HoldsRest DEF CollectorInv
  <1>5. CASE Collectors!RecordManifest
    <2>1. /\ plan # Nobody /\ plan' = Nobody
          /\ Collectors!Record([collector |-> "manifest", at |-> plan.at,
                 entries |-> Collectors!ManifestEntries(plan.manifest, Collectors!Current)])
          /\ UNCHANGED <<catalog, visible, now, changes, markdown, listing>>
      BY <1>5 DEF Collectors!RecordManifest
    <2>2. CoverageInv /\ PlanSound(plan)
      BY <2>1 DEF CollectorInv, CoverageInv
    <2>3. EntriesSound(Collectors!ManifestEntries(plan.manifest, Collectors!Current)) /\ plan.at \in 1..MaxTime
      BY <2>2, CollectorsManifestSound DEF PlanSound
    <2>4. \A s \in snapshots' : SnapshotSound(s)
      BY <2>1, <2>2, <2>3, CollectorsRecordSound
    <2>5. CoverageInv'
      BY <2>1, <2>4 DEF CollectorInv, CoverageInv
    <2>6. QED
      BY <2>1, <2>5, HoldsRest DEF CollectorInv
  <1>6. CASE \E r \in {1} : Collectors!PlanMarkdown(r) \/ Collectors!CollectMarkdown(r) \/ Collectors!RecordMarkdown(r)
    BY <1>6, PlanMarkdownKeeps, CollectMarkdownKeeps, RecordMarkdownKeeps
  <1>7. ~Collectors!FirstPage /\ ~Collectors!NextPage
    BY DEF Collectors!FirstPage, Collectors!NextPage, CollectorInv
  <1>8. QED
    BY <1>1, <1>2, <1>3, <1>4, <1>5, <1>6, <1>7 DEF Collectors!Next

LEMMA CollectorsSafe == CollectorInv => Collectors!TypeOK
  <1> SUFFICES ASSUME CollectorInv PROVE Collectors!TypeOK
    OBVIOUS
  <1>1. \A s \in snapshots : /\ s.at \in 1..MaxTime /\ DOMAIN s.entries \subseteq Keys
                             /\ \A k \in DOMAIN s.entries : Collectors!EntryOK(s.entries[k])
    BY DEF CollectorInv, CoverageInv, SnapshotSound, EntriesSound, RowSound, Collectors!EntryOK, Collectors!Roles
  <1>2. QED
    BY <1>1 DEF Collectors!TypeOK, CollectorInv, CoverageInv, CollectorStates

LEMMA CollectorsCardinality == \A S : Collectors!Cardinality(S) = Cardinality(S)
  BY DEF Collectors!Cardinality, Cardinality, Collectors!IsFiniteSet, IsFiniteSet

(* The present entries of what is recorded are those of the manifest.                *)
LEMMA PresentReviewed ==
    ASSUME CoverageInv, NEW manifest \in Collected, NEW entries,
           entries = Collectors!ManifestEntries(manifest, Collectors!Current)
    PROVE  /\ DOMAIN Collectors!Entries(Collectors!Current) \subseteq DOMAIN entries
           /\ EntriesSound(entries)
           /\ \A k \in DOMAIN entries :
                 entries[k].presence = "present" =>
                     /\ entries[k].intent \in {"expect_object", "no_catalog_object"}
                     /\ entries[k].intent = "no_catalog_object" => entries[k].maps = {}
  <1>1. PICK old : old = Collectors!Entries(Collectors!Current)
    OBVIOUS
  <1>2. EntriesSound(old)
    BY <1>1, CollectorsCurrentSound
  <1>3. entries = [k \in DOMAIN manifest \cup DOMAIN old |->
              IF k \in DOMAIN manifest THEN manifest[k] ELSE [old[k] EXCEPT !.presence = "absent"]]
    BY <1>1 DEF Collectors!ManifestEntries
  <1>4. \A k \in DOMAIN old : [old[k] EXCEPT !.presence = "absent"].presence = "absent"
    BY <1>2 DEF EntriesSound, RowSound
  <1>5. \A k \in DOMAIN entries : entries[k].presence = "present" => k \in DOMAIN manifest /\ entries[k] = manifest[k]
    BY <1>3, <1>4
  <1>6. EntriesSound(entries)
    BY CollectorsManifestSound
  <1>7. DOMAIN old \subseteq DOMAIN entries
    BY <1>3
  <1>8. QED
    BY <1>1, <1>5, <1>6, <1>7, CoverageConstants

(* Entries whose targets the operator sees, all of them there, are shown as they are.  *)
Whole(entries) == [k \in DOMAIN entries |-> [entries[k] EXCEPT !.maps = entries[k].maps]]

SeenWhole(entries, cat, seen, targets) ==
    /\ EntriesSound(entries)
    /\ \A o : o \in targets <=> o \in seen /\ cat[o] # "gone"
    /\ \A k \in DOMAIN entries : \A m \in entries[k].maps : m.object \in seen /\ cat[m.object] # "gone"

ShownAsIs(entries, cat, seen, targets) ==
    /\ Collectors!View(entries, cat, seen, TRUE) = Collectors!Resolved(Whole(entries), cat, targets)
    /\ DOMAIN Whole(entries) = DOMAIN entries
    /\ \A k \in DOMAIN entries : /\ Whole(entries)[k].maps = entries[k].maps
                                 /\ Whole(entries)[k].presence = entries[k].presence
                                 /\ Whole(entries)[k].intent = entries[k].intent

LEMMA ShownWhole ==
    ASSUME NEW entries, NEW cat, NEW seen, NEW targets, SeenWhole(entries, cat, seen, targets)
    PROVE  ShownAsIs(entries, cat, seen, targets)
  <1> USE DEF SeenWhole
  <1>1. \A k \in DOMAIN entries : Collectors!Mapped(entries[k], cat, seen, TRUE) = entries[k].maps
    BY DEF Collectors!Mapped, Collectors!Gone
  <1>2. \A k \in DOMAIN entries : Collectors!Listed(entries[k], cat, seen, TRUE)
    BY <1>1 DEF Collectors!Listed
  <1>3. {k \in DOMAIN entries : Collectors!Listed(entries[k], cat, seen, TRUE)} = DOMAIN entries
    BY <1>2
  <1>4. PICK shown : shown = Whole(entries)
    OBVIOUS
  <1>5. [k \in {k \in DOMAIN entries : Collectors!Listed(entries[k], cat, seen, TRUE)} |->
            [entries[k] EXCEPT !.maps = Collectors!Mapped(entries[k], cat, seen, TRUE)]] = shown
    BY <1>1, <1>3, <1>4 DEF Whole
  <1>6. \A k \in DOMAIN entries : DOMAIN entries[k] = {"fp", "intent", "presence", "maps"}
    BY DEF EntriesSound, RowSound
  <1>7. \A k \in DOMAIN entries : /\ shown[k].maps = entries[k].maps
                                 /\ shown[k].presence = entries[k].presence
                                 /\ shown[k].intent = entries[k].intent
    BY <1>4, <1>6 DEF Whole
  <1>8. Collectors!View(entries, cat, seen, TRUE) = Collectors!Resolved(shown, cat, targets)
    <2>1. {o \in seen : cat[o] # "gone"} = targets
      OBVIOUS
    <2>2. QED
      BY <1>5, <2>1, Zenon DEF Collectors!View, Collectors!Gone
  <1>9. DOMAIN shown = DOMAIN entries
    BY <1>4 DEF Whole
  <1>10. QED
    BY <1>4, <1>7, <1>8, <1>9 DEF ShownAsIs

(* The key and the state of each row of a view.                                     *)
LEMMA RowsOfResolved ==
    ASSUME NEW shown, NEW cat, NEW targets, NEW view, view = Collectors!Resolved(shown, cat, targets)
    PROVE  /\ \A d \in view :
                 d.key \in DOMAIN shown /\ d.state = Collectors!ResolveState(shown, d.key, cat, targets)
           /\ \A k \in DOMAIN shown : \E d \in view : d.key = k
  <1> DEFINE row(k) ==
          [key |-> k, fp |-> shown[k].fp, intent |-> shown[k].intent, presence |-> shown[k].presence,
           state |-> Collectors!ResolveState(shown, k, cat, targets),
           maps |-> {[object |-> m.object, role |-> m.role, changed |-> m.fp # shown[k].fp,
                      kind |-> IF m.object \in targets THEN Collectors!Kind(cat[m.object]) ELSE Nobody]
                         : m \in shown[k].maps}]
  <1>1. Collectors!Resolved(shown, cat, targets) = {row(k) : k \in DOMAIN shown}
    BY Zenon DEF Collectors!Resolved
  <1>2. \A k : row(k).key = k /\ row(k).state = Collectors!ResolveState(shown, k, cat, targets)
    OBVIOUS
  <1> HIDE DEF row
  <1>3. QED
    BY <1>1, <1>2

(* What the blockers let pass is in no doubt for the resolver.                        *)
LEMMA StatesClear ==
    ASSUME NEW entries, NEW shown, NEW cat, NEW targets, NEW k \in DOMAIN entries,
           DOMAIN shown = DOMAIN entries,
           \A j \in DOMAIN entries : /\ shown[j].maps = entries[j].maps
                                   /\ shown[j].presence = entries[j].presence
                                   /\ shown[j].intent = entries[j].intent,
           EntriesSound(entries),
           \A m \in entries[k].maps : m.object \in targets,
           entries[k].presence = "present" =>
               /\ entries[k].intent \in {"expect_object", "no_catalog_object"}
               /\ entries[k].intent = "no_catalog_object" => entries[k].maps = {}
               /\ entries[k].intent = "expect_object" =>
                      Collectors!Cardinality({m \in entries[k].maps : m.role = "primary"}) = 1,
           \A o \in Things : ~(Collectors!Cardinality(Collectors!PrimaryOwners(entries, o)) > 1)
    PROVE  Collectors!ResolveState(shown, k, cat, targets) \notin
               {"orphaned_catalog_reference", "ambiguous_mapping", "duplicate_mapping", "unmapped_operational"}
  <1>1. CASE shown[k].presence = "absent"
    BY <1>1 DEF Collectors!ResolveState
  <1>2. CASE shown[k].presence = "present"
    <2>1. shown[k].maps = entries[k].maps /\ shown[k].intent = entries[k].intent /\ entries[k].presence = "present"
      BY <1>2
    <2>2. PICK maps : maps = shown[k].maps
      OBVIOUS
    <2>3. \A m \in maps : m.object \in targets /\ m.object \in Things
      BY <2>1, <2>2 DEF EntriesSound, RowSound
    <2>4. \A o : Collectors!PrimaryOwners(shown, o) = Collectors!PrimaryOwners(entries, o)
      BY DEF Collectors!PrimaryOwners
    <2>5. \A m \in maps : ~(Collectors!Cardinality(Collectors!PrimaryOwners(shown, m.object)) > 1)
      BY <2>3, <2>4
    <2>6. CASE maps = {}
      <3>1. {m \in maps : m.role = "primary"} = {}
        BY <2>6
      <3>2. Collectors!Cardinality({m \in maps : m.role = "primary"}) = 0
        BY <3>1, FS_EmptySet, CollectorsCardinality
      <3>3. shown[k].intent = "no_catalog_object"
        BY <3>2, <2>1, <2>2
      <3>4. QED
        BY <3>3, <2>2, <2>6, <1>2 DEF Collectors!ResolveState
    <2>7. CASE maps # {}
      <3>1. Collectors!Cardinality({m \in maps : m.role = "primary"}) = 1
        BY <2>1, <2>2, <2>7
      <3>2. ~(Collectors!Cardinality({m \in maps : m.role = "primary"}) > 1)
        BY <3>1
      <3>3. Collectors!ResolveState(shown, k, cat, targets) \in
               {"source_changed_since_import", "mapped_stale", "mapped_current"}
        BY <3>2, <2>2, <2>3, <2>5, <2>7, <1>2 DEF Collectors!ResolveState
      <3>4. QED
        BY <3>3
    <2>8. QED
      BY <2>6, <2>7
  <1>3. QED
    BY <1>1, <1>2 DEF EntriesSound, RowSound

LEMMA OnlyManifestsTakePlans ==
    ASSUME CollectorInv, Collectors!Next, snapshots' # snapshots, plan # Nobody, plan' = Nobody
    PROVE  Collectors!RecordManifest
  <1>1. ~(\E r \in {1} : Collectors!PlanMarkdown(r) \/ Collectors!CollectMarkdown(r) \/ Collectors!RecordMarkdown(r))
    BY DEF Collectors!PlanMarkdown, Collectors!CollectMarkdown, Collectors!RecordMarkdown
  <1>2. ~Collectors!DryRun /\ ~Collectors!FirstPage /\ ~Collectors!NextPage /\ ~Collectors!Change /\ ~Collectors!Tick
    BY DEF Collectors!DryRun, Collectors!FirstPage, Collectors!NextPage, Collectors!Change, Collectors!Tick
  <1>3. QED
    BY <1>1, <1>2 DEF Collectors!Next

LEMMA CollectorsReviewed == CollectorInv /\ Collectors!Next => Collectors!RecordedAsReviewed
  <1> SUFFICES ASSUME CollectorInv, Collectors!Next, snapshots' # snapshots, plan # Nobody, plan' = Nobody,
                      NEW new, new = CHOOSE s \in snapshots' : s \notin snapshots
               PROVE  /\ \A s \in snapshots : s.at < new.at
                      /\ DOMAIN Collectors!Entries(Collectors!Current) \subseteq DOMAIN new.entries
                      /\ \A d \in Collectors!View(new.entries, catalog, visible, TRUE) :
                            d.state \notin {"orphaned_catalog_reference", "ambiguous_mapping",
                                            "duplicate_mapping", "unmapped_operational"}
                      /\ {d.key : d \in Collectors!View(new.entries, catalog, visible, TRUE)} = DOMAIN new.entries
    BY DEF Collectors!RecordedAsReviewed
  <1>1. PICK manifest, entries, instant :
            /\ manifest = plan.manifest /\ instant = plan.at
            /\ entries = Collectors!ManifestEntries(manifest, Collectors!Current)
    OBVIOUS
  <1>2. /\ ~Collectors!Blocked(manifest, instant)
        /\ Collectors!Record([collector |-> "manifest", at |-> instant, entries |-> entries])
    BY <1>1, OnlyManifestsTakePlans DEF Collectors!RecordManifest, Collectors!Verified
  <1>3. manifest \in Collected /\ instant \in 1..MaxTime /\ CoverageInv
    BY <1>1 DEF CollectorInv, CoverageInv, PlanSound
  <1>4. PICK s0 : s0 = [collector |-> "manifest", at |-> instant, entries |-> entries]
    OBVIOUS
  <1>5. s0.at = instant /\ s0.entries = entries /\ s0.collector = "manifest"
    BY <1>4
  <1>6. snapshots' = snapshots \cup {s0} /\ Collectors!Digest(Collectors!Current) # Collectors!Digest(s0)
    BY <1>2, <1>4 DEF Collectors!Record
  <1>7. new = s0
    <2>1. s0 \notin snapshots /\ s0 \in snapshots'
      BY <1>6
    <2>2. new \in snapshots' /\ new \notin snapshots
      BY <2>1
    <2>3. QED
      BY <2>2, <1>6
  <1>8. \A s \in snapshots : s.at < new.at
    <2>1. Collectors!Digest(s0) = [collector |-> "manifest", entries |-> entries]
      BY <1>5 DEF Collectors!Digest
    <2>2. ~(instant <= Collectors!Current.at)
      BY <1>1, <1>2, <1>6, <2>1 DEF Collectors!Blocked
    <2>3. SUFFICES ASSUME NEW s \in snapshots PROVE s.at < instant
      BY <1>5, <1>7
    <2>4. s.at <= Collectors!Current.at
      BY <1>3, CollectorsCurrentLatest
    <2>5. Collectors!Current.at \in Nat
      <3>1. Collectors!Current \in snapshots
        <4>1. PICK S : S = {t.at : t \in snapshots}
          OBVIOUS
        <4>2. S \in SUBSET Nat /\ S # {} /\ MaxTime \in Nat /\ \A i \in S : i <= MaxTime
          BY <1>3, <4>1, CoverageConstants DEF CoverageInv, SnapshotSound
        <4>3. PICK i \in S : \A j \in S : j <= i
          BY <4>2, LatestInstant
        <4>4. \E u \in snapshots : \A t \in snapshots : t.at <= u.at
          BY <4>1, <4>3
        <4>5. QED
          BY <4>4 DEF Collectors!Current
      <3>2. QED
        BY <3>1, <1>3 DEF CoverageInv, SnapshotSound
    <2>6. s.at \in Nat /\ instant \in Nat
      BY <1>3 DEF CoverageInv, SnapshotSound
    <2>7. QED
      BY <2>2, <2>4, <2>5, <2>6
  <1>9. /\ DOMAIN Collectors!Entries(Collectors!Current) \subseteq DOMAIN entries
        /\ EntriesSound(entries)
        /\ \A k \in DOMAIN entries :
              entries[k].presence = "present" =>
                  /\ entries[k].intent \in {"expect_object", "no_catalog_object"}
                  /\ entries[k].intent = "no_catalog_object" => entries[k].maps = {}
    BY <1>1, <1>3, PresentReviewed
  <1>10. \A o \in Collectors!Targets(entries) : o \in visible /\ catalog[o] # "gone"
    <2>1. PICK found : found = Collectors!Evidence(entries, catalog, visible)
      OBVIOUS
    <2>2. DOMAIN found = Collectors!Targets(entries)
      BY <2>1 DEF Collectors!Evidence
    <2>3. \A o \in Collectors!Targets(entries) : found[o] \notin {"missing", "concealed"}
      BY <1>1, <1>2, <2>1, <2>2 DEF Collectors!Blocked
    <2>4. QED
      BY <2>1, <2>3 DEF Collectors!Evidence, Collectors!Gone
  <1>11. \A k \in DOMAIN entries : \A m \in entries[k].maps : m.object \in visible /\ catalog[m.object] # "gone"
    BY <1>10 DEF Collectors!Targets
  <1>12. \A k \in DOMAIN entries :
            entries[k].presence = "present" /\ entries[k].intent = "expect_object" =>
                Collectors!Cardinality({m \in entries[k].maps : m.role = "primary"}) = 1
    BY <1>1, <1>2 DEF Collectors!Blocked
  <1>13. \A o \in Things : ~(Collectors!Cardinality(Collectors!PrimaryOwners(entries, o)) > 1)
    BY <1>1, <1>2 DEF Collectors!Blocked
  <1>14. PICK targets : targets = {o \in visible : catalog[o] # "gone"}
    OBVIOUS
  <1>15. PICK shown : /\ Collectors!View(entries, catalog, visible, TRUE) = Collectors!Resolved(shown, catalog, targets)
                      /\ DOMAIN shown = DOMAIN entries
                      /\ \A k \in DOMAIN entries : /\ shown[k].maps = entries[k].maps
                                                   /\ shown[k].presence = entries[k].presence
                                                   /\ shown[k].intent = entries[k].intent
    <2>1. SeenWhole(entries, catalog, visible, targets)
      BY <1>9, <1>11, <1>14 DEF SeenWhole
    <2>2. ShownAsIs(entries, catalog, visible, targets)
      BY <2>1, ShownWhole
    <2>3. QED
      BY <2>2 DEF ShownAsIs
  <1>16. \A k \in DOMAIN entries : \A m \in entries[k].maps : m.object \in targets
    BY <1>11, <1>14
  <1>17. \A k \in DOMAIN entries :
            Collectors!ResolveState(shown, k, catalog, targets) \notin
               {"orphaned_catalog_reference", "ambiguous_mapping", "duplicate_mapping", "unmapped_operational"}
    <2> TAKE k \in DOMAIN entries
    <2>1. \A m \in entries[k].maps : m.object \in targets
      BY <1>16
    <2>2. entries[k].presence = "present" =>
              /\ entries[k].intent \in {"expect_object", "no_catalog_object"}
              /\ entries[k].intent = "no_catalog_object" => entries[k].maps = {}
              /\ entries[k].intent = "expect_object" =>
                     Collectors!Cardinality({m \in entries[k].maps : m.role = "primary"}) = 1
      BY <1>9, <1>12
    <2>3. QED
      BY <2>1, <2>2, <1>9, <1>13, <1>15, StatesClear
  <1>18. PICK view : view = Collectors!View(new.entries, catalog, visible, TRUE)
    OBVIOUS
  <1>19. view = Collectors!Resolved(shown, catalog, targets) /\ new.entries = entries
    BY <1>5, <1>7, <1>15, <1>18
  <1>20. /\ \A d \in view : d.key \in DOMAIN shown /\ d.state = Collectors!ResolveState(shown, d.key, catalog, targets)
         /\ \A k \in DOMAIN shown : \E d \in view : d.key = k
    BY <1>19, RowsOfResolved
  <1>21. \A d \in view : d.state \notin {"orphaned_catalog_reference", "ambiguous_mapping",
                                       "duplicate_mapping", "unmapped_operational"}
    BY <1>15, <1>17, <1>20
  <1>22. {d.key : d \in view} = DOMAIN entries
    BY <1>15, <1>20
  <1>23. QED
    BY <1>8, <1>9, <1>18, <1>19, <1>21, <1>22

-----------------------------------------------------------------------------
(* The host.                                                                *)

LockingPart == part = "locking" => IInv
KnowledgePart == part = "knowledge" => KnowledgeInv
CollectorsPart == part = "collectors" => CollectorInv
ListingsPart == part = "listings" => ListingInv

LEMMA LockingHosted == MCSpec => []LockingPart
  <1>1. MCInit => LockingPart
    BY IInvInit DEF MCInit, LockingPart, OrderedInit
  <1>2. LockingPart /\ [MCNext]_allVars => LockingPart'
    <2> SUFFICES ASSUME LockingPart, [MCNext]_allVars, part' = "locking" PROVE IInv'
      BY DEF LockingPart
    <2>1. part = "locking" /\ [Next]_vars
      BY DEF MCNext, allVars, vars
    <2>2. QED
      BY <2>1, IInvStep DEF LockingPart
  <1>3. QED
    BY <1>1, <1>2, PTL DEF MCSpec

LEMMA KnowledgeHosted == MCSpec => []KnowledgePart
  <1>1. MCInit => KnowledgePart
    BY KnowledgeStarts DEF MCInit, KnowledgePart
  <1>2. KnowledgePart /\ [MCNext]_allVars => KnowledgePart'
    <2> SUFFICES ASSUME KnowledgePart, [MCNext]_allVars, part' = "knowledge" PROVE KnowledgeInv'
      BY DEF KnowledgePart
    <2>1. part = "knowledge" /\ [K!Next]_knowledgeVars
      BY DEF MCNext, allVars
    <2>2. QED
      BY <2>1, KnowledgeStep DEF KnowledgePart
  <1>3. QED
    BY <1>1, <1>2, PTL DEF MCSpec

LEMMA CollectorsHosted == MCSpec => []CollectorsPart
  <1>1. MCInit => CollectorsPart
    BY CollectorsStart DEF MCInit, CollectorsPart
  <1>2. CollectorsPart /\ [MCNext]_allVars => CollectorsPart'
    <2> SUFFICES ASSUME CollectorsPart, [MCNext]_allVars, part' = "collectors" PROVE CollectorInv'
      BY DEF CollectorsPart
    <2>1. part = "collectors" /\ [Collectors!Next]_coverageVars
      BY DEF MCNext, allVars
    <2>2. QED
      BY <2>1, CollectorsStep DEF CollectorsPart
  <1>3. QED
    BY <1>1, <1>2, PTL DEF MCSpec

LEMMA ListingsHosted == MCSpec => []ListingsPart
  <1>1. MCInit => ListingsPart
    BY ListingsStart DEF MCInit, ListingsPart
  <1>2. ListingsPart /\ [MCNext]_allVars => ListingsPart'
    <2> SUFFICES ASSUME ListingsPart, [MCNext]_allVars, part' = "listings" PROVE ListingInv'
      BY DEF ListingsPart
    <2>1. part = "listings" /\ [Listings!Next]_coverageVars
      BY DEF MCNext, allVars
    <2>2. QED
      BY <2>1, ListingsStep DEF ListingsPart
  <1>3. QED
    BY <1>1, <1>2, PTL DEF MCSpec

(* Whatever runs of the knowledge command overlap, crash and fail beside the service, no   *)
(* source entry is applied twice, a report tells whether the file was replaced, and only a   *)
(* relation declared by both its ends makes the apply refuse what the planner announced      *)
(* (_prior_apply_details, rollback_knowledge, _resolve_targets).                        *)
THEOREM RunsStayAccountable == MCSpec => []RunsAreAccountable
  <1>1. LockingPart /\ KnowledgePart => RunsAreAccountable
    BY KnowledgeSafe DEF LockingPart, KnowledgePart, RunsAreAccountable, IInv
  <1>2. QED
    BY <1>1, LockingHosted, KnowledgeHosted, PTL

(* A rollback with the receipt of its apply takes that apply back, leaves its record, and    *)
(* loses no write of anybody else but those between its last look and the rename            *)
(* (rollback_knowledge).                                                              *)
THEOREM RollbacksUndoTheirApply == MCSpec => RollbackUndoesItsApplyOnly
  <1>1. KnowledgePart /\ [MCNext]_allVars => [part = "knowledge" => K!RollbackUndoesItsApplyOnly]_knowledgeVars
    <2> SUFFICES ASSUME KnowledgePart, [MCNext]_allVars, part = "knowledge", ~UNCHANGED knowledgeVars
                 PROVE  K!RollbackUndoesItsApplyOnly
      OBVIOUS
    <2>1. K!Next
      BY DEF MCNext, allVars
    <2>2. QED
      BY <2>1, RollbackUndoes DEF KnowledgePart
  <1>2. QED
    BY <1>1, KnowledgeHosted, PTL DEF MCSpec, RollbackUndoesItsApplyOnly

(* What a principal may not read changes nothing of what it is told of source coverage,      *)
(* and a listing that has come to its end has shown one view, whatever was recorded, changed *)
(* or granted meanwhile (resolve_visible_coverage, paginate_items, decode_page_cursor).     *)
THEOREM CoverageIsTold == MCSpec => []CoverageTold
  <1>1. CollectorsPart /\ ListingsPart => CoverageTold
    BY CollectorsSafe, ListingsSafe DEF CollectorsPart, ListingsPart, CoverageTold
  <1>2. QED
    BY <1>1, CollectorsHosted, ListingsHosted, PTL

(* A manifest that is recorded becomes what is current, takes no entry away, and none of its  *)
(* present entries is in doubt for the resolver (_verify_record_contract,                 *)
(* build_collection_plan, resolve_coverage).                                           *)
THEOREM ManifestsRecordedAsReviewed == MCSpec => RecordedAsReviewed
  <1>1. CollectorsPart /\ [MCNext]_allVars => [part = "collectors" => Collectors!RecordedAsReviewed]_coverageVars
    <2> SUFFICES ASSUME CollectorsPart, [MCNext]_allVars, part = "collectors", ~UNCHANGED coverageVars
                 PROVE  Collectors!RecordedAsReviewed
      OBVIOUS
    <2>1. Collectors!Next
      BY DEF MCNext, allVars
    <2>2. QED
      BY <2>1, CollectorsReviewed DEF CollectorsPart
  <1>2. QED
    BY <1>1, CollectorsHosted, PTL DEF MCSpec, RecordedAsReviewed
=============================================================================
