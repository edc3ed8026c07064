--------------------------- MODULE MonitoringLeases ---------------------------
(***************************************************************************)
(* The due-check scheduler (services/monitoring.py): every web process runs  *)
(* the same passes, and a row of service_check_leases decides which of them  *)
(* probes a service.  One service is modelled; leases of different services  *)
(* never meet.                                                              *)
(*                                                                         *)
(* A pass is a sequence of short transactions around one network call.       *)
(* Reads before a transaction's first write can be stale when it writes, on   *)
(* both databases; a conditional UPDATE looks at the row again.              *)
(*                                                                         *)
(* Instants are kept relative to the present: a deadline d is reached when   *)
(* d <= 0, and an instant read age[w] ticks ago is -age[w].                  *)
(***************************************************************************)
EXTENDS Integers, FiniteSets

CONSTANTS Workers,    \* poller loops
          Targets,    \* effective probe targets: provider and fingerprint
          Off,        \* monitoring is disabled or the service is gone
          Configs,    \* what edits set the service to
          Nobody,
          NoRow,
          Lease,      \* lease_seconds
          Deadline,   \* total_timeout_ms and the safety margin
          Interval,   \* between checks
          Jitter,     \* of first due times
          MaxAge,     \* bound: ticks between the steps of a pass
          MaxEdits,   \* bound: configuration edits
          MaxCrashes  \* bound: processes that die within a pass

ASSUME ConfigsAssumption == Configs \subseteq Targets \cup {Off} /\ Off \notin Targets
ASSUME NobodyAssumption == Nobody \notin Workers
(* MonitoringSettings.__post_init__                                         *)
ASSUME LeaseAssumption == Lease \in Nat /\ Deadline \in Nat /\ Deadline < Lease
ASSUME BoundsAssumption ==
    /\ {Interval, Jitter, MaxAge, MaxEdits, MaxCrashes} \subseteq Nat
    /\ Jitter <= Interval
    /\ Deadline <= MaxAge

VARIABLES config,  \* the service's current target, or Off
          row,     \* its lease row, or NoRow
          seen,    \* its stored observation: target and due time, or NoRow
          at,      \* Workers -> where in a pass the worker is
          wanted,  \* Workers -> the target its reconciliation read
          known,   \* Workers -> the lease row that it read
          target,  \* Workers -> the target of its claim
          age,     \* Workers -> ticks since it last read the clock
          edits,   \* configuration edits so far, the catalog revision
          read,    \* Workers -> edits when it validated its result
          crashes

vars == <<config, row, seen, at, wanted, known, target, age, edits, read, crashes>>
shared == <<config, edits, crashes>>

Earliest == -MaxAge

Rows == [target: Targets, due: Earliest..Interval, owner: Workers \cup {Nobody}, expires: Earliest..Lease]

ASSUME NoRowAssumption == NoRow \notin Rows

Stages == {"idle", "read", "sync", "select", "claim", "validate", "renew", "check", "answered",
           "store", "diagnose", "drop"}

TypeOK ==
    /\ config \in Targets \cup {Off}
    /\ row \in Rows \cup {NoRow}
    /\ seen \in [target: Targets, due: Earliest..Interval] \cup {NoRow}
    /\ at \in [Workers -> Stages]
    /\ wanted \in [Workers -> Targets \cup {Off}]
    /\ known \in [Workers -> Rows \cup {NoRow}]
    /\ target \in [Workers -> Targets \cup {Off}]
    /\ age \in [Workers -> 0..MaxAge]
    /\ edits \in 0..MaxEdits
    /\ read \in [Workers -> 0..MaxEdits]
    /\ crashes \in 0..MaxCrashes

Init ==
    /\ config \in Configs
    /\ row = NoRow
    /\ seen = NoRow
    /\ at = [w \in Workers |-> "idle"]
    /\ wanted = [w \in Workers |-> Off]
    /\ known = [w \in Workers |-> NoRow]
    /\ target = [w \in Workers |-> Off]
    /\ age = [w \in Workers |-> 0]
    /\ edits = 0
    /\ read = [w \in Workers |-> 0]
    /\ crashes = 0

-----------------------------------------------------------------------------
(* Time, edits and crashes.                                                 *)

Sooner(t) == IF t > Earliest THEN t - 1 ELSE t

(* A probe in flight ends by its deadline, and no pass waits for ever        *)
(* between two of its other steps.                                          *)
Tick ==
    /\ \A w \in Workers : age[w] < (IF at[w] = "check" THEN Deadline ELSE MaxAge)
    /\ age' = [w \in Workers |-> IF at[w] = "idle" THEN 0 ELSE age[w] + 1]
    /\ row' = IF row = NoRow THEN NoRow
              ELSE [row EXCEPT !.due = Sooner(@), !.expires = Sooner(@)]
    /\ known' = [w \in Workers |->
                    IF known[w] = NoRow THEN NoRow
                    ELSE [known[w] EXCEPT !.due = Sooner(@), !.expires = Sooner(@)]]
    /\ seen' = IF seen = NoRow THEN NoRow ELSE [seen EXCEPT !.due = Sooner(@)]
    /\ UNCHANGED <<at, wanted, target, read, shared>>

Edit(c) ==
    /\ edits < MaxEdits
    /\ c # config
    /\ config' = c
    /\ edits' = edits + 1
    /\ UNCHANGED <<row, seen, at, wanted, known, target, age, read, crashes>>

(* Where a worker goes next; what it leaves behind is forgotten.             *)
Goto(w, stage) == at' = [at EXCEPT ![w] = stage]

EndPass(w) ==
    /\ Goto(w, "idle")
    /\ wanted' = [wanted EXCEPT ![w] = Off]
    /\ known' = [known EXCEPT ![w] = NoRow]
    /\ target' = [target EXCEPT ![w] = Off]
    /\ age' = [age EXCEPT ![w] = 0]
    /\ read' = [read EXCEPT ![w] = 0]

Crash(w) ==
    /\ at[w] # "idle"
    /\ crashes < MaxCrashes
    /\ crashes' = crashes + 1
    /\ EndPass(w)
    /\ UNCHANGED <<config, row, seen, edits>>

-----------------------------------------------------------------------------
(* synchronize_check_schedule                                               *)

(* Seeded fault: a claim is only ever given back by its owner.               *)
NeverExpired(r, w) == r.owner = Nobody

(* lease_expires_at IS NULL or before the instant that w read.               *)
Free(r, w) == r.owner = Nobody \/ r.expires <= -age[w]

BeginPass(w) ==
    /\ at[w] = "idle"
    /\ Goto(w, "read")
    /\ wanted' = [wanted EXCEPT ![w] = config]
    /\ UNCHANGED <<row, seen, known, target, age, read, shared>>

ReadLease(w) ==
    /\ at[w] = "read"
    /\ Goto(w, "sync")
    /\ known' = [known EXCEPT ![w] = row]
    /\ UNCHANGED <<row, seen, wanted, target, age, read, shared>>

(* The cadence follows the stored observation of the wanted target.          *)
Scheduled(r, w) ==
    IF seen # NoRow /\ seen.target = wanted[w] THEN [r EXCEPT !.due = seen.due] ELSE r

FirstDue(w) == {d \in Earliest..Interval : -age[w] <= d /\ d <= Jitter - age[w]}

Unclaimed(t, due) == [target |-> t, due |-> due, owner |-> Nobody, expires |-> Earliest]

(* Rebinding compares the row it read and its expiry inside the UPDATE.      *)
Rebound(w) ==
    IF row # NoRow /\ row.target = known[w].target /\ Free(row, w)
    THEN {Scheduled(Unclaimed(wanted[w], d), w) : d \in FirstDue(w)}
    ELSE {row}

(* The lease row as reconciliation may leave it.  An unwanted row is deleted  *)
(* by its ID, as the unit of work read it; an insert yields to an existing    *)
(* row.                                                                      *)
Reconciled(w) ==
    LET k == known[w]
        t == wanted[w]
    IN  IF k = NoRow
        THEN IF t = Off \/ row # NoRow THEN {row}
             ELSE {Scheduled(Unclaimed(t, d), w) : d \in FirstDue(w)}
        ELSE IF t = Off THEN IF Free(k, w) THEN {NoRow} ELSE {row}
        ELSE IF k.target # t THEN Rebound(w)
        ELSE IF row = NoRow THEN {NoRow} ELSE {Scheduled(row, w)}

(* _release_expired_leases, in the same transaction.                        *)
Freed(r, w) ==
    IF r # NoRow /\ Free(r, w) THEN [r EXCEPT !.owner = Nobody, !.expires = Earliest] ELSE r

Synchronize(w) ==
    /\ at[w] = "sync"
    /\ \E r \in Reconciled(w) : row' = Freed(r, w)
    /\ Goto(w, "select")
    /\ wanted' = [wanted EXCEPT ![w] = Off]
    /\ known' = [known EXCEPT ![w] = NoRow]
    /\ UNCHANGED <<seen, target, age, read, shared>>

-----------------------------------------------------------------------------
(* claim_due_checks                                                         *)

Claimable(r, w) == r # NoRow /\ r.due <= -age[w] /\ Free(r, w)

SelectDue(w) ==
    /\ at[w] = "select"
    /\ \/ /\ Claimable(row, w)
          /\ Goto(w, "claim")
          /\ target' = [target EXCEPT ![w] = row.target]
          /\ UNCHANGED <<wanted, known, age, read>>
       \/ ~Claimable(row, w) /\ EndPass(w)
    /\ UNCHANGED <<row, seen, shared>>

(* Seeded fault: the UPDATE trusts the candidate that was selected.          *)
ClaimSelected(w) ==
    /\ at[w] = "claim"
    /\ \/ /\ row # NoRow
          /\ row' = [row EXCEPT !.owner = w, !.expires = Lease - age[w]]
          /\ Goto(w, "validate")
          /\ UNCHANGED <<wanted, known, target, age, read>>
       \/ row = NoRow /\ EndPass(w) /\ UNCHANGED row
    /\ UNCHANGED <<seen, shared>>

Claim(w) ==
    /\ at[w] = "claim"
    /\ \/ /\ Claimable(row, w)
          /\ row' = [row EXCEPT !.owner = w, !.expires = Lease - age[w]]
          /\ Goto(w, "validate")
          /\ UNCHANGED <<wanted, known, target, age, read>>
       \/ ~Claimable(row, w) /\ EndPass(w) /\ UNCHANGED row
    /\ UNCHANGED <<seen, shared>>

-----------------------------------------------------------------------------
(* run_due_service_checks, after the claim.                                 *)

Owned(w) == row # NoRow /\ row.owner = w

NotYetDue(w) == seen # NoRow /\ seen.target = target[w] /\ seen.due > -age[w]

ReleasedRow(w, due) ==
    IF Owned(w) THEN [row EXCEPT !.owner = Nobody, !.expires = Earliest, !.due = due] ELSE row

DroppedRow(w) == IF Owned(w) THEN NoRow ELSE row

(* The catalog is read again: the target may have changed, another worker    *)
(* may have stored a result meanwhile, or the request cannot be built.       *)
Validate(w) ==
    /\ at[w] = "validate"
    /\ \/ config # target[w] /\ Goto(w, "drop")
       \/ config = target[w] /\ ~NotYetDue(w) /\ (Goto(w, "renew") \/ Goto(w, "diagnose"))
    /\ UNCHANGED <<row, seen, wanted, known, target, age, read, shared>>

Postpone(w) ==
    /\ at[w] = "validate"
    /\ config = target[w] /\ NotYetDue(w)
    /\ row' = ReleasedRow(w, seen.due)
    /\ EndPass(w)
    /\ UNCHANGED <<seen, shared>>

Drop(w) ==
    /\ at[w] = "drop"
    /\ row' = DroppedRow(w)
    /\ EndPass(w)
    /\ UNCHANGED <<seen, shared>>

(* Seeded fault: the probe starts under the claim as it is.                  *)
StartUnrenewed(w) ==
    /\ at[w] = "renew"
    /\ \/ /\ Owned(w) /\ row.expires > 0
          /\ Goto(w, "check")
          /\ age' = [age EXCEPT ![w] = 0]
          /\ UNCHANGED <<row, wanted, known, target, read>>
       \/ ~(Owned(w) /\ row.expires > 0) /\ EndPass(w) /\ UNCHANGED row
    /\ UNCHANGED <<seen, shared>>

(* _renew_check_lease: only a claim that is still alive is extended, from an *)
(* instant that is read anew.                                                *)
Renew(w) ==
    /\ at[w] = "renew"
    /\ \/ /\ Owned(w) /\ row.expires > 0
          /\ row' = [row EXCEPT !.expires = Lease]
          /\ Goto(w, "check")
          /\ age' = [age EXCEPT ![w] = 0]
          /\ UNCHANGED <<wanted, known, target, read>>
       \/ ~(Owned(w) /\ row.expires > 0) /\ EndPass(w) /\ UNCHANGED row
    /\ UNCHANGED <<seen, shared>>

(* The probe returns, with a result or an error.                             *)
Answer(w) ==
    /\ at[w] = "check"
    /\ Goto(w, "answered")
    /\ age' = [age EXCEPT ![w] = 0]
    /\ UNCHANGED <<row, seen, wanted, known, target, read, shared>>

(* record_service_observation does not ask whether monitoring is enabled: disabled *)
(* with a configuration that is valid and means the same target, the result is     *)
(* wanted, otherwise it is not.  Off does not tell these apart.                *)
MayRecord(w) == config \in {target[w], Off}
MayRefuse(w) == config # target[w]

(* It validates against the catalog ...                                      *)
Revalidate(w) ==
    /\ at[w] = "answered"
    /\ \/ MayRecord(w) /\ Goto(w, "store")
       \/ MayRefuse(w) /\ Goto(w, "drop")
    /\ read' = [read EXCEPT ![w] = edits]
    /\ UNCHANGED <<row, seen, wanted, known, target, age, shared>>

(* Seeded fault: the jitter is added to an interval that has it.              *)
NextDueLate(w) == Interval + Jitter - age[w]

NextDue(w) == Interval - age[w]

(* Seeded fault: the write trusts the validation before it.                  *)
StoreValidated(w) ==
    /\ at[w] = "store"
    /\ seen' = [target |-> target[w], due |-> NextDue(w)]
    /\ row' = ReleasedRow(w, NextDue(w))
    /\ EndPass(w)
    /\ UNCHANGED shared

(* ... and write unless the catalog has changed since; the lease goes back   *)
(* in the same transaction, or goes away with a result nobody wants.         *)
Store(w) ==
    /\ at[w] = "store"
    /\ \/ /\ read[w] = edits
          /\ seen' = [target |-> target[w], due |-> NextDue(w)]
          /\ row' = ReleasedRow(w, NextDue(w))
       \/ /\ read[w] # edits
          /\ row' = DroppedRow(w)
          /\ UNCHANGED seen
    /\ EndPass(w)
    /\ UNCHANGED shared

(* A request that cannot be built is recorded at once; when the record is     *)
(* refused the claim is left to expire.                                      *)
Diagnose(w) ==
    /\ at[w] = "diagnose"
    /\ \/ /\ MayRecord(w)
          /\ seen' = [target |-> target[w], due |-> NextDue(w)]
          /\ row' = ReleasedRow(w, NextDue(w))
       \/ MayRefuse(w) /\ UNCHANGED <<row, seen>>
    /\ EndPass(w)
    /\ UNCHANGED shared

PassStep(w) ==
    \/ BeginPass(w) \/ ReadLease(w) \/ Synchronize(w)
    \/ SelectDue(w) \/ Claim(w)
    \/ Validate(w) \/ Postpone(w) \/ Drop(w) \/ Diagnose(w)
    \/ Renew(w) \/ Answer(w) \/ Revalidate(w) \/ Store(w)

Next ==
    \/ Tick
    \/ \E c \in Configs : Edit(c)
    \/ \E w \in Workers : PassStep(w) \/ Crash(w)

(* The loop of run_monitoring_poller goes on until shutdown and survives a    *)
(* failed pass; time passes.                                                 *)
Spec == Init /\ [][Next]_vars /\ WF_vars(Tick) /\ \A w \in Workers : WF_vars(PassStep(w))

-----------------------------------------------------------------------------
(* "One effective check even with multiple web processes"                    *)
(* (docs/service-monitoring.md): two workers never probe the service at the  *)
(* same time.  Kept while monitoring stays enabled, whatever else is edited; *)
(* broken once it can be disabled, because reconciliation deletes a row by   *)
(* the expiry that it read before.                                           *)
AtMostOneCheck == \A v, w \in Workers : at[v] = "check" /\ at[w] = "check" => v = w

(* Whoever probes still holds a live claim, so a slow probe cannot overlap    *)
(* the next owner's.                                                        *)
ProbeUnderLease == \A w \in Workers : at[w] = "check" => Owned(w) /\ row.expires > 0

(* While monitoring is enabled, a result is only ever stored for the target that   *)
(* is configured then: a late answer of an old target does not replace the        *)
(* evidence of a new one.                                                     *)
StoredForCurrentTarget ==
    [][seen' # NoRow /\ (seen = NoRow \/ seen'.target # seen.target)
          => config \in {seen'.target, Off}]_vars

(* A service that stays enabled is probed or diagnosed again and again, even  *)
(* when workers die while they hold its lease.                               *)
KeepsBeingChecked ==
    []<>(config = Off \/ \E w \in Workers : at[w] \in {"check", "diagnose"})
=============================================================================
