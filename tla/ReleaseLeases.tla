----------------------------- MODULE ReleaseLeases -----------------------------
(***************************************************************************)
(* Release checks of one service (services/release_monitoring.py): pollers     *)
(* reconcile and run due checks, users run manual ones, and a row of           *)
(* service_release_check_leases decides who asks the provider.  The request is *)
(* made outside any transaction (services/release_github.py).                 *)
(*                                                                         *)
(* What a step reads may have changed when a later step writes; a conditional  *)
(* UPDATE or DELETE looks at the row again, one by primary key does not.  The  *)
(* poller's sessions keep what they read across commits, so the observation     *)
(* that they store over is the one from before the request; those of requests   *)
(* forget it at each commit.  Rows belong to an instance of the service:        *)
(* recreated, it is another one.                                            *)
(***************************************************************************)
EXTENDS Naturals, FiniteSets

CONSTANTS Workers,   \* poller loops and request threads
          Targets, Off,  \* what the service is set to; Off: disabled, invalid or gone
          Nobody, None,
          Lease, Interval, Backoff,  \* seconds: lease, between checks, after a failure
          Cooldown,  \* MIN_RELEASE_CHECK_COOLDOWN_SECONDS
          MaxAge,    \* bound: from a check's reading of the clock to its end
          MaxClock, MaxEdits, MaxInstances, MaxChecks  \* bounds

VARIABLES clock,
          service,   \* instance, target and revision
          leases,    \* instance -> lease row or None
          observed,  \* instance -> stored observation or None
          at,        \* Workers -> where it is
          my,        \* Workers -> what it has read and claimed, or None
          rows,      \* lease IDs handed out
          checks,    \* checks begun
          robbed,    \* history: instances a claimed lease of which was deleted by reconciliation
          late       \* history: instances asked about when the asker's lease had run out

vars == <<clock, service, leases, observed, at, my, rows, checks, robbed, late>>

Instances == 1..MaxInstances

Stages == {"idle", "sync", "pass", "claim", "validate", "ask", "answered", "write"}

(* Times may lie in the future: due and expiry.                              *)
Times == 0..(MaxClock + Lease + Interval + Backoff)

Leases == [id: Nat, owner: Workers \cup {Nobody}, expires: Times, due: Times]

Observations == [target: Targets, checked: Times, due: Times]

Readings ==
    [manual: BOOLEAN, instance: Instances, target: Targets \cup {Off}, looked: Targets \cup {Off},
     revision: Nat, now: Times, lease: Leases \cup {None}, seen: Observations \cup {None},
     checked: Times, failed: BOOLEAN]

(* What the proofs about this module assume of its constants.  The settings are  *)
(* whole seconds, a lease at least ten of them.                              *)
ConstantsSound ==
    /\ Nobody \notin Workers
    /\ None \notin Leases \cup Observations \cup Readings
    /\ Lease \in Nat \ {0} /\ MaxInstances \in Nat \ {0}
    /\ {Interval, Backoff, Cooldown, MaxClock, MaxChecks} \subseteq Nat
    /\ Interval <= MaxClock

TypeOK ==
    /\ clock \in 0..MaxClock
    /\ service \in [instance: Instances, target: Targets \cup {Off}, revision: Nat]
    /\ leases \in [Instances -> Leases \cup {None}]
    /\ \A i \in Instances : leases[i] # None => (leases[i].owner = Nobody <=> leases[i].expires = 0)
    /\ observed \in [Instances -> Observations \cup {None}]
    /\ at \in [Workers -> Stages]
    /\ my \in [Workers -> Readings \cup {None}]
    /\ rows \in Nat /\ checks \in 0..MaxChecks
    /\ robbed \subseteq Instances /\ late \subseteq Instances

(* A service that has just been set up, or one that was checked an interval ago,  *)
(* whose lease is there and may be due; it may have been changed or disabled.   *)
Init ==
    LET Before(row) == [i \in Instances |-> IF i = 1 THEN row ELSE None]
    IN  /\ clock = Interval
        /\ service \in [instance: {1}, target: Targets \cup {Off}, revision: {1}]
        /\ \/ leases = Before(None) /\ observed = Before(None) /\ rows = 0
           \/ /\ leases = Before([id |-> 1, owner |-> Nobody, expires |-> 0, due |-> Interval])
              /\ \E t \in Targets :
                    observed = Before([target |-> t, checked |-> 0, due |-> Interval])
              /\ rows = 1
        /\ at = [w \in Workers |-> "idle"]
        /\ my = [w \in Workers |-> None]
        /\ checks = 0 /\ robbed = {} /\ late = {}

-----------------------------------------------------------------------------
(* Time and edits of the service.                                           *)

Tick ==
    /\ clock < MaxClock
    /\ \A w \in Workers : at[w] # "idle" => clock < my[w].now + MaxAge
    /\ clock' = clock + 1
    /\ UNCHANGED <<service, leases, observed, at, my, rows, checks, robbed, late>>

Edit(t) ==
    /\ service.revision + service.instance - 2 < MaxEdits /\ t # service.target
    /\ service' = [service EXCEPT !.target = t, !.revision = @ + 1]
    /\ UNCHANGED <<clock, leases, observed, at, my, rows, checks, robbed, late>>

Recreate(t) ==
    /\ service.instance < MaxInstances /\ service.revision + service.instance - 2 < MaxEdits
    /\ service' = [instance |-> service.instance + 1, target |-> t, revision |-> 1]
    /\ UNCHANGED <<clock, leases, observed, at, my, rows, checks, robbed, late>>

(* A worker is through; what it leaves in the database stays.                *)
Stop(w) ==
    /\ at' = [at EXCEPT ![w] = "idle"]
    /\ my' = [my EXCEPT ![w] = None]

Goto(w, stage) == at' = [at EXCEPT ![w] = stage]

(* The process ends, or the transaction raises.                             *)
Crash(w) ==
    /\ at[w] # "idle"
    /\ Stop(w)
    /\ UNCHANGED <<clock, service, leases, observed, rows, checks, robbed, late>>

-----------------------------------------------------------------------------
(* Reconciliation: synchronize_release_schedule and _release_expired.         *)

Matches(o, t) == o # None /\ o.target = t

(* What a worker reads of the service and its rows.                          *)
Reading(manual) ==
    [manual |-> manual, instance |-> service.instance, target |-> service.target,
     looked |-> service.target, revision |-> service.revision, now |-> clock, lease |-> leases[service.instance],
     seen |-> observed[service.instance], checked |-> 0, failed |-> FALSE]

SyncRead(w) ==
    /\ at[w] = "idle" /\ checks < MaxChecks
    /\ my' = [my EXCEPT ![w] = Reading(FALSE)]
    /\ Goto(w, "sync")
    /\ checks' = checks + 1
    /\ UNCHANGED <<clock, service, leases, observed, rows, robbed, late>>

(* The due time wanted for a lease, one that exists or one to be made; the    *)
(* first is due at once, its jitter left out.                                *)
WantedDue(m) ==
    IF Matches(m.seen, m.target) THEN m.seen.due
    ELSE IF m.lease = None \/ m.lease.due > m.now THEN m.now ELSE m.lease.due

SameRow(i, row) == leases[i] # None /\ row # None /\ leases[i].id = row.id

(* The lease of the service afterwards.  Rows that were read are deleted and    *)
(* rescheduled by primary key, whoever has claimed them meanwhile.           *)
Reconciled(m) ==
    LET now == leases[m.instance]
    IN  IF m.target = Off
        THEN IF SameRow(m.instance, m.lease) /\ m.lease.expires <= m.now THEN None ELSE now
        ELSE IF m.lease = None
             THEN IF now # None THEN now
                  ELSE [id |-> rows + 1, owner |-> Nobody, expires |-> 0, due |-> WantedDue(m)]
             ELSE IF /\ SameRow(m.instance, m.lease) /\ m.lease.owner = Nobody
                     /\ m.lease.due # WantedDue(m)
                  THEN [now EXCEPT !.due = WantedDue(m)]
                  ELSE now

(* Seeded fault: the expiry of a lease outlives its owner.                   *)
KeepsExpiry(row) == [row EXCEPT !.owner = Nobody]

Unowned(row) == [row EXCEPT !.owner = Nobody, !.expires = 0]

Released(row, now) ==
    IF row # None /\ row.owner # Nobody /\ row.expires <= now THEN Unowned(row) ELSE row

(* Rows of other instances are pruned.                                      *)
Pruned(table) == [i \in Instances |-> IF i = service.instance THEN table[i] ELSE None]

(* Lease IDs handed out once an instance has this row.                       *)
NewRows(i, row) == IF leases[i] = None /\ row # None THEN rows + 1 ELSE rows

SyncWrite(w) ==
    LET m == my[w]
        synced == Pruned([leases EXCEPT ![m.instance] = Reconciled(m)])
    IN  /\ at[w] = "sync"
        /\ leases' = [i \in Instances |-> Released(synced[i], m.now)]
        /\ observed' = Pruned(observed)
        /\ rows' = NewRows(m.instance, Reconciled(m))
        /\ robbed' = robbed \cup {i \in Instances : /\ leases[i] # None /\ synced[i] = None
                                                    /\ leases[i].owner # Nobody}
        /\ Goto(w, "pass")
        /\ UNCHANGED <<clock, service, my, checks, late>>

(* run_due_release_checks selects the service when its lease is due.          *)
Select(w) ==
    /\ at[w] = "pass"
    /\ IF \E i \in Instances : leases[i] # None /\ leases[i].due <= my[w].now
          /\ service.target # Off
       THEN my' = [my EXCEPT ![w] = Reading(FALSE)] /\ Goto(w, "claim")
       ELSE Stop(w)
    /\ UNCHANGED <<clock, service, leases, observed, rows, checks, robbed, late>>

-----------------------------------------------------------------------------
(* A check: check_service_release.                                          *)

(* Seeded fault: the next due time takes the place of the cooldown.          *)
CoolingUntilDue(o, t) == Matches(o, t) /\ o.due > clock

Cooling(o, t) == Matches(o, t) /\ o.checked + Cooldown > clock

(* A user asks for a check, and is told to wait when the last one is recent.  *)
Manual(w) ==
    /\ at[w] = "idle" /\ checks < MaxChecks
    /\ service.target # Off
    /\ ~Cooling(observed[service.instance], service.target)
    /\ my' = [my EXCEPT ![w] = Reading(TRUE)]
    /\ Goto(w, "claim")
    /\ checks' = checks + 1
    /\ UNCHANGED <<clock, service, leases, observed, rows, robbed, late>>

(* Seeded fault: whoever comes takes the lease.                              *)
AlwaysClaimable(row, m) == row.expires <= m.now \/ row.owner # Nobody

Claimable(row, m) == row.expires <= m.now /\ (m.manual \/ row.due <= m.now)

(* _claim_service: INSERT ... ON CONFLICT DO NOTHING, then the conditional     *)
(* UPDATE, and a commit.  Manual checks need not be due.                     *)
Claim(w) ==
    LET m == my[w]
        row == IF leases[m.instance] # None THEN leases[m.instance]
               ELSE [id |-> rows + 1, owner |-> Nobody, expires |-> 0, due |-> m.now]
        claimed == [row EXCEPT !.owner = w, !.expires = m.now + Lease]
    IN  /\ at[w] = "claim"
        /\ IF Claimable(row, m)
           THEN /\ leases' = [leases EXCEPT ![m.instance] = claimed]
                /\ my' = [my EXCEPT ![w].lease = claimed]
                /\ Goto(w, "validate")
           ELSE leases' = [leases EXCEPT ![m.instance] = row] /\ Stop(w)
        /\ rows' = NewRows(m.instance, row)
        /\ UNCHANGED <<clock, service, observed, checks, robbed, late>>

(* Rows of the check: those with its ID and its owner.                       *)
Mine(w) == SameRow(my[w].instance, my[w].lease) /\ leases[my[w].instance].owner = w

(* _delete_claim                                                            *)
GiveUp(w) ==
    /\ leases' = IF Mine(w) THEN [leases EXCEPT ![my[w].instance] = None] ELSE leases
    /\ Stop(w)
    /\ UNCHANGED <<clock, service, observed, rows, checks, robbed, late>>

(* What a SELECT of the observation gives a worker: a poller's session keeps the  *)
(* row that it has read, as it was then.                                      *)
Found(w) ==
    LET stored == observed[my[w].instance]
    IN  IF stored # None /\ my[w].seen # None /\ ~my[w].manual THEN my[w].seen ELSE stored

(* The inputs are read again, by a request from the database, by a poller from *)
(* its session, which has them; it may find an observation where it had none.   *)
Validate(w) ==
    /\ at[w] = "validate"
    /\ \/ /\ my[w].manual => service.instance = my[w].instance /\ service.target # Off
          /\ my' = IF my[w].manual
                   THEN [my EXCEPT ![w].target = service.target, ![w].revision = service.revision]
                   ELSE [my EXCEPT ![w].seen = Found(w)]
          /\ Goto(w, "ask")
          /\ UNCHANGED <<clock, service, leases, observed, rows, checks, robbed, late>>
       \/ my[w].manual /\ GiveUp(w)

(* fetch_latest_github_release notes the time and asks.  The answer takes until *)
(* the next step of the worker; how it will turn out is told here.            *)
Ask(w, failed) ==
    /\ at[w] = "ask"
    /\ my' = [my EXCEPT ![w].checked = clock, ![w].failed = failed]
    /\ Goto(w, "answered")
    /\ late' = IF my[w].lease.expires <= clock THEN late \cup {my[w].instance} ELSE late
    /\ UNCHANGED <<clock, service, leases, observed, rows, checks, robbed>>

(* The service names this target: it is set to it, or disabled with it.  Off does *)
(* not tell whether it names another.                                        *)
Names(t) == service.target \in {t, Off}

(* The service is still what was asked about; a user's request also wants the  *)
(* revision that it validated.                                              *)
StillWanted(w) ==
    /\ my[w].instance = service.instance
    /\ Names(my[w].target)
    /\ my[w].manual => my[w].revision = service.revision

(* The reads of record_release_observation, after the second authorization.   *)
Store(w) ==
    /\ at[w] = "answered"
    /\ \/ /\ StillWanted(w)
          /\ my' = [my EXCEPT ![w].seen = Found(w)]
          /\ Goto(w, "write")
          /\ UNCHANGED <<clock, service, leases, observed, rows, checks, robbed, late>>
       \/ /\ ~StillWanted(w) \/ my[w].manual \/ service.target = Off
          /\ GiveUp(w)

(* Seeded fault: the last answer to arrive is kept.                          *)
NeverNewer(m) == FALSE

(* A newer answer about the same target is stored already.                   *)
Newer(m) == Matches(m.seen, m.target) /\ m.seen.checked >= m.checked

(* scheduled_release_due: backed off after a failure.                        *)
Due(m) == m.checked + (IF m.failed THEN Backoff ELSE Interval)

Answer(m) == [target |-> m.target, checked |-> m.checked, due |-> Due(m)]

(* The UPDATE sets the columns that differ from what the session has read; the   *)
(* others stay as they are by now.                                           *)
Flushed(m) ==
    LET Column(c) ==
            IF m.seen # None /\ Answer(m)[c] = m.seen[c] THEN observed[m.instance][c] ELSE Answer(m)[c]
    IN  [target |-> Column("target"), checked |-> Column("checked"), due |-> Column("due")]

(* Its writes, and the release of the lease.  An observation that was inserted *)
(* or pruned since it was read makes the transaction raise.                  *)
Write(w) ==
    LET m == my[w]
        kept == IF Newer(m) THEN m.seen ELSE Answer(m)
    IN  /\ at[w] = "write"
        /\ IF Newer(m) \/ ((m.seen = None) <=> (observed[m.instance] = None))
           THEN /\ observed' = IF Newer(m) THEN observed ELSE [observed EXCEPT ![m.instance] = Flushed(m)]
                /\ leases' = IF Mine(w)
                             THEN [leases EXCEPT ![m.instance] = [Unowned(@) EXCEPT !.due = kept.due]]
                             ELSE leases
           ELSE UNCHANGED <<observed, leases>>
        /\ Stop(w)
        /\ UNCHANGED <<clock, service, rows, checks, robbed, late>>

Step(w) ==
    \/ SyncRead(w) \/ SyncWrite(w) \/ Select(w)
    \/ Manual(w) \/ Claim(w) \/ Validate(w)
    \/ \E failed \in BOOLEAN : Ask(w, failed)
    \/ Store(w) \/ Write(w)
    \/ Crash(w)

Next ==
    \/ \E w \in Workers : Step(w)
    \/ \E t \in Targets \cup {Off} : Edit(t) \/ Recreate(t)
    \/ Tick

Spec == Init /\ [][Next]_vars

-----------------------------------------------------------------------------
Checking(w) == at[w] \in {"validate", "ask", "answered", "write"}

Overlap(v, w) ==
    /\ v # w /\ Checking(v) /\ Checking(w) /\ my[v].instance = my[w].instance
    /\ \A u \in {v, w} : my[u].lease.expires > clock

(* "Manual and scheduled processes cannot check the same instance concurrently"   *)
(* (docs/release-monitoring.md), said of checks under a lease that still runs, but  *)
(* for one way: reconciliation that read a lease nobody held deletes it under a    *)
(* check that claimed it meanwhile, and the next check gets a lease of its own.    *)
OneCheckAtATime == \A v, w \in Workers : Overlap(v, w) => my[v].instance \in robbed

(* Of every step: an older answer replaces a newer one about the same target only  *)
(* when the newer came after the worker's last reading of the observation, which   *)
(* is from before the request for a poller, and its lease did not keep the newer   *)
(* one away: it has run out, or reconciliation deleted a claimed lease of the      *)
(* service, or a check asked the provider after its lease had run out.           *)
NewestAnswerKept ==
    \A w \in Workers :
        LET i == my[w].instance
        IN  /\ at[w] = "write" /\ at'[w] = "idle" /\ observed'[i] # observed[i]
            /\ observed[i] # None
            /\ observed[i].target = my[w].target /\ observed[i].checked > my[w].checked
            => /\ my[w].seen # observed[i]
               /\ i \in robbed \cup late \/ my[w].lease.expires <= clock

(* Of every step: a user's check asks the provider about a target again within   *)
(* the cooldown only when the earlier answer was stored after the check looked  *)
(* for one, or the service had another target then.                          *)
CooldownMissedByRacesOnly ==
    \A w \in Workers :
        LET m == my[w]
            last == observed[m.instance]
        IN  /\ at[w] = "ask" /\ at'[w] = "answered" /\ m.manual
            /\ last # None /\ last.target = m.target /\ clock < last.checked + Cooldown
            => m.seen # last \/ m.looked # m.target

(* Checks of one instance of the service come in an order that loses no answer   *)
(* and asks the provider no more than it should, whoever starts them.          *)
ChecksOrdered == OneCheckAtATime /\ NewestAnswerKept /\ CooldownMissedByRacesOnly
=============================================================================
