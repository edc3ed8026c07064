# blockwart: verification project

TLA+ models of blockwart's concurrency, authorization bookkeeping and evidence
handling, the TLC runs that check them, and theorems about them that the TLA+
proof system checks. Source paths below are relative to
`src/src/blockwart/`, documentation paths to `src/docs/`.

## 1. The system

blockwart is a self-hosted infrastructure catalog. One FastAPI process (or
several) runs synchronous handlers in a thread pool over SQLAlchemy; the
database is SQLite or PostgreSQL. The browser UI, REST v1, the Agent API and the
MCP server are surfaces of the same services (`services/*`), and each command is
one database transaction (`db/session.py`, `transaction`). Background threads in
every process poll service health and upstream releases. CLI tools work on the
same database, some of them offline.

What makes the behaviour hard:

- **Two databases, two kinds of isolation.** PostgreSQL runs at READ COMMITTED
  with explicit row locks in a declared order. SQLite ignores `FOR UPDATE`, and
  its driver begins a transaction only at the first INSERT, UPDATE or DELETE:
  everything a command reads before that write may be stale when it writes.
- **Optimistic concurrency.** Objects carry a revision that is an ETag on the
  wire. Commands compare and swap it, triggers advance it, the ORM flushes
  changes late, and a deleted ID can be created again.
- **Distributed workers.** Monitoring and release pollers in several processes
  share lease rows that expire; a probe takes longer than any transaction.
- **Retries.** Clients repeat commands with an idempotency key that expires.
- **Invariants across rows.** Every object needs an active Owner through
  grants, placement and responsibility; one active catalog owner must remain.
- **Partial sight.** Clients save documents of which they were shown a part, and
  page through listings while catalog, grants and snapshots change.
- **Offline commands beside a live service.** Releases, knowledge plans and
  exports read and replace files step by step and may die at any step.

| Component | State | Operations | Interacts with | Correct when |
|---|---|---|---|---|
| Revision clock, ETags (`models/revision_clock.py`, `services/commands.py`, `services/catalog.py`) | `catalog_objects.revision`, `object_revision_clocks` | CAS commands, bumps, ORM flushes, triggers, delete, re-create | all writers | a published ETag never names another representation |
| Ownership and grants (`services/ownership.py`, `access.py`, `grant_management.py`, `legacy_owner_adoption.py`) | `object_grants`, placement and runbook edges, catalog roles | create, grant, revoke, adopt, (de)activate, place, link, change kind, delete | catalog, principals | every object keeps an active Owner, the catalog an owner |
| Owner-coverage locking (`services/access.py`) | row locks, SQLite's write lock | `lock_owner_coverage_state`, `lock_grant_command_state` | every grant, placement and principal command | coverage holds when commands overlap; nobody waits for ever |
| Idempotent commands (`services/commands.py`, `comments.py`, `principal_management.py`) | `idempotency_records` | reserve, replay, expire | creations, comments, records, tokens | one effect per live key; replays name what exists |
| Relationships and references (`domain/relationships.py`, `domain/placement.py`, `domain/decisions.py`, `services/catalog.py`) | typed edges, references in documents | link, unlink, update, create, delete | objects | one parent, no cycles, references lead to what they name |
| Object editing (`services/commands.py`, `ui/routes.py`) | documents | full updates, previews, renames, forms of one section | policy, revision clock | a save leaves alone what its editor was not shown; previews tell what updates do; protected content shows nothing |
| Principals, sessions, tokens (`services/identity.py`, `principal_management.py`, `cli/auth.py`) | principals, roles, tokens, sessions | create, update, roles, passwords, issue, rotate, revoke, deactivate, log in | everything | revoked stays revoked, an administrator stays, gates hold under overlap |
| Login and token limits (`ui/auth.py`, `services/login_protection.py`, `token_failure_buckets.py`) | challenges, windows, slots, counters | page, log in, check, count, evict, prune | identity | work is bounded, limits fail closed and for a cause, slots come back |
| Service monitoring (`services/monitoring*.py`, `domain/monitoring.py`) | `service_check_leases`, `service_observations` | reconcile, select, claim, validate, renew, probe, store | catalog edits | one probe at a time, under a lease, stored for its target; checks go on |
| Release monitoring (`services/release_monitoring.py`) | release leases and observations | the same without renewal, manual checks with a cooldown | catalog, GitHub | one check at a time, newest answer kept, cooldown |
| Knowledge planning and apply (`services/knowledge_planning.py`, `knowledge_apply.py`) | plan, receipt, backup, catalog file | plan, apply, roll back | files, catalog | each entry once; reports tell the truth; a rollback undoes its apply and no more |
| Projects (`services/project_*.py`) | project records, versions, events | patch, assess, reuse evidence, sync, import | catalog, GitHub | a current review says what is outstanding now; a led status was observed |
| Source coverage (`services/source_coverage*.py`, `services/markdown_import.py`, `domain/source_coverage.py`) | immutable snapshots | collect, review, record, page | catalog, policy | recorded as reviewed; a finished listing shows one view and nothing concealed |
| Release workflow (`release/*`) | pointers, history, bundles, images, container, database, backups | apply, roll back, retention | container engine, files, the service | outcomes tell the state, no accepted write is lost |
| Gitea export (`src/scripts/migration/export_gitea.py`) | staging directory, export | capture, confirm, seal, publish | a Gitea in use | what is published was there at one instant, and stays |
| Imports and one-off migrations (`services/*import*`, `services/*migration*`) | none of their own | plan, apply | catalog | run alone, offline |
| Read side (`services/queries.py`, `agent.py`, `attention.py`, `activity.py`) | none | query, project, page | policy | never shows what policy conceals |
| UI, MCP, API routes (`ui`, `mcp`, `api`) | none of their own | parse, call services, render | services | pass arguments through |

## 2. Modules

| Module | Models | Theorems |
|---|---|---|
| `ETagContract` | what an ETag promises (abstract) | |
| `RevisionClock` | revision triggers of both dialects and all kinds of writers | `RevisionsAndCatalogProofs` |
| `ObjectOwnership` | grants, catalog roles and authority edges; one action per command | `ObjectOwnershipProofs` |
| `OwnerCoverageLocking` | the same decisions as reads, locks and writes that overlap | `LockingAndKnowledgeProofs` |
| `IdempotencyContract` | what an idempotency key promises (abstract) | |
| `IdempotentCommands` | reservation, replay and execution as overlapping transactions | `IdempotencyAndProjectsProofs` |
| `CatalogReferences` | objects, typed references and edges under overlapping commands | `CatalogReferencesProofs`, `RevisionsAndCatalogProofs` |
| `ObjectEditing` | updates, previews, renames and forms of one object | `RevisionsAndCatalogProofs` |
| `PrincipalAdministration` | principals, tokens, sessions: managed commands, CLI, logins | `PrincipalAdministrationProofs` |
| `BrowserLogin` | login limits and challenges | `ReleaseAndLoginProofs` |
| `TokenFailureBuckets` | failure counters of tokens | `LeasesAndAdministrationProofs` |
| `MonitoringLeases` | the due-check scheduler with several pollers, edits and crashes | `LeasesAndAdministrationProofs` |
| `ReleaseLeases` | release checks of pollers and users | `LeasesAndAdministrationProofs` |
| `KnowledgePlanning`, `KnowledgeApply` | the planner as operators; apply and rollback step by step | `LockingAndKnowledgeProofs` |
| `ProjectRecords`, `ProjectReviews` | what is derived from project records; the commands on them | `IdempotencyAndProjectsProofs` |
| `LegacyAdoption` | import of a project's text lists as records | `IdempotencyAndProjectsProofs` |
| `SourceCoverage` | collectors, snapshots and listings | `LockingAndKnowledgeProofs` |
| `ReleaseWorkflow` | the release controller with failing commands, crashes and a service that goes on writing | `ReleaseAndLoginProofs` |
| `GiteaExport` | the export of a repository that people work on | `ReleaseAndLoginProofs` |
| `MC*` | model values, small sets and symmetry for TLC | |

Components that do not meet share a run through a host module: its variable `part`
names the component that a behaviour is of, the variables of the others rest,
and each disjunct of its next-state relation is one component's. The hosts:
`MCRevisionsAndCatalog` (revisions, editing, four kinds of catalog graphs),
`MCIdempotencyAndProjects` (commands, reviews, syncs, legacy),
`MCLeasesAndAdministration` (monitoring, principals, tokens, releases),
`MCLockingAndKnowledge` (locking, knowledge, collectors, listings),
`MCReleaseAndLogin` (release, monitoring, login, export). A host extends the first
of its components and instantiates the others.

Where components do meet, one stands on what another has shown:
`ObjectOwnership` takes as one step what `OwnerCoverageLocking` cuts into
statements; `ObjectEditing` takes a command as one step because the
compare-and-swap of `RevisionClock` makes the row it planned with the row it
writes; `CatalogReferences` leaves authority to `ObjectOwnership`; `ProjectReviews`
leaves retries to `IdempotentCommands`; what becomes of the session that a login
of `BrowserLogin` ends with is told by `PrincipalAdministration`.

### How the modules correspond to the code

**RevisionClock.** `rows` is `catalog_objects` (revision, and everything else as
one incarnation/content value), `clock` is `object_revision_clocks`. The
operators `ClockAfterInsert`, `Corrected`, `ClockAfterUpdate`,
`RevisionAfterUpdate` and `ClockAfterDelete` are the trigger functions of
`models/revision_clock.py`, in their SQLite and PostgreSQL forms; `InsertRow`,
`UpdateRow` and `DeleteRow` are the row statements with their trigger. Above them
one action per way the services write a row: the compare-and-swap commands that
refresh the row (`UpdateObject`) or compute the next token (`ClaimRevision`, and
`AttachUnassigned`, whose transaction flushes the row once more after the claim;
`Unassigned` are the contents it applies to), unconditional bumps, ORM flushes of an old snapshot, imports, direct SQL under
any ID, deletes. `published` is a history variable: every token a reader could
hold. `RevisionClock` implements `ETagContract`, which says what such a token means.

**ObjectOwnership.** `grants`, `placement`, `responsibility`, `active` and
`catalogOwner` are the tables and columns of those names; `Reach`, `Covered` and
`Can` are the queries of `services/grant_reach.py`, `access.py` and `policy.py`;
each action is one committed command with its authorization, its guards and its
coverage check, which the code runs after the change and inside the transaction
(`StaysCovered` therefore reads the primed state).

**OwnerCoverageLocking.** What `ObjectOwnership` takes as one step is here a
transaction of a worker: lock statements (`BeginLock` fixes the rows that the
SELECT finds, `Acquire` locks them one by one in ID order), `Guard` and `Check`
(what is read before the first write), `Write` (the first statement that writes:
SQLite's write lock and guard triggers, PostgreSQL's claim of the object's
revision), `Verify` (a revocation compares coverage after its deletion) and
`Commit`. `CancelDeadlocked` is PostgreSQL's deadlock victim. `LockRounds` counts
the lock statements: a deactivation runs `lock_owner_coverage_state` on entry
and once in each of its two guards, and locks the catalog owners once more as it
counts them.

**IdempotentCommands.** `records` is `idempotency_records`, `object` and
`comments` what commands create. A worker's attempt begins (on PostgreSQL by
locking the actor's row, `refresh_write_context`), looks the record up, replays
it or executes: `reserve_idempotency_record`, the command and its commit.
`IdempotencyContract` is the same as commands that run one after the other.

**CatalogReferences.** `objects`, `edges` and, per worker, the command at work.
`Start` is what a command reads and plans, on PostgreSQL under
`lock_grant_command_state`; `Finish` claims the revision ("moved" says whether the
target was written since), validates and writes. `GraphRules` is
`validate_relationship_collection`, `ReferenceBlockers` and `UpsertAllowed` are the
reference checks of `plan_object_upsert`. On SQLite an object that the session
has read keeps the values it had then (`View`).

**ObjectEditing.** One object's `doc`, a client's `policy` and the `view` it was
shown. `Refusal`, `Changes`, `Answer` and `PreviewAnswer` are the order of checks
and the answers of an update and its preview; the `...Form` operators are the
payloads that `ui/routes.py` builds from a section, with what it carries over
from the stored document (`Rows`, `Methods`, `Concealed`, `GatusAfter`).

**PrincipalAdministration.** `row`, `token`, `sessions` and `records` are stored;
`job`, `step` and `seen` are a command under way and the rows it has read. A
command arrives with its actor's access snapshot, decides (`Authorized`, `Sound`,
`SoundToken`) and writes in one transaction; `Held` are the rows that
`lock_owner_coverage_state` locks from the decision on. Managed commands compare
the revision (`Claims`), the CLI writes the one it read plus one, guard triggers
look inside the write (`TriggersAllow`). `late` marks sessions of logins that
read the principal before a change and insert after it.

**BrowserLogin, TokenFailureBuckets.** The sliding windows, challenges and slots
of `LoginProtector`, with a login cut at its two transactions, any of which may
raise; the counters of `require_api_read_access` in the order of their eviction
queries, with checks and counting as two actions.

**MonitoringLeases.** One service: `row` is its `service_check_leases` row, `seen`
its `service_observations` row, `config` what the catalog says about it. A pass of
`run_due_service_checks` is cut at its transactions and at the statements that
read and write in them: reconciliation (`BeginPass`, `ReadLease`, `Synchronize`),
selection and claim, validation, renewal, probe, revalidation and store. Instants
are kept relative to the present; `age[w]` is how long ago worker `w` read the
clock, so stale instants are explicit.

**ReleaseLeases.** The same discipline for upstream releases: `leases` and
`observed` per service instance (a recreated service is another one), steps of
pollers and of a user's manual check with its cooldown (`Manual`, `Cooling`). A
poller's session is made with `expire_on_commit=False`
(`services/release_monitoring.py:133`) and holds on to the observation that it
read at the claim, so the comparison after the request looks at that one
(`Found`), and its UPDATE writes the columns that differ from it (`Flushed`);
a user's request reads again. In both monitoring modules `Off` stands for a
service that is disabled with the same target or another one, or whose
configuration is not valid; what the code makes of them differs, so a late
result may be recorded or refused then.

**KnowledgePlanning, KnowledgeApply.** The planner's classification of a reviewed
manifest against a snapshot (`PlanFor`, `ApplyReady`, `Expected`), then each run
of the command as the steps it takes on the database file: preflight, backup
with receipt, one transaction that repeats every check and writes the audit
record (`Commit`), the checks after it; rollback with candidate, second look
(`Recheck`), rename, read-back. Other processes write between the steps, a run
may fail or die after any of them. `raced` is a history variable: what has come
into the file since a run's last look at it, by a write or by another run's
replacement (`Unseen`).

**ProjectRecords, ProjectReviews, LegacyAdoption.** `Valid` is the graph validation,
`WorkStatus`, `Scope`, `Basis` and `ReviewCurrent` what is derived for display;
commands are one transaction each, `sync_github` observes the issue outside any.
`Replay` counts the changes of content in the history (`Renewals`) where
`_requirement_at_revision` goes through it; `ReviewCurrent` is the set of records for
which the recursion of `_review_current` ends well: a review is not current if
it, or one that it waits for (`WaitsFor`), is not on its basis (`Based`) or not
accepted, or waits for itself in a circle (`seen`).
`LegacyAdoption` finds imported entries again by text, or by position in the
same list (`_legacy_match`).

**SourceCoverage.** Collectors hold what they read (`markdown`, `plan`) until they
record it; `Current`, `Resolved`, `View` are the resolution for one principal;
`FirstPage` and `NextPage` bind a listing to one view by its digest.

**ReleaseWorkflow.** `attempt` is `_ApplyState` of `release/workflow.py` and the
place where the attempt is (`at`); `pointers`, `history`, `bundles`, `staging`,
`images`, `container`, `db` and `backups` are what it works on, and survive it.
Each command, file replacement and gate is a step of its own that succeeds or
fails, and a command that failed or timed out may still have had its effect
(`MaybeStopped`, `MaybeRemoved`, `StartFails`). `Abort` is `_rollback`'s decision:
before the stop command there is nothing to undo. `Migrate` and `AcceptWrite` are
the service, which runs beside the controller; `Crash` ends the controller
anywhere. `owed` is a history variable: the writes that services accepted and
no rollback may drop, which are all but those of a release still under proof.

**GiteaExport.** `gitea` is the repository as people write to it, `index`,
`items` and `refs` what a pass of the exporter has read, page by page and item
by item; `first` is the capture of the first pass, which is published only if the
second tells the same. A request of a page gives the positions of that page among what
is stored now; items are requested in the order of their numbers (`Before`).

### Modelling decisions

- *Owner coverage.* Grant and placement rows that `lock_owner_coverage_state`
  locks after the principals can only add waiting and are left out, and so are
  the actor's authorization and row lock: the model allows more than the code.
  The SQLite `busy_timeout` error is modelled as waiting; lock statements that
  lock nothing (SQLite) are no steps.
- *Idempotency.* From SQLite's first write to its commit no other transaction
  writes, and readers see the old state: one step. Expiry is judged by the
  command's own clock. The ID check of a creation and its INSERT are one step.
  The refinement is stated for PostgreSQL; on SQLite a comment can end up with
  an instance that has been replaced meanwhile.
- *Catalog.* One typed reference per document (a decision's successor, an
  assignment); lists of references and runbook supersession use the same check.
  Relation types without rules of their own and the per-runbook rule of
  `operations_runbook_for` are left out.
- *Editing.* Addresses, ports and endpoints are one list of rows. Moving a
  reference inside a list, the raw JSON editor, runbook and project form details,
  and the blockers of kind changes (in `CatalogReferences`) are left out. One
  client's old views stand for those of another.
- *Principals.* One token name per account; password generations and token
  values are numbers. On SQLite a command that re-authenticates writes an event
  first, which is why the gated commands decide under the write lock there.
- *Token counters.* The table holds more than its limit only after a restart with
  a lower one: not modelled.
- *Monitoring.* The lease row's identity is the service instance: an UPDATE or
  DELETE by primary key is one by instance, as the unique key makes it. The
  branch for `observation=None` of a provider is unreachable and left out.
- *Ownership.* Of the grant roles only the permissions that the modelled commands
  ask for are told apart. Revisions are `RevisionClock`'s.
- *Knowledge.* Digests are the values they digest. Owner grants of new objects,
  the source bundle and file modes are left out; a backup without a receipt
  serves nobody.
- *Projects.* `SourceRead` and `Complete` of a sync are two steps as on SQLite
  (nothing comes between them on PostgreSQL). `Age` stands for the 15 minutes of
  an observation, not counted while it is in flight. Dispositions, `blocked_by`,
  questions and blockers are left out.
- *Coverage.* Digests leave times out, as the code's do. A Markdown recording keeps
  the entries of its own source only, a manifest keeps all others as absent.
- *Export.* Labels carry no stamp (a change there and back goes unnoticed) and
  are left out; refs are pinned by commit.
- *Release.* A release has one image; tags, build modes, sidecar files and torn
  history lines are abstracted, and so are the plan and status commands, which
  write nothing. The candidate, which works on a copy, is one step; the hooks
  are part of the verification. `InspectMayFail` says whether `container inspect`
  can fail for a container that exists. A full history fails the commit, and
  then the rollback's own entry too: such an attempt ends contained. Operators'
  repairs are not modelled. The rollback of a first install may leave a migrated
  database when it is interrupted, so `AttemptsTellTheState` speaks of managed
  releases.
- Definitions that begin with the comment "Seeded fault" belong to no
  specification: each is a plausible bug of one definition, and the property it
  was written for is known to fail when it takes that definition's place.

## 3. What the runs check

| Run | Question | Instance, and why it is enough |
|---|---|---|
| `revision_clock` | Does an ETag stay bound to one representation through updates, deletes, re-creations and key changes, on both databases? Are computed tokens the stored ones but for one command, does none ever mean something else, and is `ETagContract` implemented? Do the rules of the graph survive overlapping commands, do references lead to what they name? Do saves keep what their editor was not shown, previews tell what updates do? | 2 IDs (a row can move to an ID with history), revisions 1..4 (lowered, equal and raised ones; one ID reaches the last while the other has had two), 2 incarnations, 2 contents, one of them unassigned. Catalog: 3 objects (the shortest cycle two commands can close between them), 2 workers, one kind of graph at a time: devices with primary and other attachments, networks that become switches, hosts with unassigned services (PostgreSQL), decisions with successors. Editing: 1 client, 5 policies, a document of each kind that forms treat differently, 2 saves, 1 change of policy |
| `revision_attach` (violation) | Is the token of a response the stored one? | the same IDs, revisions and contents |
| `ownership` | Are authority edges sound, can anything but a kind change orphan an owned object, are objects created owned, does a catalog owner remain, do managers keep access to what they manage? | 3 objects: the longest reach is host, system, service; 4 kinds; a role that manages and one that does not; 2 principals; 2 grants |
| `ownership_kind_change` (violation) | Does an owned object stay owned? | 3 grants |
| `locking` | Do coverage and the last catalog owner survive overlapping transactions, and does each of them end? Are knowledge entries applied once, do reports tell what happened to the file, does a rollback undo its apply and nothing else? Is a recorded manifest what was reviewed, does a finished listing show one view, and nothing concealed? | 3 workers with any jobs (in one order, as workers differ in their jobs only), 2 principals, 1 object: two decisions and a grant or promotion between them. Knowledge: 2 runs, 3 manifests (new document and fact, a relation declared by both ends, a blocked entry), 2 plans, 2 backups, 1 other write. Collectors: a Markdown and a manifest collector that overlap, 2 objects, 3 keys in 2 sources, 2 snapshots, 1 change. Listings: both scopes, 1 change of catalog, grant or snapshot |
| `idempotency` | One effect per key, replays of what exists, commands as if one after the other, every request answered? Does a review that is shown as current say what is missing and open now? Was a led status seen in the repository that leads now? Does an entry of a legacy list become one record at most? | 3 attempts (in one order, as they differ in what they ask only), 2 keys, 3 requests, one expiry, one deletion and re-creation. Reviews: a use case, 2 requirements, a task, an evidence, 4 saves. Syncs: a use case, a requirement, a task, a repository, 3 saves. Lists of up to 3 entries over 2 texts, 4 records |
| `idempotency_sqlite_expired` (violation) | One effect per key after it expired, on SQLite? | the same commands without deletions |
| `leases_and_administration` | One probe at a time, under a live lease, stored for the current target? Does an administrator remain, do dead credentials stay dead, do the gates hold under overlap? Is throttling never lost and never without cause? Are release answers ordered and cooldowns kept? | 2 pollers, 2 targets, 1 edit, a crash; lease 2, deadline 1, steps up to 3 ticks apart, so that leases expire between any two steps. 2 humans, 1 service account; the commands of the API and the CLI that can get in each other's way, and logins, any 3 of them in a behaviour. Buckets: 2 sources, 2 tokens, room for 4 counters, limits 4/2/2, 2 windows. Releases: 2 workers, 2 targets, lease 2, cooldown 2, backoff 2, a clock up to 3, so that a lease can run out during a request; a service that is new or was checked an interval ago; 1 edit, 2 instances, 2 checks |
| `leases_disabled` (violation) | One probe at a time when monitoring is disabled and enabled again? | 2 pollers, 1 edit |
| `release` | Are accepted writes kept, and do outcomes, pointers, bundles, images and generations agree, through failures of every command, rollbacks and crashes at every step? Do attempts end? Is an enabled service checked again and again? Is password work bounded, do slots come back, how many logins does a challenge let in? Is an export what was there at one instant, and does it stay? | 3 releases, one with a newer schema; 2 attempts (the second meets what the first left), 2 writes; retention 2, a history that fills up. Monitoring: 2 pollers, a target or off, 1 edit, 1 crash. Logins: 2 threads and 2 slots, 2 challenges, limits 3/1/3/3. Export: an issue, a deleted number, a closed pull request, a comment on each, pages of one, 2 writes |
| `release_inspect` (violation) | Are accepted writes kept when `container inspect` can fail? | 1 attempt, 1 write |
| `knowledge_unpaired` (violation) | Does any intervening change prevent a rollback? | 1 run at a time, 1 plan, 2 backups, 1 other write |

Symmetry is used for workers, objects, incarnations, keys and contents (not those of the
revision clock, one of which is unassigned) only in runs whose properties
are invariants or step properties. `CHECK_DEADLOCK FALSE` stands where the system
may stop: all jobs or attempts done, bounds on attempts, edits or writes reached.

### Fairness

- Workers and attempts (`WF_vars(Step(w))`): a request thread runs on, the
  database serves waiting statements, and PostgreSQL cancels one transaction of
  a cycle; the row-lock holder ends because it never waits for a client.
- Monitoring (`WF_vars(PassStep(w))`, `WF_vars(Tick)`): `run_monitoring_poller`
  loops until shutdown and survives a failed pass, and time passes. Edits and
  crashes have no fairness. `Deadline < Lease` is what
  `MonitoringSettings.__post_init__` enforces. `MaxAge` bounds how long a worker
  stalls between two steps: `leases_and_administration` lets it exceed the lease,
  `release` does not, because a pass that always stalls for longer than its lease
  never renews it.
- Logins (`WF_vars(Serve(w))`): a thread that has begun a request goes on with it.
- Release (`WF_vars(Step)`): every command, poll and hook of the controller has a
  finite timeout. Crashes and the service's writes and migrations have no
  fairness: an attempt ends even if the service never becomes ready.

### What the violations show

1. `revision_attach`: the relationship command of an explicitly unassigned object
   that is placed on a host answers with the revision it claimed. Clearing the stated
   placement then flushes the row again, the trigger moves it one revision further, and
   the ETag of the response never matches. `AnswersNeverMislead` says that it matches
   nothing else either, `OnlyAttachingSkips` that no other command does this.
2. `ownership_kind_change`: an Owner grant with scope `responsibility` stops counting
   when its object becomes a runbook, and nothing compares coverage on a kind
   change. `OnlyKindChangeOrphans` and its theorem say that this is the only way.
3. `leases_disabled`: reconciliation deletes a lease row by primary key on an expiry
   that it read before; a claim committed in between goes with it. The reconciliation
   of release checks has the same deletion (`services/release_monitoring.py:316-317`),
   against `docs/release-monitoring.md:88-90`: it takes the lease of a manual or
   scheduled check, and the next check asks the provider at the same time.
   `ReleaseLeases` has that step (`robbed`), and `OneCheckAtATime` says that it is the
   only way to two checks under leases that have not expired.
4. `idempotency_sqlite_expired`: an expired record is deleted by a rowid that SQLite
   has given to its successor, so overlapping retries both run.
5. `release_inspect`: one failed `container inspect` reads as "no container", so the
   stop is skipped, the last snapshot is taken while the service still runs, and
   a rollback restores it over what the service accepted afterwards.
6. `knowledge_unpaired`: a rollback compares its receipt with the plan only, never
   with the audit record of the apply. The receipt of an earlier run of the same
   plan is accepted, and a write made between the two runs is lost.

### What else came to light

The properties below are stated with these exceptions, each of them written out
in the property rather than assumed away.

- *Deadlocks* (`locking`): a later lock statement can find a lower ID than the rows
  its transaction already holds, so the declared row order alone does not rule
  deadlocks out (`CancelDeadlocked` fires). PostgreSQL cancels one and nothing is
  lost.
- *Coverage on SQLite* (`LocksKeepCoverage` speaks of PostgreSQL only): a deactivation
  compares coverage before its first write, so a deactivation of one of the last two
  Owners and a deactivation or revocation of the other can each count on the other's
  principal (`docs/auth-rbac.md:864-866`). Catalog owners are guarded by
  triggers that look inside the write: `CatalogOwnerKept` holds on both databases.
- *Sessions* (`AuthorityKept`): a login that read its principal before a deactivation
  and inserts its session after it outlives it (`docs/auth-rbac.md:20-21`). And on
  SQLite the CLI writes the revision it read plus one (`cli/auth.py:538`), which can
  set a revision back; an update that had read that revision while the principal
  was inactive then takes the deactivation for no change (`deactivating = row.active
  and not active`, `services/principal_management.py`) and leaves its sessions alone.
  It takes five commands, more than the run allows; the proof attempt found it.
- *Login challenges* (`ChallengesLetFewIn`): they are not consumed by
  compare-and-swap, so as many logins as there are slots can share one
  (`docs/security.md:34`).
- *Release checks* (`NewestAnswerKept`, `CooldownMissedByRacesOnly`): the comparison that
  is to keep the newest answer is blind in a poller to whatever was stored during
  its request. As long as one check holds the lease nothing is, but a check whose
  lease ran out, or was deleted, puts its older answer over the newer one. The
  UPDATE leaves out the columns that did not change in its session, so the record
  can then hold parts of both. A manual check can miss the cooldown when the earlier
  answer is stored after it looked (`docs/release-monitoring.md:95`).
- *Knowledge* (`RefusedForDoubleCountsOnly`): a relation that the entries of both its
  ends declare is counted twice by the planner, so such a plan is ready and always
  refused. A write that lands right after the commit makes a committed apply
  report evidence drift; one between the second look and the rename of a rollback
  is lost (`raced`), and so is what another rollback put in place in between.
- *Projects* (`CurrentReviewsAreOfThisContent`, `CurrentReviewsHold`): a requirement that was a task in
  between keeps its revision and its current review with new content
  (`docs/project-management.md:51-53`, `:76-78`). An accepted review stays current when
  new failing evidence appears; a comment on evidence makes reviews stale. Moving work
  to another requirement and back puts an older review in force again.
- *Catalog* (`ReferencesHold` speaks of PostgreSQL only): on SQLite overlapping
  commands can leave a dangling reference, a cycle of successions (despite
  `docs/decisions.md:63`) or an edge between kinds that blocks every later
  `create_relationship`, and `_clear_explicit_unassigned_state` can write back a
  stale document.
- *Editing* (`SavesKeepTheRest`): a reference that was concealed when the form was
  opened and discoverable when it is saved is silently dropped, since a grant does
  not move the ETag. A decision, runbook or project with a reference that its editor
  may not read cannot be saved at all, and a full REST or MCP replacement of a shown
  document drops the concealed references. Ordinary UI saves make provenance
  manual by design (`docs/provenance.md`).
- *Source coverage*: two overlapping Markdown recordings can lose an entry without
  a tombstone (`docs/source-coverage.md:34`); the instant of a Markdown plan is taken
  before its transaction, so it may not become current; re-recording keeps the
  older imported fingerprint.
- *Gitea export* (`ExportsAreOneInstant`): an item both made and deleted during the
  export may be missing from the instant.

## 4. What is proved

The proof modules hold for every value of the constants that satisfies the
named assumptions of the component modules. Each property was model-checked
first, and so was each inductive invariant; several of them had to be
strengthened, and some models corrected, because a step could not be proved.

- **`RevisionsAndCatalogProofs`** is about the whole host `MCRevisionsAndCatalog`, whose
  IDs, documents, policies and targets are constants.
  - *tokens*: `TypeCorrect`, `TokenBindingHolds`, `TokensAreUnambiguousHolds`,
    `AnswersNeverMisleadHolds`, the step property `OnlyAttachingSkipsHolds` and the
    refinement `ContractImplemented`. The invariant
    `IInv` adds to the checked ones that clocks are high-water marks of all published
    tokens; without it a re-created ID could take a revision that an old token carries.
    A revision that was skipped stays skipped, because clocks do not go back and every
    new token lies above its clock (`Grows`).
  - *catalog* (`CatalogSoundHolds`): each of the four instances keeps its types,
    its references and its edges, by the theorems of `CatalogReferencesProofs`.
  - *editing* (`EditsToldHolds`, `WritersStayInBounds`): the stored document stays one
    that validation admits, and moves with its revision (`EditingInv`, kept by every
    form because what an update plans is again such a document, `TargetSound`). On such
    a document two credential references that differ in their content only are
    answered alike to a client who may not read it (`ContentStaysHidden`), and an update
    that is not refused changes something if and only if its preview shows something
    (`DiffTells`). What a client writes lies in the fields its policy admits.
- **`ObjectOwnershipProofs`**: `StructureSoundHolds`, which has the types, and as step
  properties `CoverageKept` (only a kind change orphans), `CreatedObjectsOwned`,
  `CatalogOwnerStays` and `ManagersKeepAccessHolds`. `StructureSound` is
  inductive; that placement edges connect the right kinds is what makes a created
  or attached object leave the reach of every other grant alone. Managers keep
  access because a command on the actor's own grant looks at what is left, and
  one on another's leaves whatever carries the actor (`OwnGrantsCarryAccess`).
- **`LockingAndKnowledgeProofs`** is about the whole host `MCLockingAndKnowledge`.
  - *locking*: `TypeCorrect`, `CoverageKept` (PostgreSQL) and `CatalogOwnerStays` (both
    databases), for any number of workers. Row locks alone would not do: a lock
    statement locks what it finds when it starts, and a grant or a promotion that
    commits while it waits adds rows that it never locks. The invariant says that a job
    already holds its own principal's row when the statement before a decision starts
    (`HoldsOwnRow`); nobody then makes that principal an Owner or a catalog owner, so
    of two jobs that both matter for a decision one still waits for the other's row
    (`CountsExclude`, `ComparisonsExclude`), and what a job has compared stays true until
    it commits (`CountsHold`, `ComparisonsHold`). This is why the lock statements that the
    code repeats are needed and not merely cautious: the first one puts the own row
    under lock, and the one after it is the statement that counts.
  - *knowledge* (`RunsStayAccountable`, `RollbacksUndoTheirApply`): for any references,
    values, manifests and runs of the command. `KnowledgeInv` says of the active file
    and of every backup that an apply it records has a receipt whose backup did not
    have that apply, that a digest it carries is of the writes which that backup has,
    and that no entry is applied twice (`Accounted`). It has to be said of backups
    too, because a rollback puts them in place. What the receipt of a run's own plan backs up has the writes that the run
    saw in the active file (`RunSound`); between that look and the rename only what
    `raced` counts comes in. That an apply refuses what its plan announced only for a
    relation declared by both ends needs that a transaction adds as many relations
    as the plan's targets add one by one, which is so unless two of them add the same.
  - *source coverage* (`CoverageIsTold`, `ManifestsRecordedAsReviewed`): for any keys,
    readings, manifests and objects. A listing has shown its view up to the key that its
    cursor names (`ListingSound`), and a page goes on with a view of the same digest only;
    concealed objects change nothing because what is kept of an entry's mappings is the
    same. When a manifest is recorded, the evidence of its dry run is still that of the
    catalog, so its targets are all there and seen, and the resolver sees the entries
    whole (`ShownAsIs`).
  The assumptions (`ConstantsSound` of both components) are `ASSUME`d in the host, where
  TLC evaluates them.
- **`IdempotencyAndProjectsProofs`** is about `IdempotentCommands` and about the whole
  host `MCIdempotencyAndProjects`.
  - *commands*: `TypeCorrect`, `OneEffectPerKeyHolds`, `ReplaysNameWhatExistsHolds` and
    the refinement `ContractImplemented` (PostgreSQL), for any requests, keys, attempts,
    expiries and deletions. On PostgreSQL a transaction under way holds its actor's row
    (`ActorWaits`), so the record that it read is still the stored one when it runs
    (`SeenIsStored`), and the object that a comment has locked stays (`ObjectStands`).
    On SQLite nothing of this holds; the effects are still counted right until a key
    expires (`EffectsCounted`), and `idempotency_sqlite_expired` shows what happens
    then. That a replay names its own comment needs `RowsNameTheirComment`: rowids that
    SQLite gives out again never make a row name another command's result.
  - *projects* (`RecordsAreSound`, `StatusesWereObserved`): for any records, criteria and
    number of commands. A review stores its basis, and what it says is compared with
    the present only if that basis is the same, so `ReviewSound` says of every review
    that was ever given what it still says of whatever has not changed since. What
    is missing is not part of the basis: it stays because criteria change with the
    revision only (`CriteriaStay`), for which validation has to ask for a reason and
    refuse criteria of anything but a requirement. That the graph stays valid
    (`GraphSound`) although a command validates only its own record needs that the
    criteria which a revision had are found under its number ever after
    (`CriteriaGrow`); this is where the history and the writer have to count alike
    (`HistorySound`). What a current review waits for is accepted and current itself
    (`CurrentIsBased`), so it says what is unaccepted now. It may except more than
    that: when work is moved to another requirement and back, an older review of the
    first is in force again. What is excepted beyond need is of this kind only: it has
    not been reviewed since (`CurrentReviewsHold`). A sync keeps the version of the repository record that it
    read; as versions only rise, a status that is fresh was read of the record as it
    is (`ReadingSound`).
  - *legacy lists* (`RecordsAreSound`): for any texts. `LegacyInv` says that a record
    stands for an entry of the list it was imported from; when an entry is imported, all
    records of its text are of this very list and of other places (`EntryIsFree`), so
    a text has no more records than it once had places.
- **`CatalogReferencesProofs`**: `CatalogStaysSound`. The collection validator looks at
  all edges in the very step that writes, so the rules of the graph need no
  exclusion. References do: a command on PostgreSQL is alone from its first read
  on (`Exclusive`), so what it has read and planned still stands when it writes. The
  assumption `DocumentsAreRecords` (documents are records of the four fields that
  the model tells apart) is `ASSUME`d of the instances of `MCRevisionsAndCatalog`,
  where TLC evaluates it, and so are the assumptions about the documents, policies
  and targets of `ObjectEditing`.
- **`PrincipalAdministrationProofs`**: `TypeCorrect`, `AuthorityStaysKept` and
  `GatesAlwaysHold`, for any principals, commands and workers on both databases.
  What a command has read of its target is what is stored when it writes
  (`ReadsStand`): by the row locks on PostgreSQL, elsewhere by the revision it
  compares, unless the CLI has set that back (`raced`); so what it decided
  (`DecisionsSound`) still stands. The triggers keep the last administrator
  whatever was decided. A write that leaves sessions alone leaves activity and
  password alone too (`SparedWrite`). Token values are fresh (`ValuesUnique`), and a
  record under a key is the only one (`OneRecordPerKey`). That numbers stay in
  their types needs `Counted`: every command moves a row on by one at most. The
  assumption `ConstantsSound` is `ASSUME`d in `MCLeasesAndAdministration`.
- **`LeasesAndAdministrationProofs`** is about the whole host
  `MCLeasesAndAdministration`, whose requests, installed principals, sources, tokens,
  durations and limits are constants; the assumptions of the four components are
  `ASSUME`d there, so TLC evaluates them. `AccessGuardedHolds` and `GatesHoldAlways`
  carry the facts about principals over to what the run checks and add:
  - *monitoring* (`ProbesUnderLease`, `OneCheckAtATime`, assuming that monitoring is
    never disabled, `Off \notin Configs`; without it `AtMostOneCheck` is false). The
    core is `Margin`: while a worker probes, its claim has as many ticks left as the
    probe may still take, and one more; so no other worker can find the row free.
    `ResultsValidated` and `StoredForCurrentTargetHolds` need no lease and no such
    assumption: a result that waits to be stored was validated at a revision that,
    while it is the current one and monitoring is enabled, means the same target.
  - *tokens*: who has reached a limit is denied, and nobody is denied without cause,
    for any limits, any bound of the table and any batch. `TokenInv` adds to the types
    that the table is in the order of the windows with one row per counter and
    window (`TableSound`), and that either the window is closed or every counter
    still remembers its failures (`Remembers`), and that a counter that counts more
    than it has seen is the global one of a full table (`Blames`). The order is what
    makes the rows that eviction and pruning take first the expired ones.
  - *releases* (`ReleaseChecksStayOrdered`). What a worker has read is dated before the
    clock (`ReadingsDated`), who has claimed a row and is not robbed by a reconciliation
    finds it unchanged as long as the lease lasts (`ChecksHold`), a row that was
    checked by hand cools down (`CooledDown`), and no answer, stored or on its way, is
    newer than that of a check whose lease still runs (`AnswersInOrder`; `late` remembers
    checks that asked after their lease). The last is what replaces the comparison that
    a poller makes with what it read before the request.
- **`ReleaseAndLoginProofs`** is about the host `MCReleaseAndLogin`.
  - *release workflow*: `TypeCorrect` and `PointersStaySound` for any failures,
    from `FileInv`: the pointers are those that the attempt found or committed
    (`PointersFollow`), generations are bounded by the attempts so far
    (`GenerationsBounded`), and what either pair names is backed all the while
    (`AttemptBacked`), so retention never removes what a late rollback restores.
    `WritesStayKept` and `AttemptsTellTheStateHolds` need an engine that answers for its
    containers (`~InspectMayFail`; `release_inspect` shows that the code needs it too).
    Their invariant `ServiceInv` says where container and database are at each stage
    (`ContainerFollows`, `DatabaseFollows`, `Coherent`), that owed writes are live
    (`OwedIsLive`) or preserved (`OwedIsPreserved`), and that the backup that a
    rollback would restore holds them all (`BackupHoldsOwed`), which is why the last
    backup is taken with no container in the way.
  - *login* (`LoginsStayBounded`): for any threads, sources, accounts, limits, window and
    slots. `LoginInv` counts: as long as a window is open, the verifications of an account
    since it began and its logins at work are no more than its attempts since then and
    one for each slot (`VerifiedAreAttempts`), because a verification takes the place of
    a login that is at work and such a login was admitted in the window or held a
    slot when it began. Attempts are limited (`AttemptsLimited`), and what happened in a
    window that is over stays. While a challenge is fresh, nobody has signed in by it and
    whoever passes it holds a slot; later nobody new passes it (`PassingLimited`).
  - *export* (`ExportsAreSound`): for any repository, page size and number of writes.
    Nothing is locked, so the proof is by what writing cannot undo (`Grown`): what is
    deleted stays deleted, and what has a stamp of an earlier instant is what it was
    then. When the last page of a listing is read in the first pass, the listing is as
    long as what is stored, and all that was there before the export and still is,
    is stored (`Captured`). When its first page is read in the second, what was stored
    between the passes and is not stored now is gone for good (`Again`). If the two passes
    tell the same, both sets are as large as the listing and contain it, so they are the
    listing (`SameListing`). Reviews and refs carry rising stamps: equal at both ends,
    they were equal between.

Only model-checked: the liveness properties `JobsEnd`, `EveryRequestAnswered`,
`AttemptsEnd`, `KeepsBeingChecked` and `SlotsComeBack`, as liveness and `ENABLED` are out
of the prover's reach, and `SavesKeepTheRest` and `EditsKeepTheRest` of `ObjectEditing`,
which speak of the order of rows that are left: that is what `SelectSeq` computes,
induction over data, and TLC's.

## 5. Not modelled, and the plan

`PROJECT.json` lists every component with its status and every hazard with the
properties that cover it. What is left out, and why:

- *Monitoring providers and probes* (`services/monitoring_*`): network input and
  output and response parsing; any answer may come at any time up to the
  deadline. The ordering of release versions is data.
- *Read side* (`services/queries.py`, `agent.py`, `attention.py`, `activity.py`): no
  state of its own. Where it decides what a principal is shown and something is
  built on that, it is part of `ObjectEditing` and `SourceCoverage`.
- *Surfaces* (`api`, `mcp`, `ui`): they parse, call services and render, except for the
  forms and the login page, which are modelled.
- *Object schemas* (`domain/object_schema.py`, `ui_schema.py`): fields and formats of
  each kind, data that no property tells apart.
- *Startup, migrations of the schema and readiness*: one-shot scripts; the triggers
  they install are part of `RevisionClock` and `OwnerCoverageLocking`.
- *One-off migrations of data* (placement, decision, project, runbook, interface):
  run alone. Read all the same: their apply re-reads rows, compares them with the
  plan and flushes `revision += 1` without compare-and-swap, so a write committed
  between that read and the flush is overwritten, although the documents say that
  apply fails if a row changed after planning (`docs/decisions.md:175`,
  `docs/service-interfaces.md:86`).
- *Import of workspace objects and seeds*: run alone. Read all the same: a reimport
  deletes an imported parent system that has no edges left even though the same
  file lists it; it adds `unassigned` again to an imported system that an operator
  has placed (`docs/markdown-import.md:99-102`).

Next, in order:

1. A model of workspace import and of the one-off migrations with a concurrent
   writer, in place of what is said of them above.
2. Creation commands of projects and access records, whose authority and retries
   `ObjectOwnership` and `IdempotentCommands` show for objects.

The suite is kept small: a new component shares a run with another one
through a host module, or its run takes the place of a weaker one.
