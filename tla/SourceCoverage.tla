---------------------------- MODULE SourceCoverage ----------------------------
(***************************************************************************)
(* Source coverage (domain/source_coverage.py, services/source_coverage.py,       *)
(* services/source_coverage_manifest.py, the snapshots of                       *)
(* services/markdown_import.py): two kinds of collectors record immutable          *)
(* snapshots, the newest is resolved against the catalog for one principal, and    *)
(* a listing pages through what that principal may know.                         *)
(*                                                                         *)
(* Fingerprints and digests are the values that they digest.  Of an object the     *)
(* catalog tells whether it is there, stale, or of another kind than reviewed.      *)
(***************************************************************************)
EXTENDS Integers, FiniteSets

CONSTANTS Keys,        \* (source, entry) identities, in the order of listings
          SourceOf,    \* the source of each key
          Tools,       \* the source that the Markdown collector reads
          Objects, States, \* what the catalog may say of an object, "gone" among it
          Readings,    \* what TOOLS.md may say: rows [fp, intent, candidates] by key
          Manifests,   \* reviewed manifests: entries by key
          Recorders,   \* Markdown collectors at work
          Scopes,      \* whether clients ask for the elevated view
          MaxTime, MaxSnapshots, MaxChanges, None

VARIABLES
    snapshots,  \* source_snapshots with their entries and mappings
    catalog, visible, now, changes,
    markdown,   \* what each Markdown collector holds, or None
    plan,       \* the manifest dry run whose evidence the operator retains, or None
    listing     \* the listing that a client pages through, or None

vars == <<snapshots, catalog, visible, now, changes, markdown, plan, listing>>

Gone == "gone"
Roles == {"primary", "derived"}
Intents == {"expect_object", "no_catalog_object"}

(* What the proofs about this module assume: listings are in the order of numbers,   *)
(* and a reviewed manifest maps nothing that it says is not of the catalog            *)
(* (ManifestEntry).                                                           *)
ConstantsSound ==
    /\ Keys \subseteq Nat \ {0} /\ MaxTime \in Nat \ {0} /\ MaxSnapshots \in Nat /\ MaxChanges \in Nat
    /\ \A rows \in Readings :
          /\ DOMAIN rows \subseteq Keys
          /\ \A k \in DOMAIN rows : \A i \in DOMAIN rows[k].candidates : rows[k].candidates[i] \in Objects
    /\ \A manifest \in Manifests :
          /\ DOMAIN manifest \subseteq Keys
          /\ \A k \in DOMAIN manifest :
                LET e == manifest[k]
                IN  /\ DOMAIN e = {"fp", "intent", "presence", "maps"}
                    /\ e.presence \in {"present", "absent"} /\ e.intent \in Intents
                    /\ e.intent = "no_catalog_object" => e.maps = {}
                    /\ \A m \in e.maps : m.object \in Objects /\ m.role \in Roles

Restricted(f, S) == [k \in DOMAIN f \cap S |-> f[k]]

(* _current_snapshot_row; CHOOSE stands for the order of the digests.  Where there   *)
(* is none, an older one of nobody and of no entry stands for it.                  *)
NoSnapshot == [collector |-> "none", at |-> 0, entries |-> [k \in {} |-> None]]
Current ==
    IF snapshots = {} THEN NoSnapshot
    ELSE CHOOSE s \in snapshots : \A t \in snapshots : t.at <= s.at
Entries(s) == s.entries
Digest(s) == [collector |-> s.collector, entries |-> s.entries]

-----------------------------------------------------------------------------
(* resolve_coverage of entries, against the targets that exist.                  *)
PrimaryOwners(entries, o) ==
    {k \in DOMAIN entries : /\ entries[k].presence = "present"
                           /\ \E m \in entries[k].maps : m.object = o /\ m.role = "primary"}

ResolveState(entries, k, cat, targets) ==
    LET e == entries[k]
        primary == {m \in e.maps : m.role = "primary"}
    IN  IF e.presence = "absent" THEN "missing_source"
        ELSE IF \E m \in e.maps : m.object \notin targets THEN "orphaned_catalog_reference"
        ELSE IF e.maps = {}
        THEN IF e.intent = "no_catalog_object" THEN "intentionally_unmapped" ELSE "unmapped_operational"
        ELSE IF Cardinality(primary) > 1 THEN "ambiguous_mapping"
        ELSE IF \E m \in primary : Cardinality(PrimaryOwners(entries, m.object)) > 1
        THEN "duplicate_mapping"
        ELSE IF \E m \in e.maps : m.fp # e.fp THEN "source_changed_since_import"
        ELSE IF \E m \in e.maps : cat[m.object] = "stale" THEN "mapped_stale"
        ELSE "mapped_current"

Kind(state) == IF state = "other kind" THEN state ELSE "reviewed kind"

Resolved(entries, cat, targets) ==
    {[key |-> k, fp |-> entries[k].fp, intent |-> entries[k].intent, presence |-> entries[k].presence,
      state |-> ResolveState(entries, k, cat, targets),
      maps |-> {[object |-> m.object, role |-> m.role, changed |-> m.fp # entries[k].fp,
                 kind |-> IF m.object \in targets THEN Kind(cat[m.object]) ELSE None]
                    : m \in entries[k].maps}]
        : k \in DOMAIN entries}

(* resolve_visible_coverage for a principal who reads the objects in seen;         *)
(* sourceOnly is the elevated view.                                            *)
Mapped(e, cat, seen, sourceOnly) ==
    {m \in e.maps : \/ m.object \in seen /\ cat[m.object] # Gone
                    \/ sourceOnly /\ cat[m.object] = Gone}

Listed(e, cat, seen, sourceOnly) ==
    LET maps == Mapped(e, cat, seen, sourceOnly)
    IN  /\ e.presence = "present" \/ sourceOnly
        /\ ~(maps = {} /\ e.maps # {} /\ e.presence = "present")
        /\ maps # {} \/ sourceOnly

View(entries, cat, seen, sourceOnly) ==
    LET shown == [k \in {k \in DOMAIN entries : Listed(entries[k], cat, seen, sourceOnly)} |->
                     [entries[k] EXCEPT !.maps = Mapped(entries[k], cat, seen, sourceOnly)]]
    IN  Resolved(shown, cat, {o \in seen : cat[o] # Gone})

(* What a client that asks now is shown.                                       *)
Coverage(sourceOnly) == View(Entries(Current), catalog, visible, sourceOnly)

-----------------------------------------------------------------------------
Init ==
    /\ snapshots = {} /\ now = 1 /\ changes = 0 /\ plan = None /\ listing = None
    /\ catalog \in [Objects -> States] /\ visible \in SUBSET Objects
    /\ markdown = [r \in Recorders |-> None]

(* record_source_snapshot.                                                    *)
Record(s) ==
    IF Digest(Current) = Digest(s) THEN UNCHANGED snapshots
    ELSE /\ Cardinality(snapshots) < MaxSnapshots
         /\ \A t \in snapshots : t.at = s.at => Digest(t) # Digest(s)
         /\ snapshots' = snapshots \cup {s}

(* _build_coverage_snapshot: rows keep the mappings they had, rows that are gone    *)
(* stay as absent ones, other sources are left out.                             *)
MarkdownEntries(rows, previous, cat) ==
    LET old == Restricted(Entries(previous), {k \in Keys : SourceOf[k] = Tools})
        new(k) ==
            LET c == rows[k].candidates
                role(i) == IF \A j \in 1..(i - 1) : cat[c[j]] = Gone THEN "primary" ELSE "derived"
            IN  {[object |-> c[i], role |-> role(i), fp |-> rows[k].fp]
                    : i \in {i \in DOMAIN c : cat[c[i]] # Gone}}
    IN  [k \in DOMAIN rows \cup DOMAIN old |->
            IF k \in DOMAIN rows
            THEN [fp |-> rows[k].fp, intent |-> rows[k].intent, presence |-> "present",
                  maps |-> IF k \in DOMAIN old THEN old[k].maps ELSE new(k)]
            ELSE [old[k] EXCEPT !.presence = "absent"]]

(* blockwart-import-markdown --record-coverage: the instant is that of the plan     *)
(* made before the transaction; what the transaction reads may be old when it       *)
(* records.                                                                  *)
PlanMarkdown(r) ==
    /\ markdown[r] = None
    /\ markdown' = [markdown EXCEPT ![r] = [at |-> now, entries |-> None]]
    /\ UNCHANGED <<snapshots, catalog, visible, now, changes, plan, listing>>

CollectMarkdown(r) ==
    \E rows \in Readings :
        /\ markdown[r] # None /\ markdown[r].entries = None
        /\ markdown' = [markdown EXCEPT ![r].entries = MarkdownEntries(rows, Current, catalog)]
        /\ UNCHANGED <<snapshots, catalog, visible, now, changes, plan, listing>>

RecordMarkdown(r) ==
    /\ markdown[r] # None /\ markdown[r].entries # None
    /\ Record([collector |-> "markdown_tools", at |-> markdown[r].at, entries |-> markdown[r].entries])
    /\ markdown' = [markdown EXCEPT ![r] = None]
    /\ UNCHANGED <<catalog, visible, now, changes, plan, listing>>

-----------------------------------------------------------------------------
(* _materialize_snapshot.                                                     *)
ManifestEntries(manifest, previous) ==
    LET old == Entries(previous)
    IN  [k \in DOMAIN manifest \cup DOMAIN old |->
            IF k \in DOMAIN manifest THEN manifest[k] ELSE [old[k] EXCEPT !.presence = "absent"]]

(* _target_evidence.                                                          *)
Targets(entries) == {m.object : m \in UNION {entries[k].maps : k \in DOMAIN entries}}
Evidence(entries, cat, seen) ==
    [o \in Targets(entries) |->
        IF cat[o] = Gone THEN "missing" ELSE IF o \notin seen THEN "concealed" ELSE cat[o]]

(* The blockers of build_collection_plan.                                      *)
Blocked(manifest, at) ==
    LET entries == ManifestEntries(manifest, Current)
        found == Evidence(entries, catalog, visible)
        new == [collector |-> "manifest", entries |-> entries]
    IN  \/ \E o \in DOMAIN found : found[o] \in {"missing", "concealed"}
        \/ \E o \in Targets(manifest) : found[o] = "other kind"
        \/ \E k \in DOMAIN entries :
              /\ entries[k].presence = "present" /\ entries[k].intent = "expect_object"
              /\ Cardinality({m \in entries[k].maps : m.role = "primary"}) # 1
        \/ \E o \in Objects : Cardinality(PrimaryOwners(entries, o)) > 1
        \/ Digest(Current) # new /\ at <= Current.at

(* What the dry run digests: inputs, targets and policy.                         *)
Contract(manifest, at) ==
    [previous |-> Digest(Current), policy |-> visible,
     evidence |-> Evidence(ManifestEntries(manifest, Current), catalog, visible)]

DryRun ==
    \E manifest \in Manifests, at \in 1..MaxTime :
        /\ plan' = [manifest |-> manifest, at |-> at, contract |-> Contract(manifest, at)]
        /\ UNCHANGED <<snapshots, catalog, visible, now, changes, markdown, listing>>

(* Seeded fault: what the preflight has verified is not verified again.             *)
PreflightOnly(manifest, at) == TRUE

(* _verify_record_contract.                                                   *)
Verified(manifest, at) ==
    Contract(manifest, at) = plan.contract /\ ~Blocked(manifest, at)

(* record_manifest_snapshot: _begin_record_transaction keeps every writer of what    *)
(* it verifies out until it has recorded.                                       *)
RecordManifest ==
    /\ plan # None
    /\ Verified(plan.manifest, plan.at)
    /\ Record([collector |-> "manifest", at |-> plan.at,
               entries |-> ManifestEntries(plan.manifest, Current)])
    /\ plan' = None
    /\ UNCHANGED <<catalog, visible, now, changes, markdown, listing>>

-----------------------------------------------------------------------------
(* Seeded fault: cursors are bound to the policy and not to the view.              *)
BoundToPolicy(cursor) == cursor.policy = visible

(* decode_page_cursor: the access scope and coverage_view_digest of the cursor.    *)
Bound(cursor) == cursor.policy = visible /\ cursor.view = Coverage(cursor.sourceOnly)

(* paginate_items with limit 1, ascending.                                     *)
Page(cursor, position) ==
    LET rest == {d \in Coverage(cursor.sourceOnly) : d.key > position}
        page == {d \in rest : \A e \in rest : d.key <= e.key}
    IN  [cursor EXCEPT !.shown = @ \cup page, !.done = (page = rest),
                       !.position = IF page = {} THEN position ELSE (CHOOSE d \in page : TRUE).key]

FirstPage ==
    \E sourceOnly \in Scopes :
        /\ listing' = Page([policy |-> visible, view |-> Coverage(sourceOnly), sourceOnly |-> sourceOnly,
                            shown |-> {}, position |-> 0, done |-> FALSE], 0)
        /\ UNCHANGED <<snapshots, catalog, visible, now, changes, markdown, plan>>

NextPage ==
    /\ listing # None /\ ~listing.done
    /\ listing' = IF Bound(listing) THEN Page(listing, listing.position) ELSE None
    /\ UNCHANGED <<snapshots, catalog, visible, now, changes, markdown, plan>>

(* The catalog commands and grants that change what is resolved.                  *)
Change ==
    /\ changes < MaxChanges /\ changes' = changes + 1
    /\ \/ \E o \in Objects, s \in States : catalog' = [catalog EXCEPT ![o] = s] /\ UNCHANGED visible
       \/ \E S \in SUBSET Objects : visible' = S /\ UNCHANGED catalog
    /\ UNCHANGED <<snapshots, now, markdown, plan, listing>>

Tick == now < MaxTime /\ now' = now + 1 /\ UNCHANGED <<snapshots, catalog, visible, changes, markdown, plan, listing>>

Next ==
    \/ \E r \in Recorders : PlanMarkdown(r) \/ CollectMarkdown(r) \/ RecordMarkdown(r)
    \/ DryRun \/ RecordManifest
    \/ FirstPage \/ NextPage \/ Change \/ Tick

Spec == Init /\ [][Next]_vars

-----------------------------------------------------------------------------
EntryOK(e) ==
    /\ DOMAIN e = {"fp", "intent", "presence", "maps"} /\ e.presence \in {"present", "absent"}
    /\ \A m \in e.maps : m.object \in Objects /\ m.role \in Roles
TypeOK ==
    /\ \A s \in snapshots : /\ s.at \in 1..MaxTime /\ DOMAIN s.entries \subseteq Keys
                            /\ \A k \in DOMAIN s.entries : EntryOK(s.entries[k])
    /\ catalog \in [Objects -> States] /\ visible \subseteq Objects /\ now \in 1..MaxTime
    /\ listing # None => listing.position \in Keys \cup {0}

(* What a principal may not read changes nothing in what the principal is shown:    *)
(* neither the state of concealed objects nor, in the ordinary view, their         *)
(* existence or the mappings to them (resolve_visible_coverage).                 *)
ConcealedChangesNothing ==
    LET entries == Entries(Current)
        hidden == Objects \ visible
        unmapped == [k \in DOMAIN entries |->
                        [entries[k] EXCEPT !.maps = {m \in @ : m.object \in visible}]]
    IN  /\ \A other \in [Objects -> States] :
              (\A o \in visible : other[o] = catalog[o]) =>
                  /\ View(entries, other, visible, FALSE) = Coverage(FALSE)
                  /\ (\A o \in hidden : other[o] = Gone <=> catalog[o] = Gone) =>
                         View(entries, other, visible, TRUE) = Coverage(TRUE)
        /\ View(unmapped, catalog, visible, FALSE) = Coverage(FALSE)

(* A listing that has come to its end has shown one view, complete and without      *)
(* anything of another one, whatever was recorded, changed or granted meanwhile.    *)
ListingsShowOneView == listing # None /\ listing.done => listing.shown = listing.view

(* A manifest that is recorded becomes what is current, takes no entry of the        *)
(* former snapshot away, and no present entry of it is in doubt: the blockers of     *)
(* the collector and the states of the resolver agree.                           *)
RecordedAsReviewed ==
    snapshots' # snapshots /\ plan # None /\ plan' = None =>
        LET new == CHOOSE s \in snapshots' : s \notin snapshots
        IN  /\ \A s \in snapshots : s.at < new.at
            /\ DOMAIN Entries(Current) \subseteq DOMAIN new.entries
            /\ \A d \in View(new.entries, catalog, visible, TRUE) :
                  d.state \notin {"orphaned_catalog_reference", "ambiguous_mapping",
                                  "duplicate_mapping", "unmapped_operational"}
            /\ {d.key : d \in View(new.entries, catalog, visible, TRUE)} = DOMAIN new.entries
=============================================================================
