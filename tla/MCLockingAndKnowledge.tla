------------------------- MODULE MCLockingAndKnowledge -------------------------
(***************************************************************************)
(* Three components that do not meet, each checked by itself: a behaviour is one *)
(* of the component that "part" names, the variables of the others rest.        *)
(*   locking     OwnerCoverageLocking, this module's own variables              *)
(*   knowledge   KnowledgeApply                                             *)
(*   collectors  SourceCoverage: Markdown and manifest collectors that overlap    *)
(*   listings    SourceCoverage: listings under changes of what they show         *)
(***************************************************************************)
EXTENDS MCOwnerCoverageLocking

CONSTANTS host, doc,
    Refs, Assets, Values, Plannable, Runners, MaxWrites, MaxPlans, MaxBackups,   \* KnowledgeApply
    Keys, SourceOf, Tools, Things, Readings, Collected, MaxTime, MaxSnapshots, MaxChanges  \* SourceCoverage

VARIABLES part,
    db, plans, receipts, results, at, run, report, swapped, raced, writes,  \* KnowledgeApply
    snapshots, catalog, visible, now, changes, markdown, plan, listing  \* SourceCoverage

knowledgeVars == <<db, plans, receipts, results, at, run, report, swapped, raced, writes>>
coverageVars == <<snapshots, catalog, visible, now, changes, markdown, plan, listing>>
allVars == <<part, vars, knowledgeVars, coverageVars>>

Entry(id, target, value, relations, provenance, blocked) ==
    [id |-> id, target |-> target, value |-> value, relations |-> relations,
     provenance |-> provenance, blocked |-> blocked]

(* A new document on an existing host, which takes a fact; the same document     *)
(* with its relation declared by both its ends; with an entry that is not clear. *)
Document == Entry("e1", doc, "b", {<<doc, host>>}, "explicit", FALSE)
Fact == Entry("e2", host, "b", {}, "preserve_existing", FALSE)
OtherEnd == Entry("e3", host, Nobody, {<<doc, host>>}, "preserve_existing", FALSE)
Unclear == Entry("e4", Nobody, Nobody, {}, "unknown", TRUE)

HostAndDocument == {host, doc}
Hosts == {host}
KnowledgeManifests == {{Document, Fact}, {Document, OtherEnd}, {Document, Unclear}}

K == INSTANCE KnowledgeApply WITH
    None <- Nobody, Manifests <- Plannable, Workers <- Runners, Offline <- FALSE

ASSUME KnowledgeAssumption == K!ConstantsSound

(* Two objects; of three keys the source "tools" has two.  One reading of TOOLS.md *)
(* finds two candidates for an entry, one manifest maps an entry with an older    *)
(* fingerprint.                                                              *)
Reading(fp, candidates) == [fp |-> fp, intent |-> "expect_object", candidates |-> candidates]
Reviewed(fp, maps) == [fp |-> fp, intent |-> "expect_object", presence |-> "present", maps |-> maps]
MapTo(o, role, fp) == [object |-> o, role |-> role, fp |-> fp]
ThreeKeys == 1..3
Sources == 1 :> "tools" @@ 2 :> "tools" @@ 3 :> "notes"
ToolsReadings ==
    {1 :> Reading("f", <<"x">>), 1 :> Reading("g", <<"x">>) @@ 2 :> Reading("g", <<"x", "y">>)}
ReviewedManifests ==
    LET notes == 3 :> Reviewed("f", {MapTo("y", "primary", "f")})
    IN  {notes, 1 :> Reviewed("g", {MapTo("x", "primary", "f"), MapTo("y", "derived", "g")}) @@ notes}

Collectors == INSTANCE SourceCoverage WITH
    Objects <- Things, Manifests <- Collected, None <- Nobody,
    States <- {"gone", "fresh", "other kind"}, Recorders <- {1}, Scopes <- {}
Listings == INSTANCE SourceCoverage WITH
    Objects <- Things, Manifests <- Collected, None <- Nobody,
    States <- {"gone", "fresh", "stale"}, Recorders <- {}, Scopes <- BOOLEAN

ASSUME CoverageAssumption == Collectors!ConstantsSound /\ Listings!ConstantsSound

(* The variables of the components that are not at work.                         *)
RestLocking ==
    /\ dialect = "postgresql"
    /\ active = Principals /\ catalogOwners = Principals /\ owners = Principals \X Objects
    /\ stale = {} /\ writer = Nobody
    /\ job = [w \in Workers |-> Nobody] /\ step = [w \in Workers |-> "done"]
    /\ round = [w \in Workers |-> 0] /\ want = [w \in Workers |-> {}]
    /\ lockedBy = [r \in Principals \cup Objects |-> Nobody]
RestKnowledge ==
    /\ db = 0 /\ plans = 0 /\ receipts = 0 /\ results = 0 /\ at = 0 /\ run = 0 /\ report = 0
    /\ swapped = 0 /\ raced = 0 /\ writes = 0
RestCoverage ==
    /\ snapshots = {} /\ catalog = 0 /\ visible = {} /\ now = 0 /\ changes = 0
    /\ markdown = 0 /\ plan = Nobody /\ listing = Nobody

MCInit ==
    \/ part = "locking" /\ OrderedInit /\ RestKnowledge /\ RestCoverage
    \/ /\ part = "knowledge" /\ K!Init
       /\ db.objects = (host :> [revision |-> 1, value |-> "a"] @@ doc :> Nobody)
       /\ RestLocking /\ RestCoverage
    \/ /\ \/ part = "collectors" /\ Collectors!Init /\ visible = Things
          \/ part = "listings" /\ Listings!Init
       /\ RestLocking /\ RestKnowledge

MCNext ==
    /\ UNCHANGED part
    /\ \/ part = "locking" /\ Next /\ UNCHANGED <<knowledgeVars, coverageVars>>
       \/ part = "knowledge" /\ K!Next /\ UNCHANGED <<vars, coverageVars>>
       \/ part = "collectors" /\ Collectors!Next /\ UNCHANGED <<vars, knowledgeVars>>
       \/ part = "listings" /\ Listings!Next /\ UNCHANGED <<vars, knowledgeVars>>

(* The fairness of OrderedSpec.                                               *)
MCSpec ==
    /\ MCInit /\ [][MCNext]_allVars
    /\ \A w \in Workers : WF_vars(part = "locking" /\ Step(w))

-----------------------------------------------------------------------------
(* The properties of KnowledgeApply and of SourceCoverage.                      *)
RunsAreAccountable ==
    /\ part = "locking" => TypeOK
    /\ part = "knowledge" =>
           /\ K!TypeOK /\ K!EntriesAppliedOnce /\ K!ReportsTellReplacement
           /\ K!RefusedForDoubleCountsOnly
RollbackUndoesItsApplyOnly == [][part = "knowledge" => K!RollbackUndoesItsApplyOnly]_knowledgeVars

CoverageTold ==
    /\ part = "collectors" => Collectors!TypeOK
    /\ part = "listings" =>
           Listings!TypeOK /\ Listings!ConcealedChangesNothing /\ Listings!ListingsShowOneView
RecordedAsReviewed == [][part = "collectors" => Collectors!RecordedAsReviewed]_coverageVars
=============================================================================
