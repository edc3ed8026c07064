---------------------------- MODULE ProjectRecords ----------------------------
(***************************************************************************)
(* The structured records of one project workspace and what is derived from     *)
(* them (services/project_management.py): the validity of the graph of records, *)
(* the effective status of work, the scope and the basis of a review, and       *)
(* whether a review is still current.  A record's data_json is a record of the  *)
(* fields that reviews depend on; title and description are one "wording".      *)
(***************************************************************************)
EXTENDS Integers, Sequences, FiniteSets, FiniteSetsExt

CONSTANTS UseCases, Requirements, Tasks, Proofs, Repositories,
          Criteria,  \* IDs of (required) acceptance criteria
          None

VARIABLES
    data,      \* ProjectRecord.data_json
    version,   \* ProjectRecord.version
    revision,  \* ProjectRecord.requirement_revision
    history,   \* ProjectRecordVersion: the type and the content of every version
    events,    \* ProjectRecordEvent in the order of time
    old        \* so many of the events are more than 15 minutes old

Records == UseCases \cup Requirements \cup Tasks \cup Proofs \cup Repositories

Evidence == [requirement: Requirements, revision: Nat, criteria: SUBSET Criteria, passed: BOOLEAN]
Fields ==
    [type: {"use_case", "requirement", "task", "evidence", "repository"},
     parent: UseCases \cup {None},
     relations: SUBSET ({"implements", "depends_on"} \X (Requirements \cup Tasks)),
     done: BOOLEAN, mandatory: BOOLEAN,
     wording: {1, 2}, reason: BOOLEAN, criteria: SUBSET Criteria,  \* requirement content
     evidence: Evidence \cup {None},
     leading: Repositories \cup {None},   \* status_authority github, by an issue there
     target: {1, 2}]                      \* github_id of a repository

Blank(type) ==
    [type |-> type, parent |-> None, relations |-> {}, done |-> FALSE, mandatory |-> TRUE,
     wording |-> 1, reason |-> FALSE, criteria |-> {}, evidence |-> None, leading |-> None,
     target |-> 1]

Content(d) == [wording |-> d.wording, reason |-> d.reason, criteria |-> d.criteria]
Reviewable(d) == d.type \in {"requirement", "use_case"}

(* ProjectItemIn.semantics.                                                  *)
WellFormed(d) ==
    /\ d.criteria # {} \/ d.reason => d.type = "requirement"
    /\ (d.evidence # None) <=> (d.type = "evidence")

-----------------------------------------------------------------------------
(* The revision number of every version of r, counted in its history, and the   *)
(* criteria that the requirement had at revision n.                            *)
Renewals(r, i) ==
    {n \in 2..i : /\ history[r][n].type = "requirement"
                  /\ history[r][n].content # history[r][n - 1].content}
Replay(r) == [i \in 1..Len(history[r]) |-> 1 + Cardinality(Renewals(r, i))]

CriteriaAt(r, n) ==
    LET at == {i \in 1..Len(history[r]) : history[r][i].type = "requirement" /\ Replay(r)[i] = n}
    IN  IF at # {} THEN history[r][Min(at)].content.criteria
        ELSE IF n = revision[r] THEN data[r].criteria ELSE {}

(* validate_record: the graph g with the proposed data of r.                   *)
Endpoints(g, k, edge) ==
    /\ edge[2] # k /\ g[k].type = "task"
    /\ g[edge[2]].type = IF edge[1] = "implements" THEN "requirement" ELSE "task"

Acyclic(g) ==
    \A S \in (SUBSET {k \in Records : g[k].relations # {}}) \ {{}} :
        \E k \in S : \A edge \in g[k].relations : edge[1] = "depends_on" => edge[2] \notin S

Valid(g, r) ==
    /\ WellFormed(g[r])
    /\ \A k \in Records : \A edge \in g[k].relations : Endpoints(g, k, edge)
    /\ \A k \in Records : g[k].parent # None => g[g[k].parent].type = "use_case"
    /\ \A k \in Records : g[k].evidence # None => g[g[k].evidence.requirement].type = "requirement"
    /\ Acyclic(g)
    /\ LET v == g[r].evidence
       IN  v # None => /\ v.revision <= revision[v.requirement]
                       /\ v.criteria \subseteq CriteriaAt(v.requirement, v.revision)

(* Changed requirement content needs a reason, which only a requirement has.   *)
Reasoned(r, d) ==
    data[r].type = "requirement" /\ Content(d) # Content(data[r]) => d.reason

-----------------------------------------------------------------------------
(* The last of some events (by their positions), or 0.                         *)
Latest(at) == IF at = {} THEN 0 ELSE Max(at)

(* _external_for: the last observation of r counts while it is fresh, of the    *)
(* reference that leads now and of the repository record as it is now.         *)
LastSync(r) ==
    Latest({i \in 1..Len(events) : events[i].kind = "sync_github" /\ events[i].record = r})
(* Seeded fault: what was seen of the issue stays, whatever repository it was in.  *)
FreshOfReference(r) ==
    LET i == LastSync(r)
    IN  /\ i > old /\ events[i].observed \in {"open", "closed"}
        /\ events[i].leading = data[r].leading

Fresh(r) ==
    LET i == LastSync(r)
    IN  /\ i > old /\ events[i].observed \in {"open", "closed"}
        /\ events[i].leading = data[r].leading
        /\ events[i].seen = version[data[r].leading]

WorkStatus(r) ==
    IF data[r].leading = None THEN IF data[r].done THEN "done" ELSE "open"
    ELSE IF ~Fresh(r) THEN "unknown"
    ELSE IF events[LastSync(r)].observed = "closed" THEN "done" ELSE "open"

(* _scope: children, what applies to or implements it, and what that waits for.  *)
Scope(r) ==
    LET found(S) ==
            S \cup {k \in Records : \/ data[k].parent \in S
                                    \/ \E edge \in data[k].relations :
                                           edge[1] = "implements" /\ edge[2] \in S}
              \cup {x \in Records : \E k \in S : <<"depends_on", x>> \in data[k].relations}
        reach[n \in 0..Cardinality(Records)] == IF n = 0 THEN {r} ELSE found(reach[n - 1])
    IN  reach[Cardinality(Records)]

(* _last_assessment at the revision that r has; the last one at any revision.  *)
LastReview(r) ==
    Latest({i \in 1..Len(events) : /\ events[i].kind = "assess" /\ events[i].record = r
                                   /\ events[i].revision = revision[r]})
LastAnyReview(r) ==
    Latest({i \in 1..Len(events) : events[i].kind = "assess" /\ events[i].record = r})

Versions(proofs) == {<<p, version[p]>> : p \in proofs}
ReviewProofs(i) == IF i = 0 THEN {} ELSE {q[1] : q \in events[i].proofs}

(* Seeded fault: the basis tells what there is, and not how it was reviewed.      *)
BasisWithoutReviews(r) ==
    [k \in {k \in Scope(r) : k = r \/ Reviewable(data[k]) \/ data[k].type = "task"} |->
        [status |-> WorkStatus(k), mandatory |-> data[k].mandatory, type |-> data[k].type,
         revision |-> IF Reviewable(data[k]) THEN revision[k] ELSE 0]]

(* _review_basis.                                                            *)
Basis(r) ==
    [k \in {k \in Scope(r) : k = r \/ Reviewable(data[k]) \/ data[k].type = "task"} |->
        LET other == Reviewable(data[k]) /\ k # r
        IN  [status |-> WorkStatus(k), mandatory |-> data[k].mandatory, type |-> data[k].type,
             revision |-> IF Reviewable(data[k]) THEN revision[k] ELSE 0,
             review |-> IF other THEN LastAnyReview(k) ELSE 0,
             proofs |-> IF other THEN Versions(ReviewProofs(LastReview(k))) ELSE {}]]

(* _review_current: the records whose last review is current.  Nothing of its      *)
(* basis and of its proofs has changed since, and every mandatory requirement in    *)
(* its scope that it does not except has a review that is current, too; reviews      *)
(* that wait for each other are not (seen).                                    *)
Accepted(k) == LastReview(k) # 0 /\ events[LastReview(k)].result \in {"accepted", "exception"}

Based(r) ==
    LET e == events[LastReview(r)]
    IN  LastReview(r) # 0 /\ e.basis = Basis(r) /\ \A q \in e.proofs : version[q[1]] = q[2]

WaitsFor(r) ==
    LET e == events[LastReview(r)]
    IN  {k \in Scope(r) \ {r} : /\ Reviewable(data[k]) /\ data[k].mandatory
                               /\ ~(e.result = "exception" /\ k \in e.outstanding.unaccepted)}

ReviewCurrent ==
    LET based == {r \in Records : Based(r)}
        stuck(S) == \A r \in S : \E k \in WaitsFor(r) : ~Accepted(k) \/ k \notin based \ S
    IN  based \ UNION {S \in SUBSET based : stuck(S)}

(* _assessment: what stands in the way of accepting r on the given proofs.      *)
Outstanding(r, proofs) ==
    LET rest == {k \in Scope(r) \ {r} : data[k].mandatory}
    IN  [missing |-> data[r].criteria
                     \ UNION {data[p].evidence.criteria : p \in {p \in proofs : data[p].evidence.passed}},
         open |-> {k \in rest : data[k].type = "task" /\ WorkStatus(k) # "done"},
         unaccepted |-> {k \in rest :
             /\ Reviewable(data[k])
             /\ ~(Accepted(k) /\ k \in ReviewCurrent)}]

NothingOutstanding == [missing |-> {}, open |-> {}, unaccepted |-> {}]

(* Evidence of the revision that r has now, or reviewed for it at this version.  *)
Reused(r, p) ==
    \E i \in 1..Len(events) :
        /\ events[i].kind = "reuse_evidence" /\ events[i].record = r
        /\ events[i].revision = revision[r] /\ <<p, version[p]>> \in events[i].proofs

Citable(r, p) ==
    /\ data[p].evidence # None /\ data[p].evidence.requirement = r
    /\ data[p].evidence.revision = revision[r] \/ Reused(r, p)
=============================================================================
