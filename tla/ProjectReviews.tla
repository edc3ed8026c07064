---------------------------- MODULE ProjectReviews ----------------------------
(***************************************************************************)
(* The commands on the records of a project: patch, comment, assess and        *)
(* reuse_evidence, each one transaction under the project's write lock, and     *)
(* sync_github, which observes the leading issue of a task outside of any        *)
(* transaction and stores what it saw only if the project is as it was before.   *)
(* Idempotency keys and authority are IdempotentCommands' and ObjectOwnership's  *)
(* concern.  Several services may run a sync on SQLite, where a transaction      *)
(* takes the write lock only with its first write: SourceRead and Complete are   *)
(* two steps (on PostgreSQL nothing comes between them).                        *)
(***************************************************************************)
EXTENDS ProjectRecords

CONSTANTS MaxSaves  \* bound: commands in a behaviour

VARIABLES
    project,   \* revision of the project
    sync       \* the sync in progress: pc, record, project, version, seen, target, observed, source

recordVars == <<data, version, revision, history, events>>
vars == <<data, version, revision, history, events, old, project, sync>>

Idle == [pc |-> "idle"]

(* What the proofs assume: a record is of one kind, and there is a use case with a *)
(* requirement.                                                             *)
ConstantsSound ==
    /\ UseCases # {} /\ Requirements # {}
    /\ UseCases \cap (Requirements \cup Tasks \cup Proofs \cup Repositories) = {}
    /\ Requirements \cap (Tasks \cup Proofs \cup Repositories) = {}
    /\ Tasks \cap (Proofs \cup Repositories) = {} /\ Proofs \cap Repositories = {}
    /\ None \notin UseCases \cup Repositories \cup Evidence
    /\ MaxSaves \in Nat

(* The records that the project has: all requirements belong to the first use case; *)
(* the tasks implement the first of them, and the evidence proves all its criteria;  *)
(* the others have none yet.                                                 *)
First(S) == CHOOSE x \in S : TRUE
InitialData(r) ==
    CASE r \in UseCases -> Blank("use_case")
      [] r = First(Requirements) ->
            [Blank("requirement") EXCEPT !.criteria = Criteria, !.parent = First(UseCases)]
      [] r \in Requirements \ {First(Requirements)} -> [Blank("requirement") EXCEPT !.parent = First(UseCases)]
      [] r \in Tasks ->
            [Blank("task") EXCEPT !.relations = {<<"implements", First(Requirements)>>}]
      [] r \in Proofs ->
            [Blank("evidence") EXCEPT !.evidence =
                [requirement |-> First(Requirements), revision |-> 1,
                 criteria |-> Criteria, passed |-> TRUE]]
      [] r \in Repositories -> Blank("repository")

Init ==
    /\ data = [r \in Records |-> InitialData(r)]
    /\ version = [r \in Records |-> 1] /\ revision = [r \in Records |-> 1]
    /\ history = [r \in Records |-> <<[type |-> data[r].type, content |-> Content(data[r])]>>]
    /\ events = <<>> /\ old = 0 /\ project = 1 /\ sync = Idle

-----------------------------------------------------------------------------
(* save_record: one new version of r, under the compare-and-swap of its ETag and *)
(* of the project's revision; requirement content counts its own revisions.      *)
NextRevision(r, d) ==
    IF d.type = "requirement" /\ Content(d) # Content(data[r]) THEN revision[r] + 1 ELSE revision[r]

Save(r, d) ==
    /\ project <= MaxSaves
    /\ data' = [data EXCEPT ![r] = d]
    /\ version' = [version EXCEPT ![r] = @ + 1]
    /\ revision' = [revision EXCEPT ![r] = NextRevision(r, d)]
    /\ history' = [history EXCEPT ![r] = Append(@, [type |-> d.type, content |-> Content(d)])]
    /\ project' = project + 1

Tell(event) == events' = Append(events, event)

(* Values that a patch gives to fields of r.                                   *)
Edits(r) ==
    LET d == data[r]
    IN  CASE r \in UseCases -> {[d EXCEPT !.mandatory = ~@]}
          [] r \in Requirements ->
                {[d EXCEPT !.mandatory = ~@], [d EXCEPT !.wording = 3 - @]}
                \cup {[d EXCEPT !.type = t] : t \in {"task", "requirement"}}
                \cup {[d EXCEPT !.criteria = c, !.reason = TRUE] : c \in SUBSET Criteria}
          [] r \in Tasks ->
                {[d EXCEPT !.done = ~@], [d EXCEPT !.mandatory = ~@]}
                \cup {[d EXCEPT !.relations = {"implements"} \X R] : R \in SUBSET Requirements}
                \cup {[d EXCEPT !.relations = {"depends_on"} \X (Tasks \ {r})]}
                \cup {[d EXCEPT !.leading = g] : g \in Repositories \cup {None}}
          [] r \in Proofs ->
                {[d EXCEPT !.evidence.passed = ~@],
                 [d EXCEPT !.evidence.revision = revision[d.evidence.requirement]]}
          [] r \in Repositories -> {[d EXCEPT !.target = 3 - @]}

(* apply_action "patch".                                                       *)
Patch(r) ==
    \E d \in Edits(r) \ {data[r]} :
        /\ Reasoned(r, d) /\ Valid([data EXCEPT ![r] = d], r)
        /\ Save(r, d)
        /\ UNCHANGED <<events, old, sync>>

(* apply_action "comment": a new version of the record, whatever it is; here of   *)
(* evidence, as no other record's version is read by a review.                  *)
Comment(r) == r \in Proofs /\ Save(r, data[r]) /\ UNCHANGED <<events, old, sync>>

(* apply_action "assess".                                                      *)
Acceptable(r, outstanding) ==
    /\ outstanding = NothingOutstanding
    /\ data[r].type = "requirement" => data[r].criteria # {}
    /\ data[r].type = "use_case" => \E k \in Scope(r) : data[k].type = "requirement"

Assess(r) ==
    \E proofs \in SUBSET Proofs :
        LET outstanding == Outstanding(r, proofs)
            basis == Basis(r)
        IN  /\ Reviewable(data[r]) /\ \A p \in proofs : Citable(r, p)
            /\ Save(r, data[r])
            /\ \E result \in {"accepted", "exception", "rejected"} :
                  /\ result = "accepted" => Acceptable(r, outstanding)
                  /\ Tell([kind |-> "assess", record |-> r, revision |-> revision[r],
                           result |-> result, version |-> version[r] + 1,
                           proofs |-> Versions(proofs), outstanding |-> outstanding,
                           basis |-> basis])
            /\ UNCHANGED <<old, sync>>

(* apply_action "reuse_evidence".                                              *)
Reuse(r) ==
    \E proofs \in (SUBSET Proofs) \ {{}} :
        /\ data[r].type = "requirement"
        /\ \A p \in proofs : data[p].evidence # None /\ data[p].evidence.requirement = r
        /\ Save(r, data[r])
        /\ Tell([kind |-> "reuse_evidence", record |-> r, revision |-> revision[r],
                 proofs |-> Versions(proofs)])
        /\ UNCHANGED <<old, sync>>

-----------------------------------------------------------------------------
(* apply_action "sync_github": preflight, with the ETag that the caller holds.   *)
Preflight(r) ==
    /\ sync.pc = "idle" /\ data[r].type = "task" /\ data[r].leading # None
    /\ sync' = [pc |-> "prepared", record |-> r, project |-> project, version |-> version[r],
                leading |-> data[r].leading, seen |-> 0, target |-> 0, observed |-> "failed",
                source |-> 0]
    /\ UNCHANGED <<recordVars, old, project>>

(* _current_sync_authority: a sync of something that changed is given up.        *)
Unchanged == project = sync.project /\ version[sync.record] = sync.version
GiveUp == sync' = Idle

ReadRepository ==
    /\ sync.pc = "prepared"
    /\ IF Unchanged
       THEN sync' = [sync EXCEPT !.pc = "read", !.seen = version[sync.leading],
                                 !.target = data[sync.leading].target]
       ELSE GiveUp
    /\ UNCHANGED <<recordVars, old, project>>

(* The two GETs, each after the gate: the issue's state, or any failure.        *)
Observe ==
    /\ sync.pc = "read"
    /\ IF Unchanged
       THEN \E o \in {"open", "closed", "failed"} :
               sync' = [sync EXCEPT !.pc = "observed", !.observed = o]
       ELSE GiveUp
    /\ UNCHANGED <<recordVars, old, project>>

(* _apply_action_locked: the revision that the project has now, ...             *)
SourceRead ==
    /\ sync.pc = "observed"
    /\ sync' = [sync EXCEPT !.pc = "completing", !.source = project]
    /\ UNCHANGED <<recordVars, old, project>>

(* ... and under the write lock the ETag, the version and the observation.      *)
Complete ==
    /\ sync.pc = "completing"
    /\ IF version[sync.record] = sync.version /\ sync.source = sync.project
       THEN /\ Save(sync.record, data[sync.record])
            /\ Tell([kind |-> "sync_github", record |-> sync.record, leading |-> sync.leading,
                     seen |-> sync.seen, target |-> sync.target, observed |-> sync.observed])
       ELSE UNCHANGED <<recordVars, project>>
    /\ GiveUp
    /\ UNCHANGED old

(* Fifteen minutes go by, which only observations notice.                       *)
Age ==
    /\ Latest({i \in 1..Len(events) : events[i].kind = "sync_github"}) > old
    /\ old' = Len(events)
    /\ UNCHANGED <<recordVars, project, sync>>

Next ==
    \/ \E r \in Records : Patch(r) \/ Comment(r) \/ Assess(r) \/ Reuse(r) \/ Preflight(r)
    \/ ReadRepository \/ Observe \/ SourceRead \/ Complete \/ Age

Spec == Init /\ [][Next]_vars

-----------------------------------------------------------------------------
TypeOK ==
    /\ data \in [Records -> Fields] /\ version \in [Records -> 1..MaxSaves + 1]
    /\ revision \in [Records -> 1..MaxSaves + 1] /\ old \in 0..Len(events)
    /\ project \in 1..MaxSaves + 1
    /\ \A r \in Records : Valid(data, r) /\ Len(history[r]) = version[r]

(* What the history replays is what the writer counted: the criteria that        *)
(* evidence of an earlier revision is held to are found under its number         *)
(* (_requirement_at_revision against save_record).                             *)
HistoryNamesRevisions == \A r \in Records : Replay(r)[version[r]] = revision[r]

(* A review that is shown as current still says what is missing and open now: an  *)
(* acceptance would be given again.  An exception excepts all that is unaccepted   *)
(* now, and whatever else it excepted has not been reviewed since: an earlier       *)
(* review of it has come back into force, as work was moved away and back         *)
(* (_review_current against _assessment).                                     *)
CurrentReviewsHold ==
    \A r \in ReviewCurrent :
        LET i == LastReview(r)
            then == events[i].outstanding
            now == Outstanding(r, ReviewProofs(i))
        IN  Reviewable(data[r]) =>
                /\ now.missing = then.missing /\ now.open = then.open
                /\ now.unaccepted \subseteq then.unaccepted
                /\ \A k \in then.unaccepted \ now.unaccepted : LastReview(k) < i

(* And it is about the content that is shown, except for a requirement that was   *)
(* another kind of item in between: its content may change then without a new     *)
(* revision.                                                                *)
CurrentReviewsAreOfThisContent ==
    \A r \in ReviewCurrent :
        LET i == LastReview(r)
        IN  data[r].type = "requirement" =>
                \/ history[r][events[i].version].content = Content(data[r])
                \/ \E n \in events[i].version..version[r] : history[r][n].type # "requirement"

ReviewsHold ==
    HistoryNamesRevisions /\ CurrentReviewsHold /\ CurrentReviewsAreOfThisContent

(* A status that GitHub leads is what was observed of the issue that leads now,   *)
(* in the repository that its record names now.                               *)
StatusWasObserved ==
    \A r \in Records :
        data[r].leading # None /\ WorkStatus(r) # "unknown" =>
            events[LastSync(r)].target = data[data[r].leading].target
=============================================================================
