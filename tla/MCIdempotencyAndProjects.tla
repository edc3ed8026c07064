----------------------- MODULE MCIdempotencyAndProjects -----------------------
(***************************************************************************)
(* IdempotentCommands, this module's own variables, and the commands on the      *)
(* structured records of a project, each checked by itself: a behaviour is one     *)
(* of the part that "part" names, the variables of the others rest.               *)
(*   reviews    ProjectReviews, of the records in Reviewed                      *)
(*   syncs      ProjectReviews, of the records in Synced                        *)
(*   legacy     LegacyAdoption                                               *)
(***************************************************************************)
EXTENDS MCIdempotentCommands

CONSTANTS
    UseCases, Requirements, Tasks, Proofs, Repositories, Criteria, MaxSaves,  \* ProjectReviews
    Reviewed, Synced,    \* bound: the records that a part saves
    MaxRevision,         \* bound: revision of a project with a sync
    Texts, MaxEntries, MaxAdoptions      \* LegacyAdoption

VARIABLES part,
    data, version, revision, history, events, old, project, sync,  \* ProjectReviews
    list, adopted, most                                            \* LegacyAdoption

projectVars == <<data, version, revision, history, events, old, project, sync>>
legacyVars == <<list, adopted, most>>
allVars == <<part, vars, projectVars, legacyVars>>

Projects == INSTANCE ProjectReviews WITH None <- Nobody
Legacy == INSTANCE LegacyAdoption

ASSUME ProjectsAssumption == Projects!ConstantsSound
ASSUME LegacyAssumption == Legacy!ConstantsSound

(* Of the project, only the records in S are saved, and only those lead.          *)
Only(S) ==
    /\ \A k \in Projects!Records \ S : version'[k] = version[k]
    /\ \A k \in Projects!Records : data'[k].leading \in S \cup {Nobody}

(* The variables of the components that are not at work.                        *)
RestCommands ==
    /\ object = 0 /\ comments = {} /\ minted = 1 /\ records = [k \in Keys |-> Nothing]
    /\ dialect = "sqlite"
    /\ job = [a \in Attempts |-> [key |-> k1, request |-> CommentX]]
    /\ step = [a \in Attempts |-> "done"] /\ instance = [a \in Attempts |-> 0]
    /\ seen = [a \in Attempts |-> Nothing]
    /\ answer = [a \in Attempts |-> [kind |-> "not found", result |-> 0]]
    /\ actorLock = Nobody /\ ran = [k \in Keys |-> 0] /\ expiries = 0 /\ deletions = 0
RestProjects ==
    /\ data = 0 /\ version = 0 /\ revision = 0 /\ history = 0 /\ events = 0 /\ old = 0
    /\ project = 0 /\ sync = 0
RestLegacy == list = 0 /\ adopted = 0 /\ most = 0

MCInit ==
    \/ part = "commands" /\ Init /\ JobsOrdered /\ RestProjects /\ RestLegacy
    \/ part \in {"reviews", "syncs"} /\ Projects!Init /\ RestCommands /\ RestLegacy
    \/ part = "legacy" /\ Legacy!Init /\ RestCommands /\ RestProjects

MCNext ==
    /\ UNCHANGED part
    /\ \/ part = "commands" /\ Next /\ UNCHANGED <<projectVars, legacyVars>>
       \/ part = "reviews" /\ Projects!Next /\ Only(Reviewed) /\ UNCHANGED <<vars, legacyVars>>
       \/ /\ part = "syncs" /\ Projects!Next /\ Only(Synced) /\ project' <= MaxRevision
          /\ UNCHANGED <<vars, legacyVars>>
       \/ part = "legacy" /\ Legacy!Next /\ UNCHANGED <<vars, projectVars>>

(* The fairness of IdempotentCommands.                                         *)
MCSpec ==
    /\ MCInit /\ [][MCNext]_allVars
    /\ \A a \in Attempts : WF_vars(part = "commands" /\ Step(a))

-----------------------------------------------------------------------------
(* What is stored keeps its form; the properties of ProjectReviews and of         *)
(* LegacyAdoption.                                                           *)
RecordsStaySound ==
    /\ part = "commands" => TypeOK
    /\ part \in {"reviews", "syncs"} => Projects!TypeOK /\ Projects!ReviewsHold
    /\ part = "legacy" => Legacy!TypeOK /\ Legacy!AdoptedOnce
StatusWasObserved == part = "syncs" => Projects!StatusWasObserved
=============================================================================
