----------------------- MODULE MCLeasesAndAdministration -----------------------
(***************************************************************************)
(* Four components that do not meet, each checked by itself: a behaviour is one *)
(* of the component that "part" names, the variables of the others rest.         *)
(*   monitoring   MonitoringLeases, this module's own variables                *)
(*   principals   PrincipalAdministration                                     *)
(*   tokens       TokenFailureBuckets                                        *)
(*   releases     ReleaseLeases                                              *)
(***************************************************************************)
EXTENDS MCMonitoringLeases

CONSTANTS
    h1, h2, s1, k1, n1, n2, c1, c2, r1, r2,  \* model values
    Humans, ServiceAccounts, Keys, Requests, Dialects, MaxJobs,  \* of PrincipalAdministration
    Installed,  \* the principals that a behaviour may start with
    Sources, BearerTokens, GlobalLimit, SourceLimit, TokenLimit,
    MaxRows, PruneBatch, MaxWindow,  \* of TokenFailureBuckets
    ReleaseTargets, ReleaseLease, ReleaseInterval, Backoff, Cooldown, ReleaseMaxAge,
    MaxClock, ReleaseMaxEdits, MaxInstances, MaxChecks  \* of ReleaseLeases

VARIABLES part,
    pRow, token, sessions, records, dialect, job, step, pSeen, result,
    values, dead, raced, jobs,                                       \* PrincipalAdministration
    table, window, checked, failed,                                 \* TokenFailureBuckets
    clock, service, leases, observed, rAt, my, rows, checks, robbed, late  \* ReleaseLeases

principalVars == <<pRow, token, sessions, records, dialect, job, step, pSeen, result, values, dead, raced, jobs>>
tokenVars == <<table, window, checked, failed>>
releaseVars == <<clock, service, leases, observed, rAt, my, rows, checks, robbed, late>>
allVars == <<part, vars, principalVars, tokenVars, releaseVars>>

ByActor(kind, actor, subject, to) ==
    [kind |-> kind, actor |-> actor, target |-> subject, key |-> Nobody, to |-> to]
(* Two administrators, one service account.  The commands are those that can   *)
(* get in each other's way: changes of status and role of every principal by    *)
(* itself and by another, and everything that touches credentials.           *)
ByCli(kind, subject) == ByActor(kind, Nobody, subject, Nobody)
Status(active, admin) == [active |-> active, admin |-> admin]

MCRequests ==
    {ByActor("update", h1, h1, Status(TRUE, FALSE)), ByActor("update", h2, h2, Status(FALSE, TRUE)),
     ByActor("update", h1, h2, Status(TRUE, FALSE)), ByActor("update", h1, h2, Status(FALSE, FALSE)),
     ByActor("update", h1, s1, Status(FALSE, FALSE)), ByActor("update", h2, s1, Status(TRUE, TRUE)),
     ByActor("catalogRole", h1, h2, TRUE), ByActor("catalogRole", h1, s1, TRUE),
     ByActor("catalogRole", h1, h1, FALSE), ByActor("catalogRole", h2, h2, TRUE),
     ByActor("creator", h1, s1, TRUE),
     ByActor("password", h1, h2, Nobody), ByActor("password", h2, h1, Nobody),
     ByActor("create", h2, s1, TRUE),
     ByActor("revoke", h2, s1, Nobody), ByActor("revoke", s1, s1, Nobody)}
    \cup {[ByActor(kind, actor, s1, Nobody) EXCEPT !.key = k1] : kind \in {"issue", "rotate"}, actor \in {h2, s1}}
    \cup {ByCli(kind, s1) : kind \in {"cliIssue", "cliRotate", "cliRevoke", "cliDeactivate", "cliOwner"}}
    \cup {ByCli(kind, h2) : kind \in {"cliPassword", "cliPromote", "cliOwner", "login", "cliDeactivate"}}

MCHumans == {h1, h2}
MCServiceAccounts == {s1}
MCKeys == {k1}
MCDialects == {"sqlite", "postgresql"}

P == INSTANCE PrincipalAdministration WITH row <- pRow, seen <- pSeen

ASSUME CommandsAssumption == P!ConstantsSound

Human(admin, owner) ==
    [P!Absent EXCEPT !.active = TRUE, !.admin = admin, !.owner = owner, !.password = 1, !.revision = 1]
Account(admin, owner) == [Human(admin, owner) EXCEPT !.password = 0]

(* The second human may be an inactive holder of the catalog role.            *)
MCInstalled ==
    {(h1 :> a @@ h2 :> b @@ s1 :> c) :
        a \in {Human(TRUE, TRUE), Human(TRUE, FALSE)},
        b \in {Human(TRUE, FALSE), [Human(FALSE, TRUE) EXCEPT !.active = FALSE]},
        c \in {P!Absent, Account(TRUE, FALSE), Account(FALSE, TRUE)}}

MCSources == {n1, n2}
MCTokens == {c1, c2}

T == INSTANCE TokenFailureBuckets WITH Tokens <- BearerTokens

ASSUME TokensAssumption == T!ConstantsSound

MCReleaseTargets == {r1, r2}

R == INSTANCE ReleaseLeases WITH
    Targets <- ReleaseTargets, None <- NoRow, Lease <- ReleaseLease, Interval <- ReleaseInterval,
    MaxAge <- ReleaseMaxAge, MaxEdits <- ReleaseMaxEdits, at <- rAt

ASSUME ReleasesAssumption == R!ConstantsSound

-----------------------------------------------------------------------------
(* The variables of a component that is not at work; small values are quick.    *)
(* Those of MonitoringLeases rest in an initial state of theirs.              *)
RestMonitoring == config = t1 /\ Init
RestPrincipals ==
    /\ pRow = [p \in P!Principals |-> P!Absent] /\ step = [w \in Workers |-> "idle"]
    /\ token = 0 /\ sessions = {} /\ records = 0 /\ dialect = 0 /\ job = 0 /\ pSeen = 0 /\ result = 0
    /\ values = 0 /\ dead = {} /\ raced = {} /\ jobs = 0
RestTokens == table = 0 /\ window = 0 /\ checked = 0 /\ failed = 0
RestReleases ==
    /\ rAt = [w \in Workers |-> "idle"] /\ robbed = {} /\ late = {}
    /\ clock = 0 /\ service = 0 /\ leases = 0 /\ observed = 0 /\ my = 0 /\ rows = 0 /\ checks = 0

MCInit ==
    \/ part = "monitoring" /\ Init /\ RestPrincipals /\ RestTokens /\ RestReleases
    \/ part = "principals" /\ pRow \in Installed /\ P!Init /\ RestMonitoring /\ RestTokens /\ RestReleases
    \/ part = "tokens" /\ T!Init /\ RestMonitoring /\ RestPrincipals /\ RestReleases
    \/ part = "releases" /\ R!Init /\ RestMonitoring /\ RestPrincipals /\ RestTokens

MCNext ==
    /\ UNCHANGED part
    /\ \/ part = "monitoring" /\ Next /\ UNCHANGED <<principalVars, tokenVars, releaseVars>>
       \/ part = "principals" /\ P!Next /\ UNCHANGED <<vars, tokenVars, releaseVars>>
       \/ part = "tokens" /\ T!Next /\ UNCHANGED <<vars, principalVars, releaseVars>>
       \/ part = "releases" /\ R!Next /\ UNCHANGED <<vars, principalVars, tokenVars>>

MCSpec == MCInit /\ [][MCNext]_allVars

-----------------------------------------------------------------------------
(* The properties of the components.  Who may not get in: those whose authority   *)
(* was taken back, and tokens that failed too often, but nobody else.            *)
AccessGuarded ==
    /\ part = "monitoring" => TypeOK
    /\ part = "principals" => P!TypeOK /\ P!AuthorityKept
    /\ part = "tokens" => T!TypeOK /\ T!ThrottledAfterLimit /\ T!DeniedForCause
    /\ part = "releases" => R!TypeOK
GatesHold == [][part = "principals" => P!GatesHold]_principalVars
ReleaseChecksOrdered == [][part = "releases" => R!ChecksOrdered]_releaseVars
=============================================================================
