-------------------------- MODULE MCReleaseAndLogin --------------------------
(***************************************************************************)
(* Four components that do not meet, each with its fairness, each checked by   *)
(* itself: a behaviour is one of the component that "part" names, the variables *)
(* of the others rest.                                                      *)
(*   release      ReleaseWorkflow, this module's own variables                *)
(*   monitoring   MonitoringLeases with edits that switch a service off       *)
(*   login        BrowserLogin                                              *)
(*   export       GiteaExport, which has none                                *)
(***************************************************************************)
EXTENDS MCReleaseWorkflow, TLC

CONSTANTS
    w1, w2, t1, n1, a1, Off, Nobody,  \* model values
    Threads, Sources, Accounts, Window, SourceLimit, AccountLimit, GlobalLimit, ChallengeLimit,
    Slots, ChallengeTtl, MaxClock, MaxChallenges,  \* of BrowserLogin
    Existing, Tombstone, PerPage, ExportWrites     \* of GiteaExport

VARIABLES part,
    config, row, seen, mAt, wanted, known, target, age, edits, read, crashes,  \* MonitoringLeases
    clock, logins, handedOut, challenges, login, lAt, slots, verified, signedIn,  \* BrowserLogin
    gitea, refs, writes, eAt, pass, reading, index, items, todo, first, eStaging, destination,
    between, other  \* GiteaExport

monitoringVars == <<config, row, seen, mAt, wanted, known, target, age, edits, read, crashes>>
loginVars == <<clock, logins, handedOut, challenges, login, lAt, slots, verified, signedIn>>
exportVars == <<gitea, refs, writes, eAt, pass, reading, index, items, todo, first, eStaging, destination,
                between, other>>
allVars == <<part, vars, monitoringVars, loginVars, exportVars>>

TwoWorkers == {w1, w2}

M == INSTANCE MonitoringLeases WITH
    Workers <- TwoWorkers, Targets <- {t1}, Configs <- {t1, Off}, NoRow <- None,
    Lease <- 2, Deadline <- 1, Interval <- 1, Jitter <- 1, MaxAge <- 1, MaxEdits <- 1, MaxCrashes <- 1,
    at <- mAt

MCSources == {n1}
MCAccounts == {a1}

L == INSTANCE BrowserLogin WITH attempts <- logins, at <- lAt

ASSUME LoginsAssumption == L!ConstantsSound

(* An issue, the deleted number, a closed pull request, a comment on each; pages of  *)
(* one entry.                                                                *)
Content(parent) == [stamp |-> 0, parent |-> parent, review |-> 0]
Repository == [issues |-> 1 :> Content(None), pulls |-> 3 :> Content(None),
               comments |-> 1 :> Content(1) @@ 2 :> Content(3)]

E == INSTANCE GiteaExport WITH
    MaxWrites <- ExportWrites, at <- eAt, staging <- eStaging

ASSUME ExportAssumption == E!ConstantsSound

(* The variables of a component that is not at work; small values are quick.  *)
RestRelease ==
    /\ pointers = [current |-> None, previous |-> None]
    /\ history = <<>> /\ bundles = {} /\ staging = {} /\ images = {}
    /\ container = None /\ db = None /\ backups = <<>>
    /\ attempt = NoAttempt /\ outcome = "none" /\ attempts = 0 /\ issued = 0 /\ owed = {}
RestMonitoring ==
    /\ config = Off
    /\ row = 0 /\ seen = 0 /\ mAt = 0 /\ wanted = 0 /\ known = 0 /\ target = 0 /\ age = 0 /\ edits = 0
    /\ read = 0 /\ crashes = 0
RestLogin ==
    /\ slots = 1
    /\ clock = 0 /\ logins = 0 /\ handedOut = 0 /\ challenges = 0 /\ login = 0 /\ lAt = 0
    /\ verified = <<>> /\ signedIn = <<>>
RestExport ==
    /\ gitea = 0 /\ refs = 0 /\ writes = 0 /\ eAt = "idle" /\ pass = 0 /\ reading = 0 /\ index = 0
    /\ items = 0 /\ todo = <<>> /\ first = 0 /\ eStaging = 0 /\ destination = None /\ between = 0
    /\ other = FALSE

MCInit ==
    \/ part = "release" /\ Init /\ RestMonitoring /\ RestLogin /\ RestExport
    \/ part = "monitoring" /\ M!Init /\ RestRelease /\ RestLogin /\ RestExport
    \/ part = "login" /\ L!Init /\ RestRelease /\ RestMonitoring /\ RestExport
    \/ part = "export" /\ E!Init /\ RestRelease /\ RestMonitoring /\ RestLogin

MCNext ==
    /\ UNCHANGED part
    /\ \/ part = "release" /\ Next /\ UNCHANGED <<monitoringVars, loginVars, exportVars>>
       \/ part = "monitoring" /\ M!Next /\ UNCHANGED <<vars, loginVars, exportVars>>
       \/ part = "login" /\ L!Next /\ UNCHANGED <<vars, monitoringVars, exportVars>>
       \/ part = "export" /\ E!Next /\ UNCHANGED <<vars, monitoringVars, loginVars>>

(* The fairness that each component states.                                  *)
MCSpec ==
    /\ MCInit /\ [][MCNext]_allVars
    /\ WF_vars(part = "release" /\ Step)
    /\ WF_monitoringVars(part = "monitoring" /\ M!Tick)
    /\ \A w \in TwoWorkers : WF_monitoringVars(part = "monitoring" /\ M!PassStep(w))
    /\ \A t \in Threads : WF_loginVars(part = "login" /\ L!Serve(t))

-----------------------------------------------------------------------------
(* The properties of the components; those of ReleaseWorkflow hold at rest as well. *)
KeepsBeingChecked == M!KeepsBeingChecked

LoginsBounded == part = "login" => L!TypeOK /\ L!VerificationsBounded /\ L!ChallengesLetFewIn
SlotsComeBack == L!SlotsComeBack

ExportsSound == part = "export" => E!TypeOK /\ E!ExportsAreOneInstant /\ E!ExportsStay
=============================================================================
