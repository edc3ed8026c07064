----------------------- MODULE PrincipalAdministration -----------------------
(***************************************************************************)
(* Principals, their roles, passwords, browser sessions and service tokens,  *)
(* and every command that changes them: the managed ones that the API and    *)
(* the UI call (services/principal_management.py), the auth CLI (cli/auth.py) *)
(* and logins (services/identity.py).                                       *)
(*                                                                         *)
(* A command arrives (its actor is authenticated: an access snapshot), decides *)
(* from the rows it reads, and applies what it decided: one transaction.     *)
(* On PostgreSQL the commands that run lock_owner_coverage_state re-read and   *)
(* lock the rows of actor and target as they decide; all others, and all      *)
(* commands on SQLite, apply a decision made from rows that may have changed. *)
(* Managed commands then compare and swap the principal's revision; the CLI    *)
(* writes the revision it read plus one.  Every account has one token name;    *)
(* password generations and token values are numbers.                        *)
(***************************************************************************)
EXTENDS Naturals, FiniteSets

CONSTANTS Humans, ServiceAccounts,
          Workers,   \* request threads and CLI processes
          Keys,      \* idempotency keys
          Requests,  \* the commands that may be given, some of Jobs
          Dialects,
          Nobody,
          MaxJobs    \* bound: commands in a behaviour

VARIABLES row,       \* principals -> their row; revision 0: there is none
          token,     \* service accounts -> their token; value 0: there is none
          sessions,  \* browser sessions
          records,   \* completed idempotency records of token requests
          dialect,
          job,       \* Workers -> the command at work, or Nobody
          step,      \* Workers -> "idle", "arrived" or "decided"
          seen,      \* Workers -> the rows that the command has read
          result,    \* Workers -> how its last command ended
          values,    \* how many token values were made
          dead,      \* history: token values that were revoked or replaced
          raced,     \* history: principals with a CLI revision written over another's
          jobs       \* commands so far

stored == <<row, token, sessions, records>>

vars == <<row, token, sessions, records, dialect, job, step, seen, result, values, dead, raced, jobs>>

Principals == Humans \cup ServiceAccounts

Revisions == 0..MaxJobs + 1

Rows == [active: BOOLEAN, admin: BOOLEAN, owner: BOOLEAN, creator: BOOLEAN,
         password: Revisions, revision: Revisions]

Absent == [active |-> FALSE, admin |-> FALSE, owner |-> FALSE, creator |-> FALSE,
           password |-> 0, revision |-> 0]

Tokens == [value: Nat, revoked: BOOLEAN]

Sessions == [id: Nat, principal: Humans, password: Nat, revoked: BOOLEAN, late: BOOLEAN]

Keyed == {"issue", "rotate"}
Gated == {"catalogRole", "creator"}
Managed == {"create", "update", "password", "revoke"} \cup Keyed \cup Gated
Cli == {"cliIssue", "cliRotate", "cliRevoke", "cliPassword", "cliDeactivate", "cliPromote", "cliOwner"}

(* Which principals a command can be about.                                  *)
CanBeAbout(kind) ==
    CASE kind \in {"password", "cliPassword", "cliPromote", "login"} -> Humans
      [] kind \in {"issue", "rotate", "revoke", "cliIssue", "cliRotate", "cliRevoke"} -> ServiceAccounts
      [] OTHER -> Principals

Jobs ==
    [kind: Keyed, actor: Principals, target: ServiceAccounts, key: Keys, to: {Nobody}]
    \cup (UNION {[kind: {k}, actor: Principals, target: CanBeAbout(k), key: {Nobody},
                  to: IF k = "update" THEN [active: BOOLEAN, admin: BOOLEAN]
                      ELSE IF k \in Gated \cup {"create"} THEN BOOLEAN ELSE {Nobody}] : k \in Managed \ Keyed})
    \cup (UNION {[kind: {k}, actor: {Nobody}, target: CanBeAbout(k), key: {Nobody}, to: {Nobody}] :
                 k \in Cli \cup {"login"}})

ConstantsSound ==
    /\ Requests \subseteq Jobs
    /\ Nobody \notin Principals \cup Keys
    /\ MaxJobs \in Nat

Unread == [expected |-> 0, actor |-> Absent, target |-> Absent, token |-> [value |-> 0, revoked |-> FALSE], ids |-> {}]

TypeOK ==
    /\ row \in [Principals -> Rows]
    /\ \A p \in Principals : row[p].revision = 0 => row[p] = Absent
    /\ token \in [ServiceAccounts -> Tokens]
    /\ sessions \subseteq Sessions
    /\ records \subseteq [actor: Principals, key: Keys, kind: Keyed, target: ServiceAccounts, value: Nat]
    /\ dialect \in Dialects
    /\ job \in [Workers -> Requests \cup {Nobody}]
    /\ step \in [Workers -> {"idle", "arrived", "decided"}]
    /\ seen \in [Workers -> [expected: Revisions, actor: Rows, target: Rows, token: Tokens, ids: SUBSET Nat]]
    /\ result \in [Workers -> {"none", "ok", "refused", "replayed"}]
    /\ values \in Nat /\ jobs \in 0..MaxJobs
    /\ dead \subseteq Nat
    /\ raced \subseteq Principals

ActiveAdmin(r) == r.active /\ r.admin
ActiveOwner(r) == r.active /\ r.owner

Dual(r) == ActiveAdmin(r) /\ r.owner

(* An installation after bootstrap-owner, with or without --catalog-owner.    *)
Init ==
    /\ row \in [Principals -> {Absent} \cup
                  [active: BOOLEAN, admin: BOOLEAN, owner: BOOLEAN, creator: BOOLEAN,
                   password: 0..1, revision: {1}]]
    /\ \A p \in Principals : row[p].password = IF p \in Humans THEN row[p].revision ELSE 0
    /\ \E h \in Humans : ActiveAdmin(row[h])
    /\ token = [s \in ServiceAccounts |-> [value |-> 0, revoked |-> FALSE]]
    /\ sessions = {}
    /\ records = {}
    /\ dialect \in Dialects
    /\ job = [w \in Workers |-> Nobody]
    /\ step = [w \in Workers |-> "idle"]
    /\ seen = [w \in Workers |-> Unread]
    /\ result = [w \in Workers |-> "none"]
    /\ values = 0 /\ dead = {} /\ raced = {} /\ jobs = 0

-----------------------------------------------------------------------------
(* Locks and reads.                                                         *)

(* The commands that lock the rows of actor and target on PostgreSQL.        *)
LocksRows(kind) == kind \in {"update", "password", "cliDeactivate"} \cup Gated \cup Keyed

(* On SQLite re-authentication writes an event: the database is locked before *)
(* the gated commands look at their target.                                 *)
Locking(kind) == IF dialect = "postgresql" THEN LocksRows(kind) ELSE kind \in Gated

(* The rows that a command locks: those it names and the active owners'.     *)
Wanted(w) ==
    IF ~Locking(job[w].kind) THEN {}
    ELSE IF dialect = "sqlite" THEN Principals
    ELSE ({job[w].actor, job[w].target} \cap Principals) \cup {p \in Principals : ActiveOwner(row[p])}

Held(w) == IF step[w] = "decided" THEN Wanted(w) ELSE {}

Free(w, p) == \A v \in Workers \ {w} : p \notin Held(v)

(* A command arrives; a managed one has an authenticated actor, and names the  *)
(* revision that the actor has been shown.                                   *)
Arrive(w, j) ==
    /\ step[w] = "idle" /\ jobs < MaxJobs
    /\ j.kind \in Managed => row[j.actor].active
    /\ job' = [job EXCEPT ![w] = j]
    /\ step' = [step EXCEPT ![w] = "arrived"]
    /\ seen' = [seen EXCEPT ![w].actor = IF j.kind \in Managed THEN row[j.actor] ELSE Absent,
                            ![w].expected = row[j.target].revision]
    /\ result' = [result EXCEPT ![w] = "none"]
    /\ jobs' = jobs + 1
    /\ UNCHANGED <<stored, dialect, values, dead, raced>>

Finish(w, how) ==
    /\ step' = [step EXCEPT ![w] = "idle"]
    /\ job' = [job EXCEPT ![w] = Nobody]
    /\ seen' = [seen EXCEPT ![w] = Unread]
    /\ result' = [result EXCEPT ![w] = how]
    /\ UNCHANGED <<dialect, jobs>>

Refuse(w) == Finish(w, "refused") /\ UNCHANGED <<stored, values, dead, raced>>

(* The actor's row as the command knows it when it decides.                  *)
ActorRow(w) ==
    IF dialect = "postgresql" /\ LocksRows(job[w].kind) THEN row[job[w].actor] ELSE seen[w].actor

(* _reauthenticate_human_admin: service accounts of the API are exempt.      *)
Reauthenticated(w) == job[w].actor \in Humans => ActiveAdmin(ActorRow(w))

(* Seeded fault: a catalog owner need not be platform admin.                 *)
OwnerIsEnough(w) == job[w].actor \in Humans /\ ActiveOwner(ActorRow(w))

(* require_catalog_owner_admin and _reauthenticate_catalog_owner_admin       *)
DualHuman(w) == job[w].actor \in Humans /\ Dual(ActorRow(w))

(* Seeded fault: the credentials of a catalog owner are like any other's.    *)
AdminIsEnough(w) == seen[w].actor.admin /\ Reauthenticated(w)

(* _authorize_credential_administration                                      *)
MayAdministerCredentials(w) ==
    /\ seen[w].actor.admin
    /\ IF row[job[w].target].owner THEN DualHuman(w) ELSE Reauthenticated(w)

Authorized(w) ==
    CASE job[w].kind \in Keyed \cup {"password"} -> MayAdministerCredentials(w)
      [] job[w].kind \in Gated -> DualHuman(w)
      [] job[w].kind \in {"create", "update", "revoke"} -> seen[w].actor.admin
      [] OTHER -> TRUE

OtherAdmin(p) == \E q \in Principals \ {p} : ActiveAdmin(row[q])
OtherOwner(p) == \E q \in Principals \ {p} : ActiveOwner(row[q])

(* What a command asks of the target's row before it writes.                 *)
Sound(w) ==
    LET j == job[w]
        r == row[j.target]
    IN  CASE j.kind = "create" -> r.revision = 0
          [] j.kind = "update" ->
               /\ r.revision = seen[w].expected
               /\ ~(j.to.active /\ ~r.active /\ r.owner)
               /\ <<j.to.active, j.to.admin>> # <<r.active, r.admin>>
               /\ ActiveOwner(r) /\ ~j.to.active => OtherOwner(j.target)
               /\ ActiveAdmin(r) /\ ~(j.to.active /\ j.to.admin) => OtherAdmin(j.target)
          [] j.kind = "catalogRole" ->
               /\ r.revision = seen[w].expected /\ r.owner # j.to
               /\ IF j.to THEN r.active ELSE OtherOwner(j.target)
          [] j.kind = "creator" ->
               r.revision = seen[w].expected /\ r.creator # j.to /\ (j.to => r.active)
          [] j.kind \in {"password", "revoke"} -> r.active /\ r.revision = seen[w].expected
          [] j.kind = "cliOwner" -> r.active /\ ~\E p \in Principals : ActiveOwner(row[p])
          [] j.kind = "cliDeactivate" -> r.active /\ (r.owner => OtherOwner(j.target))
          [] j.kind = "cliPromote" -> r.active /\ ~r.admin
          [] j.kind \in {"cliIssue", "cliRotate", "login"} -> r.active
          [] OTHER -> TRUE

SoundToken(w) ==
    LET t == token[job[w].target]
    IN  CASE job[w].kind = "cliIssue" -> t.value = 0
          [] job[w].kind \in {"cliRotate"} -> t.value # 0
          [] job[w].kind \in {"revoke", "cliRevoke"} -> t.value # 0 /\ ~t.revoked
          [] OTHER -> TRUE

(* A command decides, holding its rows from then on, or is refused.  A retry  *)
(* of a token request is let through to find the record of the first.        *)
Decide(w) ==
    /\ step[w] = "arrived"
    /\ \A p \in Wanted(w) : Free(w, p)
    /\ \/ /\ Authorized(w) /\ Sound(w)
          /\ job[w].target \in ServiceAccounts => SoundToken(w)
          /\ step' = [step EXCEPT ![w] = "decided"]
          /\ seen' = [seen EXCEPT ![w] =
                [expected |-> @.expected,
                 actor |-> IF job[w].kind \in Managed THEN ActorRow(w) ELSE Absent,
                 target |-> row[job[w].target],
                 token |-> IF job[w].target \in ServiceAccounts THEN token[job[w].target] ELSE @.token,
                 ids |-> IF job[w].kind = "cliPassword" THEN {s.id : s \in sessions} ELSE {}]]
          /\ UNCHANGED <<stored, dialect, job, result, values, dead, raced, jobs>>
       \/ /\ ~(/\ Authorized(w) /\ Sound(w)
               /\ job[w].target \in ServiceAccounts => SoundToken(w))
          /\ Refuse(w)

-----------------------------------------------------------------------------
(* Writes.                                                                  *)

(* Seeded fault: the database lets the last platform admin go.               *)
LastOwnerKept(p, r) == ActiveOwner(row[p]) /\ ~ActiveOwner(r) => OtherOwner(p)

(* The guard triggers of both databases look at what is committed.           *)
TriggersAllow(p, r) ==
    /\ ActiveAdmin(row[p]) /\ ~ActiveAdmin(r) => OtherAdmin(p)
    /\ ActiveOwner(row[p]) /\ ~ActiveOwner(r) => OtherOwner(p)

(* Managed commands: UPDATE ... WHERE revision = expected.                   *)
Claims(w) ==
    job[w].kind \in Managed => row[job[w].target].revision = seen[w].target.revision

(* The row of the target with another value, at its next revision.  The CLI   *)
(* sets the columns that it changes and the revision it read plus one.       *)
Advanced(w, r) == [r EXCEPT !.revision = seen[w].target.revision + 1]

WriteRow(w, r) ==
    /\ Claims(w)
    /\ TriggersAllow(job[w].target, r)
    /\ Free(w, job[w].target)
    /\ row' = [row EXCEPT ![job[w].target] = Advanced(w, r)]
    /\ raced' = IF row[job[w].target].revision = seen[w].target.revision THEN raced
                ELSE raced \cup {job[w].target}

(* The write is refused: the revision is another, a trigger says no.         *)
Fail(w, r) ==
    /\ Free(w, job[w].target)
    /\ ~(Claims(w) /\ TriggersAllow(job[w].target, r))
    /\ Refuse(w)

(* Seeded fault: sessions outlive the password they were opened with.        *)
SessionsStay(p, ids) == sessions

(* Live sessions are revoked; those of ids, or all.                          *)
Revoked(p, ids) == {IF s.principal = p /\ s.id \in ids THEN [s EXCEPT !.revoked = TRUE] ELSE s : s \in sessions}

AllIds == {s.id : s \in sessions}

(* revoke_all_browser_sessions and the tokens of a deactivated principal.     *)
CredentialsEnd(p) ==
    /\ sessions' = Revoked(p, AllIds)
    /\ IF p \in ServiceAccounts /\ token[p].value # 0
       THEN /\ token' = [token EXCEPT ![p].revoked = TRUE]
            /\ dead' = dead \cup {token[p].value}
       ELSE UNCHANGED <<token, dead>>

Decided(w, kind) == step[w] = "decided" /\ job[w].kind = kind

(* A change of the row that leaves the credentials alone.                    *)
SetRow(w, r) ==
    \/ WriteRow(w, r) /\ Finish(w, "ok") /\ UNCHANGED <<token, sessions, records, values, dead>>
    \/ Fail(w, r)

CreatePrincipal(w) ==
    /\ Decided(w, "create")
    /\ SetRow(w, [Absent EXCEPT !.active = TRUE, !.admin = job[w].to,
                               !.password = IF job[w].target \in Humans THEN 1 ELSE 0])

UpdatePrincipal(w) ==
    /\ Decided(w, "update")
    /\ LET p == job[w].target
           r == [row[p] EXCEPT !.active = job[w].to.active, !.admin = job[w].to.admin]
       IN  \/ /\ WriteRow(w, r) /\ Finish(w, "ok")
              /\ IF seen[w].target.active /\ ~r.active THEN CredentialsEnd(p)
                 ELSE UNCHANGED <<token, sessions, dead>>
              /\ UNCHANGED <<records, values>>
           \/ Fail(w, r)

(* set_managed_catalog_role                                                  *)
SetCatalogRole(w) ==
    Decided(w, "catalogRole") /\ SetRow(w, [row[job[w].target] EXCEPT !.owner = job[w].to])

(* set_managed_project_creator                                               *)
SetProjectCreator(w) ==
    Decided(w, "creator") /\ SetRow(w, [row[job[w].target] EXCEPT !.creator = job[w].to])

(* set_human_password: the sessions of ids are ended.                        *)
NewPassword(w, ids) ==
    LET p == job[w].target
        r == [row[p] EXCEPT !.password = @ + 1]
    IN  \/ /\ WriteRow(w, r) /\ Finish(w, "ok")
           /\ sessions' = {IF s.principal # p \/ s.id \in ids THEN s ELSE [s EXCEPT !.late = TRUE] :
                           s \in Revoked(p, ids)}
           /\ UNCHANGED <<token, records, values, dead>>
        \/ Fail(w, r)

(* reset_managed_human_password                                              *)
ResetPassword(w) == Decided(w, "password") /\ NewPassword(w, AllIds)

(* set-password of the CLI holds no principal row on PostgreSQL: it ends the   *)
(* sessions that it has read.                                               *)
CliPassword(w) ==
    /\ Decided(w, "cliPassword")
    /\ NewPassword(w, IF dialect = "postgresql" THEN seen[w].ids ELSE AllIds)

(* deactivate_principal of the CLI                                           *)
CliDeactivate(w) ==
    /\ Decided(w, "cliDeactivate")
    /\ LET r == [row[job[w].target] EXCEPT !.active = FALSE]
       IN  \/ /\ WriteRow(w, r) /\ CredentialsEnd(job[w].target) /\ Finish(w, "ok")
              /\ UNCHANGED <<records, values>>
           \/ Fail(w, r)

(* promote-admin and bootstrap-catalog-owner                                 *)
CliPromote(w) ==
    /\ step[w] = "decided" /\ job[w].kind \in {"cliPromote", "cliOwner"}
    /\ LET r == IF job[w].kind = "cliPromote" THEN [row[job[w].target] EXCEPT !.admin = TRUE]
                ELSE [row[job[w].target] EXCEPT !.owner = TRUE]
       IN  /\ WriteRow(w, r) /\ Finish(w, "ok")
           /\ UNCHANGED <<token, sessions, records, values, dead>>

(* Seeded fault: a rotation gives the old value out again.                   *)
SameValue(s, revoked) ==
    /\ values' = values + 1
    /\ token' = [token EXCEPT ![s] = [value |-> IF @.value = 0 THEN values + 1 ELSE @.value,
                                     revoked |-> revoked]]
    /\ dead' = IF token[s].value = 0 THEN dead ELSE dead \cup {token[s].value}

(* issue_service_token and rotate_service_token: the old value is of no use.  *)
NewValue(s, revoked) ==
    /\ values' = values + 1
    /\ token' = [token EXCEPT ![s] = [value |-> values + 1, revoked |-> revoked]]
    /\ dead' = (IF token[s].value = 0 THEN dead ELSE dead \cup {token[s].value})
                   \cup (IF revoked THEN {values + 1} ELSE {})

(* Seeded fault: a retry is a request like any other.                        *)
NoRecord(w) == {}

RecordOf(w) == {r \in records : r.actor = job[w].actor /\ r.key = job[w].key}

SameRequest(w, r) == r.kind = job[w].kind /\ r.target = job[w].target

(* issue_managed_service_token: the idempotency record first, then the        *)
(* revision, then the secret, all under the write lock or the row locks.      *)
IssueManagedToken(w) ==
    LET s == job[w].target
        claimed == /\ seen[w].target.active /\ seen[w].target.revision = seen[w].expected
                   /\ Claims(w)
                   /\ (job[w].kind = "issue") <=> (token[s].value = 0)
    IN  /\ step[w] = "decided" /\ job[w].kind \in Keyed
        /\ \/ \E r \in RecordOf(w) : /\ SameRequest(w, r) /\ Finish(w, "replayed")
                                      /\ UNCHANGED <<stored, values, dead, raced>>
           \/ \E r \in RecordOf(w) : ~SameRequest(w, r) /\ Refuse(w)
           \/ /\ RecordOf(w) = {} /\ claimed
              /\ WriteRow(w, row[s]) /\ NewValue(s, FALSE) /\ Finish(w, "ok")
              /\ records' = records \cup {[actor |-> job[w].actor, key |-> job[w].key,
                                           kind |-> job[w].kind, target |-> s, value |-> values']}
              /\ UNCHANGED sessions
           \/ RecordOf(w) = {} /\ ~claimed /\ Refuse(w)

(* revoke_managed_service_token and revoke-token of the CLI: the token as it   *)
(* was read is not revoked; whatever value it has by now is.                 *)
RevokeToken(w) ==
    LET s == job[w].target
    IN  /\ step[w] = "decided" /\ job[w].kind \in {"revoke", "cliRevoke"}
        /\ \/ /\ WriteRow(w, row[s]) /\ Finish(w, "ok")
              /\ token' = [token EXCEPT ![s].revoked = TRUE]
              /\ dead' = dead \cup {token[s].value}
              /\ UNCHANGED <<sessions, records, values>>
           \/ Fail(w, row[s])

(* issue-token and rotate-token of the CLI.  A rotation clears revoked_at only *)
(* when the row it read had one.                                            *)
CliToken(w) ==
    LET s == job[w].target
        revoked == job[w].kind = "cliRotate" /\ token[s].revoked /\ ~seen[w].token.revoked
        unused == job[w].kind = "cliIssue" => token[s].value = 0
    IN  /\ step[w] = "decided" /\ job[w].kind \in {"cliIssue", "cliRotate"}
        /\ \/ /\ unused /\ WriteRow(w, row[s]) /\ NewValue(s, revoked) /\ Finish(w, "ok")
              /\ UNCHANGED <<sessions, records>>
           \/ ~unused /\ Refuse(w)

(* authenticate_password and issue_browser_session: the session is inserted   *)
(* for the principal as it was read.  It is late when the row has changed.    *)
Login(w) ==
    /\ Decided(w, "login")
    /\ LET p == job[w].target
       IN  /\ Free(w, p)
           /\ sessions' = sessions \cup
                {[id |-> Cardinality(sessions) + 1, principal |-> p, password |-> seen[w].target.password,
                  revoked |-> FALSE,
                  late |-> ~row[p].active \/ row[p].password # seen[w].target.password]}
    /\ Finish(w, "ok")
    /\ UNCHANGED <<row, token, records, values, dead, raced>>

(* revoke_browser_session                                                    *)
Logout(s) ==
    /\ ~s.revoked
    /\ sessions' = (sessions \ {s}) \cup {[s EXCEPT !.revoked = TRUE]}
    /\ UNCHANGED <<row, token, records, dialect, job, step, seen, result, values, dead, raced, jobs>>

Step(w) ==
    \/ \E j \in Requests : Arrive(w, j)
    \/ Decide(w)
    \/ CreatePrincipal(w) \/ UpdatePrincipal(w) \/ SetCatalogRole(w) \/ SetProjectCreator(w)
    \/ ResetPassword(w) \/ CliPassword(w) \/ CliDeactivate(w) \/ CliPromote(w)
    \/ IssueManagedToken(w) \/ RevokeToken(w) \/ CliToken(w)
    \/ Login(w)

Next ==
    \/ \E w \in Workers : Step(w)
    \/ \E s \in sessions : Logout(s)

Spec == Init /\ [][Next]_vars

-----------------------------------------------------------------------------
(* Whatever overlaps, an active platform admin is left: two admins who step     *)
(* down at once both count the other, the triggers stop the second of them.     *)
(* A token value that was revoked or rotated away never works again.  And a      *)
(* deactivation or a new password ends every session, but those of logins that  *)
(* read the principal before and insert their session after; and but, on SQLite, *)
(* those of a principal whose revision the CLI has set back: an update that read *)
(* the same revision when the principal was inactive then takes the deactivation *)
(* for no change and leaves the sessions alone.                               *)
AuthorityKept ==
    /\ \E p \in Principals : ActiveAdmin(row[p])
    /\ \A s \in ServiceAccounts : token[s].value \in dead => token[s].revoked
    /\ \A s \in sessions :
          ~s.revoked /\ ~s.late /\ (dialect = "postgresql" \/ s.principal \notin raced)
             => row[s.principal].active /\ row[s.principal].password = s.password

(* A retry with the same key makes no second secret: it is told so, and not    *)
(* that the revision has moved on.                                          *)
RetryReplayed(w) ==
    /\ job[w].key \in Keys
    /\ [actor |-> job[w].actor, key |-> job[w].key, kind |-> job[w].kind, target |-> job[w].target]
          \in {[actor |-> r.actor, key |-> r.key, kind |-> r.kind, target |-> r.target] : r \in records}
    => values' = values /\ result'[w] = "replayed"

(* An active catalog owner is made by a human who is platform admin and        *)
(* catalog owner, or by the CLI when there is none; never by activating one.  *)
ThroughTheGate(p) ==
    \E w \in Workers :
        /\ step[w] = "decided" /\ step'[w] = "idle" /\ job[w].target = p
        /\ \/ job[w].kind = "cliOwner"
           \/ job[w].kind = "catalogRole" /\ job[w].actor \in Humans /\ Dual(seen[w].actor)

(* The managed commands change a catalog owner's credentials for nobody less   *)
(* than such a human; on PostgreSQL he is one at that moment.                *)
CredentialsGuarded(w) ==
    /\ result'[w] = "ok"
    /\ job[w].kind \in Keyed \cup {"password"}
    /\ job[w].target \notin raced /\ row[job[w].target].owner
    => /\ job[w].actor \in Humans
       /\ Dual(IF dialect = "postgresql" THEN row[job[w].actor] ELSE seen[w].actor)

(* Of every step: what the managed commands guard stays guarded under overlap.  *)
GatesHold ==
    /\ \A w \in Workers : step[w] = "decided" /\ step'[w] = "idle" => RetryReplayed(w)
    /\ \A w \in Workers : step[w] = "decided" => CredentialsGuarded(w)
    /\ \A p \in Principals \ raced :
          ~ActiveOwner(row[p]) /\ ActiveOwner(row'[p]) => ThroughTheGate(p)
=============================================================================
