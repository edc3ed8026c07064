--------------------- MODULE PrincipalAdministrationProofs ---------------------
(***************************************************************************)
(* Machine-checked facts about PrincipalAdministration for all principals,    *)
(* commands, workers and keys and any number of commands, on both databases.  *)
(*                                                                         *)
(* The argument: what a command read of its target is what is stored when it  *)
(* writes, by the row locks (PostgreSQL) or by the revision it compares (where *)
(* the CLI has not set it back), so that what it decided still stands; the      *)
(* triggers keep the last admin whatever it decided.  A write that leaves       *)
(* sessions alone then leaves activity and password alone too.                *)
(***************************************************************************)
EXTENDS PrincipalAdministration, FiniteSetTheorems, TLAPS

(* The commands at work, and the revisions the finished ones can have used    *)
(* up: every command moves a row on by one at most.                          *)
Busy == {w \in Workers : step[w] # "idle"}
Used == jobs + 1 - Cardinality(Busy)

Moderate(r) == r.revision <= Used /\ r.password <= Used

Counted ==
    /\ IsFiniteSet(Busy) /\ IsFiniteSet(sessions)
    /\ Cardinality(Busy) <= jobs
    /\ \A p \in Principals : Moderate(row[p])
    /\ \A w \in Workers : seen[w].expected <= Used /\ Moderate(seen[w].actor) /\ Moderate(seen[w].target)
    /\ \A w \in Workers : step[w] # "idle" => job[w] \in Requests /\ result[w] = "none"

AdminLeft == \E p \in Principals : ActiveAdmin(row[p])

(* Values are never given out twice.                                         *)
ValuesUnique ==
    /\ \A s \in ServiceAccounts : token[s].value <= values
    /\ \A s, t \in ServiceAccounts : token[s].value = token[t].value => s = t \/ token[s].value = 0
    /\ \A v \in dead : 0 < v /\ v <= values
    /\ \A s \in ServiceAccounts : token[s].value \in dead => token[s].revoked
    /\ \A w \in Workers :
          step[w] = "decided" /\ job[w].kind \in {"revoke", "cliRevoke"} => token[job[w].target].value # 0

OneRecordPerKey == \A r, s \in records : r.actor = s.actor /\ r.key = s.key => r = s

(* What a command read of its target: exactly the row, under PostgreSQL's      *)
(* locks; the row of that revision, unless the CLI has set the revision back.   *)
ReadsStand ==
    \A w \in Workers :
        step[w] = "decided" =>
            /\ job[w].target \notin raced =>
                  /\ seen[w].target.revision <= row[job[w].target].revision
                  /\ seen[w].target.revision = row[job[w].target].revision
                        => seen[w].target = row[job[w].target]
            /\ dialect = "postgresql" /\ LocksRows(job[w].kind) /\ job[w].kind \in Managed =>
                  seen[w].target = row[job[w].target] /\ seen[w].actor = row[job[w].actor]

(* What a command has found out of the rows it read.                          *)
DecisionsSound ==
    \A w \in Workers :
        step[w] = "decided" =>
            /\ job[w].kind = "create" => seen[w].target.revision = 0
            /\ job[w].kind = "update" =>
                  ~(job[w].to.active /\ ~seen[w].target.active /\ seen[w].target.owner)
            /\ job[w].kind \in Gated => job[w].actor \in Humans /\ Dual(seen[w].actor)
            /\ job[w].kind \in Keyed \cup {"password"} /\ seen[w].target.owner
                  => job[w].actor \in Humans /\ Dual(seen[w].actor)

SessionsSound ==
    \A s \in sessions :
        ~s.revoked /\ ~s.late /\ (dialect = "postgresql" \/ s.principal \notin raced)
            => row[s.principal].active /\ row[s.principal].password = s.password

Inv ==
    /\ TypeOK /\ Counted /\ AdminLeft /\ ValuesUnique /\ OneRecordPerKey
    /\ ReadsStand /\ DecisionsSound /\ SessionsSound

-----------------------------------------------------------------------------
(* Commands.                                                                *)

LEMMA JobShape ==
    ASSUME ConstantsSound, NEW j \in Requests
    PROVE  /\ j.kind \in Managed \cup Cli \cup {"login"}
           /\ j.target \in Principals
           /\ j.kind \in Managed => j.actor \in Principals
           /\ j.kind \in Keyed => j.key \in Keys
           /\ j.kind \notin Keyed => j.key = Nobody
           /\ j.kind \in {"password", "cliPassword", "cliPromote", "login"} => j.target \in Humans
           /\ j.kind \in Keyed \cup {"revoke", "cliIssue", "cliRotate", "cliRevoke"}
                => j.target \in ServiceAccounts
           /\ j.kind = "update" => j.to \in [active : BOOLEAN, admin : BOOLEAN]
           /\ j.kind \in Gated \cup {"create"} => j.to \in BOOLEAN
  <1>1. \A k : CanBeAbout(k) \subseteq Principals
    BY DEF CanBeAbout, Principals
  <1>2. j \in Jobs
    BY DEF ConstantsSound
  <1>3. CASE \E k \in Managed \ Keyed :
                j \in [kind : {k}, actor : Principals, target : CanBeAbout(k), key : {Nobody},
                       to : IF k = "update" THEN [active : BOOLEAN, admin : BOOLEAN]
                            ELSE IF k \in Gated \cup {"create"} THEN BOOLEAN ELSE {Nobody}]
    BY <1>1, <1>3 DEF Managed, Keyed, Gated, CanBeAbout, Cli
  <1>4. CASE j \in [kind : Keyed, actor : Principals, target : ServiceAccounts, key : Keys, to : {Nobody}]
    BY <1>4 DEF Managed, Keyed, Gated, Principals
  <1>5. CASE \E k \in Cli \cup {"login"} :
                j \in [kind : {k}, actor : {Nobody}, target : CanBeAbout(k), key : {Nobody}, to : {Nobody}]
    BY <1>1, <1>5 DEF Managed, Keyed, Gated, CanBeAbout, Cli
  <1>6. \/ j \in [kind : Keyed, actor : Principals, target : ServiceAccounts, key : Keys, to : {Nobody}]
        \/ j \in UNION {[kind : {k}, actor : Principals, target : CanBeAbout(k), key : {Nobody},
                         to : IF k = "update" THEN [active : BOOLEAN, admin : BOOLEAN]
                              ELSE IF k \in Gated \cup {"create"} THEN BOOLEAN ELSE {Nobody}] :
                        k \in Managed \ Keyed}
        \/ j \in UNION {[kind : {k}, actor : {Nobody}, target : CanBeAbout(k), key : {Nobody}, to : {Nobody}] :
                        k \in Cli \cup {"login"}}
    BY <1>2, Zenon DEF Jobs
  <1>7. QED
    BY <1>3, <1>4, <1>5, <1>6

(* The steps of a command: it arrives, it decides, it ends without a write, it  *)
(* writes its target's row, or it is a login.                                *)
Accepted(w) ==
    /\ step[w] = "arrived"
    /\ \A p \in Wanted(w) : Free(w, p)
    /\ Authorized(w) /\ Sound(w)
    /\ job[w].target \in ServiceAccounts => SoundToken(w)
    /\ step' = [step EXCEPT ![w] = "decided"]
    /\ seen' = [seen EXCEPT ![w] =
          [expected |-> @.expected,
           actor |-> IF job[w].kind \in Managed THEN ActorRow(w) ELSE Absent,
           target |-> row[job[w].target],
           token |-> IF job[w].target \in ServiceAccounts THEN token[job[w].target] ELSE @.token,
           ids |-> IF job[w].kind = "cliPassword" THEN {s.id : s \in sessions} ELSE {}]]
    /\ UNCHANGED <<stored, dialect, job, result, values, dead, raced, jobs>>

EndsWithoutWrite(w) ==
    /\ step[w] # "idle"
    /\ UNCHANGED <<stored, values, dead, raced>>
    /\ \/ Finish(w, "refused")
       \/ Finish(w, "replayed") /\ step[w] = "decided" /\ job[w].kind \in Keyed

(* The row that a command makes of the one it finds.                          *)
NewRow(w) ==
    LET p == job[w].target
        k == job[w].kind
    IN  IF k = "create" THEN [Absent EXCEPT !.active = TRUE, !.admin = job[w].to,
                                            !.password = IF p \in Humans THEN 1 ELSE 0]
        ELSE IF k = "update" THEN [row[p] EXCEPT !.active = job[w].to.active, !.admin = job[w].to.admin]
        ELSE IF k = "catalogRole" THEN [row[p] EXCEPT !.owner = job[w].to]
        ELSE IF k = "creator" THEN [row[p] EXCEPT !.creator = job[w].to]
        ELSE IF k \in {"password", "cliPassword"} THEN [row[p] EXCEPT !.password = @ + 1]
        ELSE IF k = "cliDeactivate" THEN [row[p] EXCEPT !.active = FALSE]
        ELSE IF k = "cliPromote" THEN [row[p] EXCEPT !.admin = TRUE]
        ELSE IF k = "cliOwner" THEN [row[p] EXCEPT !.owner = TRUE]
        ELSE row[p]

TokenStays == UNCHANGED <<token, values, dead>>

TokenEnds(s) ==
    /\ token' = [token EXCEPT ![s].revoked = TRUE]
    /\ dead' = dead \cup {token[s].value}
    /\ UNCHANGED values

(* A write that may end the target's sessions: an update that deactivates does  *)
(* when the row it read was active, the others of the set always.             *)
EndsSessions(w) ==
    \/ job[w].kind \in {"cliDeactivate", "password", "cliPassword"}
    \/ job[w].kind = "update" /\ seen[w].target.active /\ ~job[w].to.active

Wrote(w) ==
    /\ step[w] = "decided" /\ job[w].kind # "login"
    /\ WriteRow(w, NewRow(w)) /\ Finish(w, "ok")
    /\ \/ TokenStays
       \/ /\ job[w].target \in ServiceAccounts
          /\ token[job[w].target].value # 0 \/ job[w].kind \in {"revoke", "cliRevoke"}
          /\ TokenEnds(job[w].target)
       \/ job[w].target \in ServiceAccounts /\ \E revoked \in BOOLEAN : NewValue(job[w].target, revoked)
    /\ \/ ~EndsSessions(w) /\ UNCHANGED sessions
       \/ /\ EndsSessions(w) /\ job[w].kind \notin {"password", "cliPassword"}
          /\ sessions' = Revoked(job[w].target, AllIds)
       \/ /\ job[w].kind \in {"password", "cliPassword"}
          /\ \E ids : sessions' = {IF s.principal # job[w].target \/ s.id \in ids THEN s
                                   ELSE [s EXCEPT !.late = TRUE] : s \in Revoked(job[w].target, ids)}
    /\ \/ UNCHANGED records
       \/ /\ job[w].kind \in Keyed /\ RecordOf(w) = {}
          /\ records' = records \cup {[actor |-> job[w].actor, key |-> job[w].key, kind |-> job[w].kind,
                                       target |-> job[w].target, value |-> values']}

LEMMA Outcome ==
    ASSUME ConstantsSound, TypeOK, Counted, NEW w \in Workers, Step(w)
    PROVE  \/ \E j \in Requests : Arrive(w, j)
           \/ Accepted(w)
           \/ EndsWithoutWrite(w)
           \/ Wrote(w)
           \/ Login(w)
  <1>0. step[w] # "idle" => job[w] \in Requests
    BY DEF Counted
  <1>1. CASE Decide(w)
    BY <1>1 DEF Decide, Accepted, EndsWithoutWrite, Refuse
  <1>2. ASSUME NEW r, Fail(w, r), step[w] = "decided" PROVE EndsWithoutWrite(w)
    BY <1>2 DEF Fail, Refuse, EndsWithoutWrite
  <1>3. CASE CreatePrincipal(w)
    BY <1>2, <1>3 DEF CreatePrincipal, SetRow, Decided, Wrote, NewRow, TokenStays, EndsSessions
  <1>4. CASE SetCatalogRole(w) \/ SetProjectCreator(w)
    BY <1>2, <1>4 DEF SetCatalogRole, SetProjectCreator, SetRow, Decided, Wrote, NewRow, TokenStays,
       EndsSessions
  <1>5. CASE CliPromote(w)
    BY <1>5 DEF CliPromote, Wrote, NewRow, TokenStays, EndsSessions
  <1>6. ASSUME CredentialsEnd(job[w].target), values' = values
        PROVE  /\ sessions' = Revoked(job[w].target, AllIds)
               /\ \/ TokenStays
                  \/ /\ job[w].target \in ServiceAccounts
                     /\ token[job[w].target].value # 0
                     /\ TokenEnds(job[w].target)
    BY <1>6 DEF CredentialsEnd, TokenStays, TokenEnds
  <1>7. CASE UpdatePrincipal(w)
    <2>1. PICK r : /\ r = [row[job[w].target] EXCEPT !.active = job[w].to.active, !.admin = job[w].to.admin]
                   /\ \/ /\ WriteRow(w, r) /\ Finish(w, "ok")
                         /\ IF seen[w].target.active /\ ~r.active THEN CredentialsEnd(job[w].target)
                            ELSE UNCHANGED <<token, sessions, dead>>
                         /\ UNCHANGED <<records, values>>
                      \/ Fail(w, r)
      BY <1>7 DEF UpdatePrincipal
    <2>2. step[w] = "decided" /\ job[w].kind = "update"
      BY <1>7 DEF UpdatePrincipal, Decided
    <2>3. r = NewRow(w)
      BY <2>1, <2>2 DEF NewRow
    <2>4. r.active = job[w].to.active
      <3>1. row[job[w].target] \in Rows
        BY <1>0, <2>2, JobShape DEF TypeOK
      <3>2. QED
        BY <2>1, <3>1 DEF Rows
    <2>5. QED
      BY <1>2, <1>6, <2>1, <2>2, <2>3, <2>4 DEF Wrote, EndsSessions, TokenStays
  <1>8. CASE CliDeactivate(w)
    BY <1>2, <1>6, <1>8 DEF CliDeactivate, Decided, Wrote, NewRow, EndsSessions
  <1>9. ASSUME NEW ids, NewPassword(w, ids), step[w] = "decided",
               job[w].kind \in {"password", "cliPassword"}
        PROVE  Wrote(w) \/ EndsWithoutWrite(w)
    BY <1>2, <1>9 DEF NewPassword, Wrote, NewRow, TokenStays, EndsSessions
  <1>10. CASE ResetPassword(w) \/ CliPassword(w)
    BY <1>9, <1>10 DEF ResetPassword, CliPassword, Decided
  <1>11. CASE IssueManagedToken(w)
    BY <1>0, <1>11, JobShape DEF IssueManagedToken, EndsWithoutWrite, Refuse, Wrote, NewRow, EndsSessions, Keyed
  <1>12. CASE RevokeToken(w)
    BY <1>0, <1>2, <1>12, JobShape DEF RevokeToken, Wrote, NewRow, EndsSessions, TokenEnds
  <1>13. CASE CliToken(w)
    BY <1>0, <1>13, JobShape DEF CliToken, EndsWithoutWrite, Refuse, Wrote, NewRow, EndsSessions
  <1>14. QED
    BY <1>1, <1>3, <1>4, <1>5, <1>7, <1>8, <1>10, <1>11, <1>12, <1>13 DEF Step

-----------------------------------------------------------------------------
(* Types, and how far the numbers have come.                                 *)

LEMMA UsedTypes ==
    ASSUME ConstantsSound, TypeOK, Counted
    PROVE  /\ MaxJobs \in Nat /\ jobs \in Nat /\ jobs <= MaxJobs
           /\ Cardinality(Busy) \in Nat /\ Used \in Nat /\ 1 <= Used /\ Used <= MaxJobs + 1
           /\ 0 \in Revisions /\ 1 \in Revisions /\ Absent \in Rows /\ Unread.token \in Tokens
  <1>1. MaxJobs \in Nat /\ jobs \in Nat /\ jobs <= MaxJobs
    BY DEF ConstantsSound, TypeOK
  <1>2. Cardinality(Busy) \in Nat
    BY FS_CardinalityType DEF Counted
  <1>3. Used \in Nat /\ 1 <= Used /\ Used <= MaxJobs + 1
    BY <1>1, <1>2 DEF Used, Counted
  <1>4. 0 \in Revisions /\ 1 \in Revisions
    BY <1>1 DEF Revisions
  <1>5. Absent \in Rows /\ Unread.token \in Tokens
    BY <1>4 DEF Absent, Rows, Unread, Tokens
  <1>6. QED
    BY <1>1, <1>2, <1>3, <1>4, <1>5

(* A command that ends leaves nothing behind, and its revision is used up.     *)
LEMMA FinishFrame ==
    ASSUME ConstantsSound, TypeOK, Counted, NEW w \in Workers, step[w] # "idle",
           NEW how \in {"ok", "refused", "replayed"}, Finish(w, how)
    PROVE  /\ step' \in [Workers -> {"idle", "arrived", "decided"}] /\ step'[w] = "idle"
           /\ job' \in [Workers -> Requests \cup {Nobody}]
           /\ seen' \in [Workers -> [expected : Revisions, actor : Rows, target : Rows,
                                     token : Tokens, ids : SUBSET Nat]]
           /\ result' \in [Workers -> {"none", "ok", "refused", "replayed"}] /\ result'[w] = how
           /\ seen'[w] = Unread
           /\ \A v \in Workers \ {w} : /\ step'[v] = step[v] /\ job'[v] = job[v]
                                       /\ seen'[v] = seen[v] /\ result'[v] = result[v]
           /\ dialect' = dialect /\ jobs' = jobs
           /\ IsFiniteSet(Busy') /\ Cardinality(Busy') <= jobs' /\ Used' = Used + 1
           /\ Used' <= MaxJobs + 1
  <1>1. Unread \in [expected : Revisions, actor : Rows, target : Rows, token : Tokens, ids : SUBSET Nat]
    <2>1. Unread = [expected |-> 0, actor |-> Absent, target |-> Absent, token |-> Unread.token, ids |-> {}]
      BY DEF Unread
    <2>2. QED
      BY <2>1, UsedTypes
  <1>2. /\ step' = [step EXCEPT ![w] = "idle"] /\ job' = [job EXCEPT ![w] = Nobody]
        /\ seen' = [seen EXCEPT ![w] = Unread] /\ result' = [result EXCEPT ![w] = how]
        /\ dialect' = dialect /\ jobs' = jobs
    BY DEF Finish
  <1>3. Busy' = Busy \ {w} /\ w \in Busy
    BY <1>2 DEF Busy, TypeOK
  <1>4. IsFiniteSet(Busy') /\ Cardinality(Busy') = Cardinality(Busy) - 1
    BY <1>3, FS_RemoveElement DEF Counted
  <1>5. Cardinality(Busy') \in Nat
    BY <1>4, FS_CardinalityType
  <1>6. Cardinality(Busy') <= jobs' /\ Used' = Used + 1 /\ Used' <= MaxJobs + 1
    BY <1>2, <1>4, <1>5, UsedTypes DEF Used, Counted
  <1>7. QED
    BY <1>1, <1>2, <1>4, <1>6 DEF TypeOK

(* What the commands do to the fields of a row.                               *)
LEMMA NewRowFields ==
    ASSUME ConstantsSound, TypeOK, Counted, NEW w \in Workers, job[w] \in Requests
    PROVE  LET r == NewRow(w)
               old == row[job[w].target]
               k == job[w].kind
           IN  /\ r \in [active : BOOLEAN, admin : BOOLEAN, owner : BOOLEAN, creator : BOOLEAN,
                         password : 0..Used + 1, revision : Revisions]
               /\ k \notin {"create", "update", "cliDeactivate"} => r.active = old.active
               /\ k \notin {"create", "update", "cliPromote"} => r.admin = old.admin
               /\ k \notin {"create", "catalogRole", "cliOwner"} => r.owner = old.owner
               /\ k \notin {"create", "password", "cliPassword"} => r.password = old.password
               /\ k = "create" => ~r.owner
               /\ k = "update" => r.active = job[w].to.active
               /\ k = "cliDeactivate" => ~r.active
  <1>1. /\ row[job[w].target] \in Rows /\ row[job[w].target].password <= Used
        /\ job[w].kind = "update" => job[w].to \in [active : BOOLEAN, admin : BOOLEAN]
        /\ job[w].kind \in {"create", "catalogRole", "creator"} => job[w].to \in BOOLEAN
    BY JobShape DEF TypeOK, Counted, Moderate, Gated
  <1>2. 1 \in 0..Used + 1 /\ 0 \in 0..Used + 1 /\ 0 \in Revisions
    BY UsedTypes
  <1>3. row[job[w].target].password \in 0..Used + 1 /\ row[job[w].target].password + 1 \in 0..Used + 1
    BY <1>1, UsedTypes DEF Rows, Revisions
  <1>4. CASE job[w].kind = "create"
    BY <1>1, <1>2, <1>4 DEF NewRow, Absent
  <1>5. CASE job[w].kind = "update"
    BY <1>1, <1>3, <1>5 DEF NewRow, Rows
  <1>6. CASE job[w].kind = "catalogRole"
    BY <1>1, <1>3, <1>6 DEF NewRow, Rows
  <1>7. CASE job[w].kind = "creator"
    BY <1>1, <1>3, <1>7 DEF NewRow, Rows
  <1>8. CASE job[w].kind \in {"password", "cliPassword"}
    BY <1>1, <1>3, <1>8 DEF NewRow, Rows
  <1>9. CASE job[w].kind \in {"cliDeactivate", "cliPromote", "cliOwner"}
    BY <1>1, <1>3, <1>9 DEF NewRow, Rows
  <1>10. CASE job[w].kind \notin {"create", "update", "catalogRole", "creator", "password", "cliPassword",
                                "cliDeactivate", "cliPromote", "cliOwner"}
    BY <1>1, <1>3, <1>10 DEF NewRow, Rows
  <1>11. QED
    BY <1>4, <1>5, <1>6, <1>7, <1>8, <1>9, <1>10

(* The row that is written, and nothing else of the table.                    *)
LEMMA RowWritten ==
    ASSUME ConstantsSound, TypeOK, Counted, NEW w \in Workers, job[w] \in Requests,
           WriteRow(w, NewRow(w)), Used + 1 <= MaxJobs + 1
    PROVE  LET r == NewRow(w)
               p == job[w].target
           IN  /\ row' \in [Principals -> Rows]
               /\ \A q \in Principals : row'[q].revision = 0 => row'[q] = Absent
               /\ \A q \in Principals : row'[q].revision <= Used + 1 /\ row'[q].password <= Used + 1
               /\ \A q \in Principals \ {p} : row'[q] = row[q]
               /\ row'[p].revision = seen[w].target.revision + 1
               /\ row'[p].active = r.active /\ row'[p].admin = r.admin
               /\ row'[p].owner = r.owner /\ row'[p].password = r.password
               /\ raced \subseteq raced' /\ raced' \subseteq raced \cup {p}
               /\ p \notin raced' => row[p].revision = seen[w].target.revision
  <1> DEFINE r == NewRow(w)
             p == job[w].target
  <1>1. /\ r \in [active : BOOLEAN, admin : BOOLEAN, owner : BOOLEAN, creator : BOOLEAN,
                  password : 0..Used + 1, revision : Revisions]
    BY NewRowFields
  <1>2. p \in Principals
    BY JobShape
  <1>3. /\ seen[w].target.revision \in Nat /\ seen[w].target.revision <= Used
    BY UsedTypes DEF TypeOK, Counted, Moderate, Rows, Revisions
  <1>4. Used \in Nat /\ MaxJobs \in Nat
    BY UsedTypes
  <1>5. row' = [row EXCEPT ![p] = [r EXCEPT !.revision = seen[w].target.revision + 1]]
    BY DEF WriteRow, Advanced
  <1>6. seen[w].target.revision + 1 \in Revisions /\ r.password \in Revisions
    BY <1>1, <1>3, <1>4 DEF Revisions
  <1> HIDE DEF r
  <1>7. [r EXCEPT !.revision = seen[w].target.revision + 1] \in Rows
    BY <1>1, <1>6 DEF Rows
  <1>8. row' \in [Principals -> Rows] /\ \A q \in Principals \ {p} : row'[q] = row[q]
    BY <1>2, <1>5, <1>7 DEF TypeOK
  <1>9. row'[p] = [r EXCEPT !.revision = seen[w].target.revision + 1]
    BY <1>2, <1>5 DEF TypeOK
  <1>10. /\ row'[p].revision = seen[w].target.revision + 1
         /\ row'[p].active = r.active /\ row'[p].admin = r.admin
         /\ row'[p].owner = r.owner /\ row'[p].password = r.password
    BY <1>1, <1>9
  <1>11. \A q \in Principals : row'[q].revision <= Used + 1 /\ row'[q].password <= Used + 1
    <2>1. row'[p].revision <= Used + 1 /\ row'[p].password <= Used + 1
      BY <1>1, <1>3, <1>4, <1>10
    <2>2. ASSUME NEW q \in Principals \ {p}
          PROVE  row'[q].revision <= Used + 1 /\ row'[q].password <= Used + 1
      <3>1. row[q] \in Rows /\ row[q].revision <= Used /\ row[q].password <= Used
        BY DEF TypeOK, Counted, Moderate
      <3>2. row[q].revision \in Nat /\ row[q].password \in Nat
        BY <3>1, <1>4 DEF Rows, Revisions
      <3>3. QED
        BY <1>4, <1>8, <3>1, <3>2
    <2>3. QED
      BY <2>1, <2>2
  <1>12. \A q \in Principals : row'[q].revision = 0 => row'[q] = Absent
    BY <1>3, <1>8, <1>10 DEF TypeOK
  <1>13. /\ raced \subseteq raced' /\ raced' \subseteq raced \cup {p}
         /\ p \notin raced' => row[p].revision = seen[w].target.revision
    BY DEF WriteRow
  <1>14. QED
    BY <1>8, <1>10, <1>11, <1>12, <1>13 DEF r

-----------------------------------------------------------------------------
(* The browser sessions after a write.                                       *)

LEMMA SessionsMapped ==
    ASSUME NEW f \in [sessions -> Sessions], IsFiniteSet(sessions),
           NEW S, S = {f[s] : s \in sessions}
    PROVE  IsFiniteSet(S) /\ S \subseteq Sessions
  <1>1. f \in Surjection(sessions, S)
    BY DEF Surjection
  <1>2. IsFiniteSet(S)
    BY <1>1, FS_Surjection
  <1>3. QED
    BY <1>2

(* Sessions are the ones that were, some of them revoked or late; and of the   *)
(* target of a command that ends its sessions none is left.                   *)
LEMMA SessionsWritten ==
    ASSUME TypeOK, Counted, NEW w \in Workers, Wrote(w)
    PROVE  /\ IsFiniteSet(sessions') /\ sessions' \subseteq Sessions
           /\ \A t \in sessions' : \E s \in sessions :
                 /\ t.principal = s.principal /\ t.password = s.password
                 /\ ~t.revoked /\ ~t.late =>
                       ~s.revoked /\ ~s.late /\ (EndsSessions(w) => s.principal # job[w].target)
  <1> DEFINE p == job[w].target
             Ended(s, ids) == IF s.principal = p /\ s.id \in ids THEN [s EXCEPT !.revoked = TRUE] ELSE s
             Late(s, ids) == IF s.principal # p \/ s.id \in ids THEN s ELSE [s EXCEPT !.late = TRUE]
             Result(f) == /\ f \in [sessions -> Sessions]
                          /\ sessions' = {f[s] : s \in sessions}
                          /\ \A s \in sessions :
                                /\ f[s].principal = s.principal /\ f[s].password = s.password
                                /\ ~f[s].revoked /\ ~f[s].late =>
                                      ~s.revoked /\ ~s.late /\ (EndsSessions(w) => s.principal # p)
  <1>1. \A s \in sessions : s \in Sessions
    BY DEF TypeOK
  <1>2. \A s \in sessions : \A ids :
            /\ Ended(s, ids) \in Sessions
            /\ Ended(s, ids).principal = s.principal /\ Ended(s, ids).password = s.password
            /\ Ended(s, ids).id = s.id /\ Ended(s, ids).late = s.late
            /\ ~Ended(s, ids).revoked => ~s.revoked /\ ~(s.principal = p /\ s.id \in ids)
    BY <1>1 DEF Sessions
  <1>3. ASSUME NEW f, Result(f)
        PROVE  /\ IsFiniteSet(sessions') /\ sessions' \subseteq Sessions
               /\ \A t \in sessions' : \E s \in sessions :
                     /\ t.principal = s.principal /\ t.password = s.password
                     /\ ~t.revoked /\ ~t.late =>
                           ~s.revoked /\ ~s.late /\ (EndsSessions(w) => s.principal # p)
    BY <1>3, SessionsMapped DEF Counted
  <1>4. CASE ~EndsSessions(w) /\ sessions' = sessions
    BY <1>1, <1>4 DEF Counted, TypeOK
  <1>5. CASE EndsSessions(w) /\ sessions' = Revoked(p, AllIds)
    <2> DEFINE f == [s \in sessions |-> Ended(s, AllIds)]
    <2>1. sessions' = {f[s] : s \in sessions}
      BY <1>5 DEF Revoked
    <2>2. \A s \in sessions : s.id \in AllIds
      BY DEF AllIds
    <2>3. Result(f)
      BY <1>2, <2>1, <2>2
    <2>4. QED
      BY <1>3, <2>3
  <1>6. ASSUME NEW ids, EndsSessions(w),
               sessions' = {Late(s, ids) : s \in Revoked(p, ids)}
        PROVE  \E f : Result(f)
    <2> DEFINE f == [s \in sessions |-> Late(Ended(s, ids), ids)]
    <2>1. sessions' = {f[s] : s \in sessions}
      <3>1. Revoked(p, ids) = {Ended(s, ids) : s \in sessions}
        BY DEF Revoked
      <3>2. \A s \in sessions : f[s] = Late(Ended(s, ids), ids)
        OBVIOUS
      <3> HIDE DEF Ended, Late, f
      <3>3. {Late(u, ids) : u \in {Ended(s, ids) : s \in sessions}} = {f[s] : s \in sessions}
        BY <3>2
      <3>4. sessions' = {Late(u, ids) : u \in Revoked(p, ids)}
        BY <1>6
      <3>5. QED
        BY <3>1, <3>3, <3>4
    <2>2. ASSUME NEW s \in sessions
          PROVE  /\ f[s] \in Sessions
                 /\ f[s].principal = s.principal /\ f[s].password = s.password
                 /\ ~f[s].revoked /\ ~f[s].late => ~s.revoked /\ ~s.late /\ s.principal # p
      <3>1. Ended(s, ids) \in Sessions /\ Ended(s, ids).principal = s.principal
            /\ Ended(s, ids).id = s.id /\ Ended(s, ids).password = s.password
            /\ Ended(s, ids).late = s.late
            /\ (~Ended(s, ids).revoked => ~s.revoked /\ ~(s.principal = p /\ s.id \in ids))
        BY <1>2
      <3>2. f[s] = Late(Ended(s, ids), ids)
        OBVIOUS
      <3> HIDE DEF Ended, f
      <3>3. QED
        BY <3>1, <3>2 DEF Sessions
    <2>3. Result(f)
      BY <2>1, <2>2
    <2>4. QED
      BY <2>3
  <1>7. CASE \E ids : EndsSessions(w) /\ sessions' = {Late(s, ids) : s \in Revoked(p, ids)}
    BY <1>3, <1>6, <1>7
  <1>8. job[w].kind \in {"password", "cliPassword"} => EndsSessions(w)
    BY DEF EndsSessions
  <1>9. QED
    BY <1>4, <1>5, <1>7, <1>8 DEF Wrote

-----------------------------------------------------------------------------
(* Types.                                                                   *)

LEMMA TokensWritten ==
    ASSUME ConstantsSound, TypeOK, Counted, NEW w \in Workers, Wrote(w)
    PROVE  /\ token' \in [ServiceAccounts -> Tokens] /\ values' \in Nat /\ dead' \subseteq Nat
           /\ records' \subseteq [actor : Principals, key : Keys, kind : Keyed,
                                  target : ServiceAccounts, value : Nat]
  <1>1. job[w] \in Requests
    BY DEF Wrote, Counted
  <1>2. values' \in Nat /\ token' \in [ServiceAccounts -> Tokens] /\ dead' \subseteq Nat
    <2>1. CASE TokenStays
      BY <2>1 DEF TokenStays, TypeOK
    <2>2. CASE job[w].target \in ServiceAccounts /\ TokenEnds(job[w].target)
      BY <2>2 DEF TokenEnds, TypeOK, Tokens
    <2>3. ASSUME NEW revoked \in BOOLEAN, job[w].target \in ServiceAccounts,
                 NewValue(job[w].target, revoked)
          PROVE  values' \in Nat /\ token' \in [ServiceAccounts -> Tokens] /\ dead' \subseteq Nat
      <3>1. /\ values' = values + 1 /\ values \in Nat
            /\ token' = [token EXCEPT ![job[w].target] = [value |-> values + 1, revoked |-> revoked]]
            /\ dead' \subseteq dead \cup {token[job[w].target].value, values + 1}
        BY <2>3 DEF NewValue, TypeOK
      <3>2. values + 1 \in Nat
        BY <3>1
      <3>3. [value |-> values + 1, revoked |-> revoked] \in Tokens
        BY <3>2 DEF Tokens
      <3>4. token[job[w].target].value \in Nat /\ dead \subseteq Nat
        BY <2>3 DEF TypeOK, Tokens
      <3>5. dead' \subseteq Nat
        BY <3>1, <3>2, <3>4
      <3>6. token' \in [ServiceAccounts -> Tokens]
        BY <3>1, <3>3 DEF TypeOK
      <3>7. QED
        BY <3>1, <3>2, <3>5, <3>6
    <2>4. QED
      BY <2>1, <2>2, <2>3 DEF Wrote
  <1>3. CASE UNCHANGED records
    BY <1>2, <1>3 DEF TypeOK
  <1>4. CASE job[w].kind \in Keyed
    <2>1. /\ job[w].actor \in Principals /\ job[w].key \in Keys
          /\ job[w].target \in ServiceAccounts
      BY <1>1, <1>4, JobShape DEF Managed
    <2>2. [actor |-> job[w].actor, key |-> job[w].key, kind |-> job[w].kind,
           target |-> job[w].target, value |-> values']
             \in [actor : Principals, key : Keys, kind : Keyed, target : ServiceAccounts, value : Nat]
      BY <1>2, <1>4, <2>1
    <2>3. QED
      BY <1>2, <2>2 DEF Wrote, TypeOK
  <1>5. QED
    BY <1>2, <1>3, <1>4 DEF Wrote

LEMMA ArriveTypes ==
    ASSUME ConstantsSound, TypeOK, Counted, NEW w \in Workers, NEW j \in Requests, Arrive(w, j)
    PROVE  TypeOK' /\ Counted'
  <1>1. /\ j.target \in Principals /\ (j.kind \in Managed => j.actor \in Principals)
    BY JobShape
  <1>2. /\ row[j.target].revision \in Revisions /\ row[j.target].revision <= Used
        /\ (IF j.kind \in Managed THEN row[j.actor] ELSE Absent) \in Rows
        /\ Moderate(IF j.kind \in Managed THEN row[j.actor] ELSE Absent)
    <2>1. Absent \in Rows /\ Moderate(Absent)
      BY UsedTypes DEF Moderate, Absent
    <2>2. QED
      BY <1>1, <2>1 DEF TypeOK, Counted, Moderate, Rows
  <1> DEFINE a == IF j.kind \in Managed THEN row[j.actor] ELSE Absent
  <1>3. seen' = [seen EXCEPT ![w] = [expected |-> row[j.target].revision, actor |-> a,
                                     target |-> seen[w].target, token |-> seen[w].token,
                                     ids |-> seen[w].ids]]
    <2>1. seen' = [seen EXCEPT ![w].actor = a, ![w].expected = row[j.target].revision]
      BY DEF Arrive
    <2>2. DOMAIN seen = Workers
      BY DEF TypeOK
    <2> HIDE DEF a
    <2>3. [[seen[w] EXCEPT !.actor = a] EXCEPT !.expected = row[j.target].revision]
             = [expected |-> row[j.target].revision, actor |-> a, target |-> seen[w].target,
                token |-> seen[w].token, ids |-> seen[w].ids]
      <3>1. [seen[w] EXCEPT !.actor = a]
              = [expected |-> seen[w].expected, actor |-> a, target |-> seen[w].target,
                 token |-> seen[w].token, ids |-> seen[w].ids]
        BY <2>2 DEF TypeOK
      <3>2. [[expected |-> seen[w].expected, actor |-> a, target |-> seen[w].target,
              token |-> seen[w].token, ids |-> seen[w].ids] EXCEPT !.expected = row[j.target].revision]
              = [expected |-> row[j.target].revision, actor |-> a, target |-> seen[w].target,
                 token |-> seen[w].token, ids |-> seen[w].ids]
        OBVIOUS
      <3>3. QED
        BY <3>1, <3>2, Zenon
    <2>4. seen' = [seen EXCEPT ![w] =
                      [[seen[w] EXCEPT !.actor = a] EXCEPT !.expected = row[j.target].revision]]
      BY <2>1, <2>2
    <2>5. QED
      BY <2>3, <2>4
  <1>4. /\ step[w] = "idle" /\ jobs < MaxJobs /\ jobs' = jobs + 1
        /\ job' = [job EXCEPT ![w] = j] /\ step' = [step EXCEPT ![w] = "arrived"]
        /\ result' = [result EXCEPT ![w] = "none"]
        /\ UNCHANGED <<stored, dialect, values, dead, raced>>
    BY DEF Arrive
  <1> HIDE DEF a
  <1>5. seen' \in [Workers -> [expected : Revisions, actor : Rows, target : Rows, token : Tokens,
                               ids : SUBSET Nat]]
    BY <1>2, <1>3 DEF TypeOK, a
  <1>6. jobs' \in 0..MaxJobs
    BY <1>4, UsedTypes
  <1>7. TypeOK'
    BY <1>4, <1>5, <1>6 DEF TypeOK, stored
  <1>8. Busy' = Busy \cup {w} /\ w \notin Busy
    BY <1>4 DEF Busy, TypeOK
  <1>9. IsFiniteSet(Busy') /\ Cardinality(Busy') = Cardinality(Busy) + 1
    BY <1>8, FS_AddElement DEF Counted
  <1>10. Used' = Used /\ Cardinality(Busy') <= jobs'
    BY <1>4, <1>9, UsedTypes DEF Used, Counted
  <1>11. \A v \in Workers : seen'[v].expected <= Used' /\ Moderate(seen[v].actor)'
                            /\ Moderate(seen[v].target)'
    BY <1>2, <1>3, <1>10 DEF Counted, Moderate, TypeOK, a
  <1>12. \A v \in Workers : step'[v] # "idle" => job'[v] \in Requests /\ result'[v] = "none"
    BY <1>4 DEF Counted, TypeOK
  <1>13. \A p \in Principals : Moderate(row[p])'
    BY <1>4, <1>10 DEF Counted, Moderate, stored
  <1>14. Counted'
    BY <1>4, <1>9, <1>10, <1>11, <1>12, <1>13 DEF Counted, stored
  <1>15. QED
    BY <1>7, <1>14

LEMMA AcceptTypes ==
    ASSUME ConstantsSound, TypeOK, Counted, NEW w \in Workers, Accepted(w)
    PROVE  TypeOK' /\ Counted'
  <1>0. job[w] \in Requests
    BY DEF Accepted, Counted
  <1>1. job[w].target \in Principals /\ (job[w].kind \in Managed => job[w].actor \in Principals)
    BY <1>0, JobShape
  <1> DEFINE a == IF job[w].kind \in Managed THEN ActorRow(w) ELSE Absent
             t == IF job[w].target \in ServiceAccounts THEN token[job[w].target] ELSE seen[w].token
             ids == IF job[w].kind = "cliPassword" THEN {s.id : s \in sessions} ELSE {}
  <1>2. a \in Rows /\ Moderate(a)
    <2>1. Absent \in Rows /\ Moderate(Absent)
      BY UsedTypes DEF Moderate, Absent
    <2>2. QED
      BY <1>1, <2>1 DEF TypeOK, Counted, ActorRow
  <1>3. t \in Tokens /\ ids \subseteq Nat
    BY DEF TypeOK, Sessions
  <1>4. row[job[w].target] \in Rows /\ Moderate(row[job[w].target])
    BY <1>1 DEF TypeOK, Counted
  <1>5. /\ seen' = [seen EXCEPT ![w] = [expected |-> seen[w].expected, actor |-> a,
                                        target |-> row[job[w].target], token |-> t, ids |-> ids]]
        /\ step' = [step EXCEPT ![w] = "decided"] /\ step[w] = "arrived"
        /\ UNCHANGED <<stored, dialect, job, result, values, dead, raced, jobs>>
    BY DEF Accepted, TypeOK
  <1> HIDE DEF a, t, ids
  <1>6. seen' \in [Workers -> [expected : Revisions, actor : Rows, target : Rows, token : Tokens,
                               ids : SUBSET Nat]]
    BY <1>2, <1>3, <1>4, <1>5 DEF TypeOK
  <1>7. TypeOK'
    BY <1>5, <1>6 DEF TypeOK, stored
  <1>8. Busy' = Busy /\ Used' = Used
    BY <1>5 DEF Busy, Used, TypeOK
  <1>9. \A v \in Workers : seen'[v].expected <= Used' /\ Moderate(seen[v].actor)'
                           /\ Moderate(seen[v].target)'
    BY <1>2, <1>4, <1>5, <1>8 DEF Counted, Moderate, TypeOK
  <1>10. \A v \in Workers : step'[v] # "idle" => job'[v] \in Requests /\ result'[v] = "none"
    BY <1>5 DEF Counted, TypeOK
  <1>11. \A p \in Principals : Moderate(row[p])'
    BY <1>5, <1>8 DEF Counted, Moderate, stored
  <1>12. Counted'
    BY <1>5, <1>8, <1>9, <1>10, <1>11 DEF Counted, stored
  <1>13. QED
    BY <1>7, <1>12

(* A command that ends, whatever it has done to the rows.                     *)
LEMMA FinishTypes ==
    ASSUME ConstantsSound, TypeOK, Counted, NEW w \in Workers, step[w] # "idle",
           NEW how \in {"ok", "refused", "replayed"}, Finish(w, how),
           row' \in [Principals -> Rows],
           \A p \in Principals : row'[p].revision = 0 => row'[p] = Absent,
           \A p \in Principals : row'[p].revision <= Used + 1 /\ row'[p].password <= Used + 1,
           token' \in [ServiceAccounts -> Tokens], values' \in Nat, dead' \subseteq Nat,
           sessions' \subseteq Sessions, IsFiniteSet(sessions'), raced' \subseteq Principals,
           records' \subseteq [actor : Principals, key : Keys, kind : Keyed,
                               target : ServiceAccounts, value : Nat]
    PROVE  TypeOK' /\ Counted'
  <1>1. /\ step' \in [Workers -> {"idle", "arrived", "decided"}] /\ step'[w] = "idle"
        /\ job' \in [Workers -> Requests \cup {Nobody}]
        /\ seen' \in [Workers -> [expected : Revisions, actor : Rows, target : Rows,
                                  token : Tokens, ids : SUBSET Nat]]
        /\ result' \in [Workers -> {"none", "ok", "refused", "replayed"}]
        /\ seen'[w] = Unread
        /\ \A v \in Workers \ {w} : /\ step'[v] = step[v] /\ job'[v] = job[v]
                                    /\ seen'[v] = seen[v] /\ result'[v] = result[v]
        /\ dialect' = dialect /\ jobs' = jobs
        /\ IsFiniteSet(Busy') /\ Cardinality(Busy') <= jobs' /\ Used' = Used + 1
    BY FinishFrame
  <1>2. TypeOK'
    BY <1>1 DEF TypeOK
  <1>3. ASSUME NEW v \in Workers
        PROVE  seen'[v].expected <= Used' /\ Moderate(seen[v].actor)' /\ Moderate(seen[v].target)'
    <2>1. CASE v = w
      BY <1>1, <2>1, UsedTypes DEF Unread, Absent, Moderate
    <2>2. CASE v # w
      <3>1. /\ seen[v].expected <= Used /\ Moderate(seen[v].actor) /\ Moderate(seen[v].target)
            /\ seen[v].expected \in Nat /\ seen[v].actor \in Rows /\ seen[v].target \in Rows
        BY UsedTypes DEF Counted, TypeOK, Revisions
      <3>2. QED
        BY <1>1, <2>2, <3>1, UsedTypes DEF Moderate, Rows, Revisions
    <2>3. QED
      BY <2>1, <2>2
  <1>4. \A v \in Workers : step'[v] # "idle" => job'[v] \in Requests /\ result'[v] = "none"
    BY <1>1 DEF Counted
  <1>5. \A p \in Principals : Moderate(row[p])'
    BY <1>1 DEF Moderate
  <1>6. Counted'
    BY <1>1, <1>3, <1>4, <1>5 DEF Counted
  <1>7. QED
    BY <1>2, <1>6

LEMMA RowsGrow ==
    ASSUME ConstantsSound, TypeOK, Counted
    PROVE  \A p \in Principals : row[p].revision <= Used + 1 /\ row[p].password <= Used + 1
  <1>1. SUFFICES ASSUME NEW p \in Principals
                 PROVE  row[p].revision <= Used + 1 /\ row[p].password <= Used + 1
    OBVIOUS
  <1>2. row[p].revision \in Nat /\ row[p].password \in Nat /\ row[p].revision <= Used /\ row[p].password <= Used
    BY UsedTypes DEF TypeOK, Rows, Revisions, Counted, Moderate
  <1>3. QED
    BY <1>2, UsedTypes

LEMMA TypeStep ==
    ASSUME ConstantsSound, TypeOK, Counted, [Next]_vars
    PROVE  TypeOK' /\ Counted'
  <1>1. ASSUME NEW w \in Workers, EndsWithoutWrite(w) PROVE TypeOK' /\ Counted'
    <2>1. PICK how \in {"refused", "replayed"} : Finish(w, how)
      BY <1>1 DEF EndsWithoutWrite
    <2>2. UNCHANGED <<stored, values, dead, raced>> /\ step[w] # "idle"
      BY <1>1 DEF EndsWithoutWrite
    <2>3. /\ row \in [Principals -> Rows]
          /\ \A p \in Principals : row[p].revision = 0 => row[p] = Absent
          /\ token \in [ServiceAccounts -> Tokens] /\ values \in Nat /\ dead \subseteq Nat
          /\ sessions \subseteq Sessions /\ IsFiniteSet(sessions) /\ raced \subseteq Principals
          /\ records \subseteq [actor : Principals, key : Keys, kind : Keyed,
                                target : ServiceAccounts, value : Nat]
      BY DEF TypeOK, Counted
    <2>4. QED
      BY <2>1, <2>2, <2>3, FinishTypes, RowsGrow DEF stored
  <1>2. ASSUME NEW w \in Workers, Wrote(w) PROVE TypeOK' /\ Counted'
    <2>1. Finish(w, "ok") /\ step[w] # "idle" /\ WriteRow(w, NewRow(w)) /\ job[w] \in Requests
      BY <1>2 DEF Wrote, Counted
    <2>2. Used + 1 <= MaxJobs + 1
      BY <2>1, FinishFrame
    <2>3. /\ row' \in [Principals -> Rows]
          /\ \A q \in Principals : row'[q].revision = 0 => row'[q] = Absent
          /\ \A q \in Principals : row'[q].revision <= Used + 1 /\ row'[q].password <= Used + 1
          /\ raced' \subseteq raced \cup {job[w].target}
      BY <2>1, <2>2, RowWritten
    <2>4. raced' \subseteq Principals
      BY <2>1, <2>3, JobShape DEF TypeOK
    <2>5. QED
      BY <1>2, <2>1, <2>3, <2>4, TokensWritten, SessionsWritten, FinishTypes
  <1>3. ASSUME NEW w \in Workers, Login(w) PROVE TypeOK' /\ Counted'
    <2>1. /\ step[w] = "decided" /\ job[w].kind = "login" /\ Finish(w, "ok")
          /\ UNCHANGED <<row, token, records, values, dead, raced>>
      BY <1>3 DEF Login, Decided
    <2>2. job[w].target \in Humans
      BY <2>1, JobShape DEF Counted
    <2>3. Cardinality(sessions) + 1 \in Nat /\ seen[w].target.password \in Nat
      <3>1. Cardinality(sessions) \in Nat
        BY FS_CardinalityType DEF Counted
      <3>2. QED
        BY <3>1, UsedTypes DEF TypeOK, Rows, Revisions
    <2>4. PICK late \in BOOLEAN :
             sessions' = sessions \cup
               {[id |-> Cardinality(sessions) + 1, principal |-> job[w].target,
                 password |-> seen[w].target.password, revoked |-> FALSE, late |-> late]}
      BY <1>3 DEF Login
    <2>5. sessions' \subseteq Sessions
      <3>1. [id |-> Cardinality(sessions) + 1, principal |-> job[w].target,
             password |-> seen[w].target.password, revoked |-> FALSE, late |-> late] \in Sessions
        BY <2>2, <2>3 DEF Sessions
      <3>2. QED
        BY <2>4, <3>1 DEF TypeOK
    <2>6. IsFiniteSet(sessions')
      BY <2>4, FS_AddElement DEF Counted
    <2>7. /\ row \in [Principals -> Rows]
          /\ \A p \in Principals : row[p].revision = 0 => row[p] = Absent
          /\ token \in [ServiceAccounts -> Tokens] /\ values \in Nat /\ dead \subseteq Nat
          /\ raced \subseteq Principals
          /\ records \subseteq [actor : Principals, key : Keys, kind : Keyed,
                                target : ServiceAccounts, value : Nat]
      BY DEF TypeOK
    <2>8. QED
      BY <2>1, <2>5, <2>6, <2>7, FinishTypes, RowsGrow
  <1>4. ASSUME NEW s \in sessions, Logout(s) PROVE TypeOK' /\ Counted'
    <2>1. /\ sessions' = (sessions \ {s}) \cup {[s EXCEPT !.revoked = TRUE]}
          /\ UNCHANGED <<row, token, records, dialect, job, step, seen, result, values, dead, raced, jobs>>
      BY <1>4 DEF Logout
    <2>2. sessions' \subseteq Sessions
      BY <2>1 DEF TypeOK, Sessions
    <2>3. IsFiniteSet(sessions')
      BY <2>1, FS_RemoveElement, FS_AddElement DEF Counted
    <2>4. TypeOK'
      BY <2>1, <2>2 DEF TypeOK
    <2>5. Busy' = Busy /\ Used' = Used
      BY <2>1 DEF Busy, Used
    <2>6. Counted'
      BY <2>1, <2>3, <2>5 DEF Counted, Moderate
    <2>7. QED
      BY <2>4, <2>6
  <1>5. CASE UNCHANGED vars
    <2>1. Busy' = Busy /\ Used' = Used
      BY <1>5 DEF vars, Busy, Used
    <2>2. QED
      BY <1>5, <2>1 DEF vars, TypeOK, Counted, Moderate
  <1>6. QED
    BY <1>1, <1>2, <1>3, <1>4, <1>5, Outcome, ArriveTypes, AcceptTypes DEF Next

-----------------------------------------------------------------------------
(* What a step leaves of the other commands, and of the rows.                 *)

LEMMA OthersStay ==
    ASSUME ConstantsSound, TypeOK, Counted, NEW w \in Workers, Step(w)
    PROVE  /\ dialect' = dialect
           /\ \A v \in Workers :
                 step'[v] = "decided" =>
                    \/ v = w /\ Accepted(w)
                    \/ v # w /\ step[v] = "decided" /\ job'[v] = job[v] /\ seen'[v] = seen[v]
  <1>1. ASSUME NEW j \in Requests, Arrive(w, j)
        PROVE  /\ dialect' = dialect /\ step'[w] = "arrived"
               /\ \A v \in Workers \ {w} : step'[v] = step[v] /\ job'[v] = job[v] /\ seen'[v] = seen[v]
    BY <1>1 DEF Arrive, TypeOK
  <1>2. ASSUME Accepted(w)
        PROVE  /\ dialect' = dialect
               /\ \A v \in Workers \ {w} : step'[v] = step[v] /\ job'[v] = job[v] /\ seen'[v] = seen[v]
    BY <1>2 DEF Accepted, TypeOK
  <1>3. ASSUME NEW how, Finish(w, how)
        PROVE  /\ dialect' = dialect /\ step'[w] = "idle"
               /\ \A v \in Workers \ {w} : step'[v] = step[v] /\ job'[v] = job[v] /\ seen'[v] = seen[v]
    BY <1>3 DEF Finish, TypeOK
  <1>4. QED
    BY <1>1, <1>2, <1>3, Outcome DEF EndsWithoutWrite, Wrote, Login

(* Only a write changes rows, and of its target's row only what NewRow says.   *)
RowChange(w) ==
    LET r == NewRow(w)
        p == job[w].target
    IN  /\ job[w] \in Requests
        /\ \A q \in Principals \ {p} : row'[q] = row[q]
        /\ row'[p].revision = seen[w].target.revision + 1
        /\ row'[p].active = r.active /\ row'[p].admin = r.admin
        /\ row'[p].owner = r.owner /\ row'[p].password = r.password
        /\ raced \subseteq raced' /\ raced' \subseteq raced \cup {p}
        /\ p \notin raced' => row[p].revision = seen[w].target.revision

LEMMA WroteRow ==
    ASSUME ConstantsSound, TypeOK, Counted, NEW w \in Workers, Wrote(w)
    PROVE  RowChange(w)
  <1>1. Finish(w, "ok") /\ step[w] # "idle" /\ WriteRow(w, NewRow(w)) /\ job[w] \in Requests
    BY DEF Wrote, Counted
  <1>2. Used + 1 <= MaxJobs + 1
    BY <1>1, FinishFrame
  <1>3. QED
    BY <1>1, <1>2, RowWritten DEF RowChange

LEMMA RowStep ==
    ASSUME ConstantsSound, TypeOK, Counted, NEW w \in Workers, Step(w)
    PROVE  (row' = row /\ raced' = raced) \/ Wrote(w)
  BY Outcome DEF Arrive, Accepted, EndsWithoutWrite, Login, stored

LEMMA AdminStep ==
    ASSUME ConstantsSound, TypeOK, Counted, AdminLeft, NEW w \in Workers, Step(w)
    PROVE  AdminLeft'
  <1>1. CASE row' = row
    BY <1>1 DEF AdminLeft, ActiveAdmin
  <1>2. CASE Wrote(w)
    <2> DEFINE p == job[w].target
               r == NewRow(w)
    <2>1. TriggersAllow(p, r) /\ RowChange(w) /\ p \in Principals
      BY <1>2, WroteRow, JobShape DEF Wrote, WriteRow, Counted
    <2>2. /\ row'[p].active = r.active /\ row'[p].admin = r.admin
          /\ \A q \in Principals \ {p} : row'[q] = row[q]
      BY <2>1 DEF RowChange
    <2>3. PICK q \in Principals : ActiveAdmin(row[q])
      BY DEF AdminLeft
    <2>4. CASE q # p
      BY <2>2, <2>3, <2>4 DEF AdminLeft, ActiveAdmin
    <2>5. CASE q = p /\ ActiveAdmin(r)
      BY <2>1, <2>2, <2>5 DEF AdminLeft, ActiveAdmin
    <2>6. CASE q = p /\ ~ActiveAdmin(r)
      <3>1. PICK o \in Principals \ {p} : ActiveAdmin(row[o])
        BY <2>1, <2>3, <2>6 DEF TriggersAllow, OtherAdmin
      <3>2. QED
        BY <2>2, <3>1 DEF AdminLeft, ActiveAdmin
    <2>7. QED
      BY <2>4, <2>5, <2>6
  <1>3. QED
    BY <1>1, <1>2, RowStep

-----------------------------------------------------------------------------
(* Token values and idempotency records.                                     *)

LEMMA ValuesStep ==
    ASSUME ConstantsSound, TypeOK, Counted, ValuesUnique, NEW w \in Workers, Step(w)
    PROVE  ValuesUnique'
  <1> DEFINE p == job[w].target
  <1>0. \A s \in ServiceAccounts : token[s] \in Tokens /\ token[s].value \in Nat
    BY DEF TypeOK, Tokens
  <1>1. /\ \A s \in ServiceAccounts : token[s].value <= values
        /\ \A s, t \in ServiceAccounts : token[s].value = token[t].value => s = t \/ token[s].value = 0
        /\ \A v \in dead : 0 < v /\ v <= values
        /\ \A s \in ServiceAccounts : token[s].value \in dead => token[s].revoked
        /\ values \in Nat /\ dead \subseteq Nat
    BY DEF ValuesUnique, TypeOK
  <1>2. CASE UNCHANGED <<token, values, dead>>
    <2>1. ASSUME NEW v \in Workers, step'[v] = "decided", job'[v].kind \in {"revoke", "cliRevoke"}
          PROVE  token[job'[v].target].value # 0
      <3>1. CASE v = w /\ Accepted(w)
        <4>1. job[w] \in Requests /\ job' = job
          BY <3>1 DEF Accepted, Counted
        <4>2. job[w].target \in ServiceAccounts
          BY <2>1, <3>1, <4>1, JobShape
        <4>3. QED
          BY <2>1, <3>1, <4>1, <4>2 DEF Accepted, SoundToken
      <3>2. CASE v # w /\ step[v] = "decided" /\ job'[v] = job[v]
        BY <2>1, <3>2 DEF ValuesUnique
      <3>3. QED
        BY <2>1, <3>1, <3>2, OthersStay
    <2>2. QED
      BY <1>1, <1>2, <2>1 DEF ValuesUnique
  <1>3. ASSUME Wrote(w), ~UNCHANGED <<token, values, dead>> PROVE ValuesUnique'
    <2>0. step[w] = "decided" /\ job[w] \in Requests /\ p \in ServiceAccounts
      BY <1>3 DEF Wrote, TokenStays, Counted
    <2>1. ASSUME \A s \in ServiceAccounts : token[s].value # 0 => token'[s].value # 0
          PROVE  \A v \in Workers : step'[v] = "decided" /\ job'[v].kind \in {"revoke", "cliRevoke"}
                                       => token'[job'[v].target].value # 0
      <3>1. SUFFICES ASSUME NEW v \in Workers, step'[v] = "decided",
                            job'[v].kind \in {"revoke", "cliRevoke"}
                     PROVE  token'[job'[v].target].value # 0
        OBVIOUS
      <3>2. v # w /\ step[v] = "decided" /\ job'[v] = job[v]
        BY <2>0, <3>1, OthersStay DEF Accepted
      <3>3. token[job[v].target].value # 0 /\ job[v].target \in ServiceAccounts
        BY <3>1, <3>2, JobShape DEF ValuesUnique, Counted
      <3>4. QED
        BY <2>1, <3>2, <3>3
    <2>2. CASE token[p].value # 0 /\ TokenEnds(p)
      <3>1. /\ \A s \in ServiceAccounts : token'[s].value = token[s].value
            /\ \A s \in ServiceAccounts \ {p} : token'[s] = token[s]
            /\ token'[p].revoked
            /\ dead' = dead \cup {token[p].value} /\ values' = values
        BY <1>0, <2>0, <2>2 DEF TokenEnds, TypeOK, Tokens
      <3>2. \A s \in ServiceAccounts : token[s].value = token[p].value => s = p
        BY <1>1, <2>0, <2>2
      <3>3. \A v \in dead' : 0 < v /\ v <= values'
        BY <1>0, <1>1, <2>0, <2>2, <3>1
      <3>4. \A s \in ServiceAccounts : token'[s].value \in dead' => token'[s].revoked
        BY <1>1, <3>1, <3>2
      <3>5. /\ \A s \in ServiceAccounts : token'[s].value <= values'
            /\ \A s, t \in ServiceAccounts : token'[s].value = token'[t].value => s = t \/ token'[s].value = 0
        BY <1>1, <3>1
      <3>6. \A v \in Workers : step'[v] = "decided" /\ job'[v].kind \in {"revoke", "cliRevoke"}
                                  => token'[job'[v].target].value # 0
        <4>1. \A s \in ServiceAccounts : token[s].value # 0 => token'[s].value # 0
          BY <3>1
        <4>2. QED
          BY <2>1, <4>1
      <3>7. QED
        BY <3>3, <3>4, <3>5, <3>6 DEF ValuesUnique
    <2>3. ASSUME NEW revoked \in BOOLEAN, NewValue(p, revoked) PROVE ValuesUnique'
      <3>1. /\ token'[p].value = values + 1 /\ token'[p].revoked = revoked /\ values' = values + 1
            /\ \A s \in ServiceAccounts \ {p} : token'[s] = token[s]
            /\ dead' = (IF token[p].value = 0 THEN dead ELSE dead \cup {token[p].value})
                          \cup (IF revoked THEN {values + 1} ELSE {})
        BY <2>0, <2>3 DEF NewValue, TypeOK
      <3>2. \A s \in ServiceAccounts : token'[s].value <= values'
        BY <1>0, <1>1, <3>1
      <3>3. \A s \in ServiceAccounts : token[s].value # values + 1
        BY <1>0, <1>1
      <3>4. \A s, t \in ServiceAccounts :
               token'[s].value = token'[t].value => s = t \/ token'[s].value = 0
        BY <1>1, <3>1, <3>3
      <3>5. \A v \in dead' : 0 < v /\ v <= values'
        BY <1>0, <1>1, <2>0, <3>1
      <3>6. ASSUME NEW s \in ServiceAccounts, token'[s].value \in dead' PROVE token'[s].revoked
        <4>1. CASE s = p
          <5>1. values + 1 \notin dead /\ token[p].value # values + 1
            BY <1>1, <2>0, <3>3
          <5>2. QED
            BY <3>1, <3>6, <4>1, <5>1
        <4>2. CASE s # p
          <5>1. token'[s] = token[s] /\ token[s].value # values + 1
            BY <3>1, <3>3, <4>2
          <5>2. token[s].value # token[p].value \/ token[p].value = 0
            BY <1>1, <2>0, <4>2
          <5>3. QED
            BY <1>1, <3>1, <3>6, <5>1, <5>2
        <4>3. QED
          BY <4>1, <4>2
      <3>7. \A s \in ServiceAccounts : token[s].value # 0 => token'[s].value # 0
        BY <1>1, <3>1
      <3>8. QED
        BY <2>1, <3>2, <3>4, <3>5, <3>6, <3>7 DEF ValuesUnique
    <2>4. job[w].kind \in {"revoke", "cliRevoke"} => token[p].value # 0
      BY <2>0 DEF ValuesUnique
    <2>5. QED
      BY <1>3, <2>2, <2>3, <2>4 DEF Wrote, TokenStays
  <1>4. QED
    BY <1>2, <1>3, Outcome DEF Arrive, Accepted, EndsWithoutWrite, Login, stored

LEMMA RecordStep ==
    ASSUME ConstantsSound, TypeOK, Counted, OneRecordPerKey, NEW w \in Workers, Step(w)
    PROVE  OneRecordPerKey'
  <1>1. CASE records' = records
    BY <1>1 DEF OneRecordPerKey
  <1>2. CASE /\ RecordOf(w) = {}
             /\ records' = records \cup {[actor |-> job[w].actor, key |-> job[w].key, kind |-> job[w].kind,
                                          target |-> job[w].target, value |-> values']}
    BY <1>2 DEF OneRecordPerKey, RecordOf
  <1>3. QED
    BY <1>1, <1>2, Outcome DEF Arrive, Accepted, EndsWithoutWrite, Wrote, Login, stored

-----------------------------------------------------------------------------
(* What the commands have read.                                              *)

(* PostgreSQL's locks: no command writes a row that another one holds.         *)
LEMMA Locked ==
    ASSUME ConstantsSound, TypeOK, Counted, NEW w \in Workers, Wrote(w), NEW v \in Workers \ {w},
           step[v] = "decided", dialect = "postgresql", LocksRows(job[v].kind), job[v].kind \in Managed
    PROVE  job[v].target # job[w].target /\ job[v].actor # job[w].target
  <1>1. job[w].target \notin Held(v)
    BY DEF Wrote, WriteRow, Free
  <1>2. ({job[v].actor, job[v].target} \cap Principals) \subseteq Held(v)
    BY DEF Held, Wanted, Locking
  <1>3. job[w].target \in Principals
    BY JobShape DEF Wrote, Counted
  <1>4. QED
    BY <1>1, <1>2, <1>3

(* What a command has read as it decides.                                     *)
LEMMA Read ==
    ASSUME ConstantsSound, TypeOK, Counted, NEW w \in Workers, Accepted(w)
    PROVE  /\ job' = job /\ row' = row /\ raced' = raced /\ job[w] \in Requests
           /\ Authorized(w) /\ Sound(w)
           /\ seen'[w].target = row[job[w].target]
           /\ job[w].kind \in Managed => seen'[w].actor = ActorRow(w)
           /\ dialect = "postgresql" /\ LocksRows(job[w].kind) => ActorRow(w) = row[job[w].actor]
  BY DEF Accepted, TypeOK, Counted, ActorRow, stored

LEMMA ReadsStep ==
    ASSUME ConstantsSound, TypeOK, Counted, ReadsStand, NEW w \in Workers, Step(w)
    PROVE  ReadsStand'
  <1> DEFINE Stands(j, s) ==
               /\ j.target \notin raced' =>
                     /\ s.target.revision <= row'[j.target].revision
                     /\ s.target.revision = row'[j.target].revision => s.target = row'[j.target]
               /\ dialect = "postgresql" /\ LocksRows(j.kind) /\ j.kind \in Managed =>
                     s.target = row'[j.target] /\ s.actor = row'[j.actor]
  <1>1. ASSUME Accepted(w) PROVE Stands(job'[w], seen'[w])
    <2>1. row[job[w].target].revision <= row[job[w].target].revision
      BY <1>1, Read, JobShape, UsedTypes DEF TypeOK, Rows, Revisions
    <2>2. QED
      BY <1>1, <2>1, Read
  <1>2. ASSUME NEW v \in Workers \ {w}, step[v] = "decided", job'[v] = job[v], seen'[v] = seen[v]
        PROVE  Stands(job[v], seen[v])
    <2>1. CASE row' = row /\ raced' = raced
      BY <1>2, <2>1 DEF ReadsStand
    <2>2. CASE Wrote(w)
      <3>1. RowChange(w) /\ job[v] \in Requests /\ job[v].target \in Principals
        BY <1>2, <2>2, WroteRow, JobShape DEF Counted
      <3>2. job[v].kind \in Managed => job[v].actor \in Principals
        BY <3>1, JobShape
      <3>3. CASE job[v].target # job[w].target
        BY <1>2, <2>2, <3>1, <3>2, <3>3, Locked DEF RowChange, ReadsStand
      <3>4. CASE job[v].target = job[w].target
        <4>1. ~(dialect = "postgresql" /\ LocksRows(job[v].kind) /\ job[v].kind \in Managed)
          BY <1>2, <2>2, <3>4, Locked
        <4>2. ASSUME job[v].target \notin raced'
              PROVE  seen[v].target.revision < row'[job[v].target].revision
          <5>1. /\ job[v].target \notin raced
                /\ row[job[v].target].revision = seen[w].target.revision
                /\ row'[job[v].target].revision = seen[w].target.revision + 1
            BY <3>1, <3>4, <4>2 DEF RowChange
          <5>2. seen[v].target.revision <= row[job[v].target].revision
            BY <1>2, <5>1 DEF ReadsStand
          <5>3. seen[v].target.revision \in Nat /\ row[job[v].target].revision \in Nat
            BY <3>1, UsedTypes DEF TypeOK, Rows, Revisions
          <5>4. QED
            BY <5>1, <5>2, <5>3
        <4>3. ASSUME job[v].target \notin raced'
              PROVE  seen[v].target.revision \in Nat /\ row'[job[v].target].revision \in Nat
          BY <3>1, <3>4, UsedTypes DEF RowChange, TypeOK, Rows, Revisions
        <4>4. QED
          BY <4>1, <4>2, <4>3
      <3>5. QED
        BY <3>3, <3>4
    <2>3. QED
      BY <2>1, <2>2, RowStep
  <1>3. \A v \in Workers : step'[v] = "decided" => Stands(job'[v], seen'[v])
    BY <1>1, <1>2, OthersStay
  <1>4. dialect' = dialect
    BY OthersStay
  <1>5. QED
    BY <1>3, <1>4 DEF ReadsStand

(* What a command is authorized to do by the rows it has read.                *)
LEMMA DecisionRead ==
    ASSUME ConstantsSound, TypeOK, Counted, NEW w \in Workers, Accepted(w)
    PROVE  /\ job[w].kind = "create" => seen'[w].target.revision = 0
           /\ job[w].kind = "update" =>
                 ~(job[w].to.active /\ ~seen'[w].target.active /\ seen'[w].target.owner)
           /\ job[w].kind \in Gated => job[w].actor \in Humans /\ Dual(seen'[w].actor)
           /\ job[w].kind \in Keyed \cup {"password"} /\ seen'[w].target.owner
                 => job[w].actor \in Humans /\ Dual(seen'[w].actor)
  <1>1. /\ Authorized(w) /\ Sound(w) /\ seen'[w].target = row[job[w].target]
        /\ job[w].kind \in Managed => seen'[w].actor = ActorRow(w)
    BY Read
  <1>2. job[w].kind = "create" => row[job[w].target].revision = 0
    BY <1>1 DEF Sound
  <1>3. job[w].kind = "update" =>
           ~(job[w].to.active /\ ~row[job[w].target].active /\ row[job[w].target].owner)
    BY <1>1 DEF Sound
  <1>4. job[w].kind \in Gated => DualHuman(w) /\ job[w].kind \in Managed
    BY <1>1 DEF Authorized, Gated, Keyed, Managed
  <1>5. job[w].kind \in Keyed \cup {"password"} =>
           MayAdministerCredentials(w) /\ job[w].kind \in Managed
    BY <1>1 DEF Authorized, Gated, Keyed, Managed
  <1>6. QED
    BY <1>1, <1>2, <1>3, <1>4, <1>5 DEF DualHuman, MayAdministerCredentials

LEMMA DecisionsStep ==
    ASSUME ConstantsSound, TypeOK, Counted, DecisionsSound, NEW w \in Workers, Step(w)
    PROVE  DecisionsSound'
  <1> DEFINE Decision(j, s) ==
               /\ j.kind = "create" => s.target.revision = 0
               /\ j.kind = "update" => ~(j.to.active /\ ~s.target.active /\ s.target.owner)
               /\ j.kind \in Gated => j.actor \in Humans /\ Dual(s.actor)
               /\ j.kind \in Keyed \cup {"password"} /\ s.target.owner => j.actor \in Humans /\ Dual(s.actor)
  <1>1. ASSUME Accepted(w) PROVE Decision(job'[w], seen'[w])
    BY <1>1, Read, DecisionRead
  <1>2. \A v \in Workers : step[v] = "decided" => Decision(job[v], seen[v])
    BY DEF DecisionsSound
  <1>3. \A v \in Workers : step'[v] = "decided" => Decision(job'[v], seen'[v])
    <2> HIDE DEF Decision
    <2>1. QED
      BY <1>1, <1>2, OthersStay
  <1>4. QED
    BY <1>3 DEF DecisionsSound, Dual, ActiveAdmin

-----------------------------------------------------------------------------
(* Browser sessions.                                                         *)

(* A write that leaves the sessions of its target leaves it active, with the   *)
(* same password: an update to an inactive row then found it inactive.        *)
LEMMA SparedWrite ==
    ASSUME ConstantsSound, TypeOK, Counted, ReadsStand, DecisionsSound, NEW w \in Workers, Wrote(w),
           ~EndsSessions(w), dialect = "postgresql" \/ job[w].target \notin raced',
           row[job[w].target].active
    PROVE  row'[job[w].target].active /\ row'[job[w].target].password = row[job[w].target].password
  <1> DEFINE p == job[w].target
  <1>1. RowChange(w) /\ step[w] = "decided" /\ job[w] \in Requests /\ Claims(w) /\ p \in Principals
    BY WroteRow, JobShape DEF Wrote, WriteRow, Counted
  <1>2. /\ row'[p].active = NewRow(w).active /\ row'[p].password = NewRow(w).password
        /\ p \notin raced' => p \notin raced /\ row[p].revision = seen[w].target.revision
    BY <1>1 DEF RowChange
  <1>3. job[w].kind \notin {"cliDeactivate", "password", "cliPassword"}
    BY DEF EndsSessions
  <1>4. job[w].kind # "create"
    <2>1. SUFFICES ASSUME job[w].kind = "create" PROVE FALSE
      OBVIOUS
    <2>2. seen[w].target.revision = 0
      BY <1>1, <2>1 DEF DecisionsSound
    <2>3. row[p].revision = 0
      BY <1>1, <2>1, <2>2 DEF Claims, Managed
    <2>4. row[p] = Absent
      BY <1>1, <2>3 DEF TypeOK
    <2>5. QED
      BY <2>4 DEF Absent
  <1>5. CASE job[w].kind = "update"
    <2>1. seen[w].target = row[p]
      <3>1. CASE dialect = "postgresql"
        BY <1>1, <1>5, <3>1 DEF ReadsStand, LocksRows, Managed
      <3>2. CASE p \notin raced'
        BY <1>1, <1>2, <3>2 DEF ReadsStand
      <3>3. QED
        BY <3>1, <3>2
    <2>2. job[w].to.active
      BY <1>5, <2>1 DEF EndsSessions
    <2>3. NewRow(w).active = job[w].to.active /\ NewRow(w).password = row[p].password
      BY <1>1, <1>5, NewRowFields
    <2>4. QED
      BY <1>2, <2>2, <2>3
  <1>6. CASE job[w].kind # "update"
    BY <1>1, <1>2, <1>3, <1>4, <1>6, NewRowFields
  <1>7. QED
    BY <1>5, <1>6

LEMMA SessionsStep ==
    ASSUME ConstantsSound, TypeOK, Counted, ReadsStand, DecisionsSound, SessionsSound,
           NEW w \in Workers, Step(w)
    PROVE  SessionsSound'
  <1>0. dialect' = dialect
    BY OthersStay
  <1>1. CASE row' = row /\ raced' = raced /\ sessions' = sessions
    BY <1>0, <1>1 DEF SessionsSound
  <1>2. CASE Wrote(w)
    <2>1. SUFFICES ASSUME NEW t \in sessions', ~t.revoked, ~t.late,
                          dialect = "postgresql" \/ t.principal \notin raced'
                   PROVE  row'[t.principal].active /\ row'[t.principal].password = t.password
      BY <1>0 DEF SessionsSound
    <2>2. PICK s \in sessions :
             /\ t.principal = s.principal /\ t.password = s.password
             /\ ~s.revoked /\ ~s.late /\ (EndsSessions(w) => s.principal # job[w].target)
      BY <1>2, <2>1, SessionsWritten
    <2>3. s.principal \in Principals /\ RowChange(w)
      BY <1>2, WroteRow DEF TypeOK, Sessions, Principals
    <2>4. row[s.principal].active /\ row[s.principal].password = s.password
      BY <2>1, <2>2, <2>3 DEF SessionsSound, RowChange
    <2>5. CASE s.principal # job[w].target
      BY <2>2, <2>3, <2>4, <2>5 DEF RowChange
    <2>6. CASE s.principal = job[w].target
      BY <1>2, <2>1, <2>2, <2>4, <2>6, SparedWrite
    <2>7. QED
      BY <2>5, <2>6
  <1>3. CASE Login(w)
    <2>1. UNCHANGED <<row, raced>>
      BY <1>3 DEF Login
    <2>2. \A t \in sessions' :
             \/ t \in sessions
             \/ ~t.late => row[t.principal].active /\ row[t.principal].password = t.password
      <3>1. sessions' = sessions \cup
               {[id |-> Cardinality(sessions) + 1, principal |-> job[w].target,
                 password |-> seen[w].target.password, revoked |-> FALSE,
                 late |-> ~row[job[w].target].active
                             \/ row[job[w].target].password # seen[w].target.password]}
        BY <1>3 DEF Login
      <3>2. ASSUME NEW late, NEW t,
                   t = [id |-> Cardinality(sessions) + 1, principal |-> job[w].target,
                        password |-> seen[w].target.password, revoked |-> FALSE, late |-> late]
            PROVE  t.principal = job[w].target /\ t.password = seen[w].target.password /\ t.late = late
        BY <3>2
      <3>3. SUFFICES ASSUME NEW t \in sessions', t \notin sessions, ~t.late
                     PROVE  row[t.principal].active /\ row[t.principal].password = t.password
        OBVIOUS
      <3>4. t = [id |-> Cardinality(sessions) + 1, principal |-> job[w].target,
                 password |-> seen[w].target.password, revoked |-> FALSE,
                 late |-> ~row[job[w].target].active
                             \/ row[job[w].target].password # seen[w].target.password]
        BY <3>1, <3>3
      <3>5. /\ t.principal = job[w].target /\ t.password = seen[w].target.password
            /\ t.late = (~row[job[w].target].active
                            \/ row[job[w].target].password # seen[w].target.password)
        BY <3>2, <3>4
      <3>6. QED
        BY <3>3, <3>5
    <2>3. QED
      BY <1>0, <2>1, <2>2 DEF SessionsSound
  <1>4. QED
    BY <1>1, <1>2, <1>3, Outcome DEF Arrive, Accepted, EndsWithoutWrite, stored

-----------------------------------------------------------------------------
(* The invariant.                                                            *)

LEMMA InitInv == ASSUME ConstantsSound, Init PROVE Inv
  <1>1. MaxJobs \in Nat /\ 0 \in Revisions /\ 1 \in Revisions /\ Absent \in Rows
    BY DEF ConstantsSound, Revisions, Absent, Rows
  <1>2. row \in [Principals -> Rows] /\ \A p \in Principals : row[p].revision = 0 => row[p] = Absent
    <2>1. 0..1 \subseteq Revisions
      BY <1>1 DEF Revisions
    <2>2. [active : BOOLEAN, admin : BOOLEAN, owner : BOOLEAN, creator : BOOLEAN,
           password : 0..1, revision : {1}] \subseteq Rows
      BY <1>1, <2>1 DEF Rows
    <2>3. row \in [Principals -> {Absent} \cup
                     [active : BOOLEAN, admin : BOOLEAN, owner : BOOLEAN, creator : BOOLEAN,
                      password : 0..1, revision : {1}]]
      BY DEF Init
    <2>4. QED
      BY <1>1, <2>2, <2>3
  <1>3. \A p \in Principals : row[p].revision <= 1 /\ row[p].password <= 1
    <2>1. \A p \in Principals : row[p] \in {Absent} \cup
                     [active : BOOLEAN, admin : BOOLEAN, owner : BOOLEAN, creator : BOOLEAN,
                      password : 0..1, revision : {1}]
      BY DEF Init
    <2>2. QED
      BY <2>1 DEF Absent
  <1>4. Unread \in [expected : Revisions, actor : Rows, target : Rows, token : Tokens, ids : SUBSET Nat]
    BY <1>1 DEF Unread, Tokens
  <1>5. TypeOK
    BY <1>1, <1>2, <1>4 DEF Init, TypeOK, Tokens
  <1>6. Busy = {}
    BY DEF Busy, Init
  <1>7. IsFiniteSet(Busy) /\ Cardinality(Busy) = 0 /\ IsFiniteSet(sessions) /\ jobs = 0
    BY <1>6, FS_EmptySet DEF Init
  <1>8. Used = 1
    BY <1>7 DEF Used
  <1>9. Counted
    <2>1. \A w \in Workers : seen[w] = Unread /\ step[w] = "idle"
      BY DEF Init
    <2>2. \A w \in Workers : seen[w].expected <= 1 /\ seen[w].actor = Absent /\ seen[w].target = Absent
      BY <2>1 DEF Unread
    <2>3. Moderate(Absent)
      BY <1>8 DEF Moderate, Absent
    <2>4. QED
      BY <1>3, <1>7, <1>8, <2>1, <2>2, <2>3 DEF Counted, Moderate
  <1>10. AdminLeft
    BY DEF Init, AdminLeft, Principals
  <1>11. ValuesUnique
    BY DEF Init, ValuesUnique
  <1>12. OneRecordPerKey /\ ReadsStand /\ DecisionsSound /\ SessionsSound
    BY DEF Init, OneRecordPerKey, ReadsStand, DecisionsSound, SessionsSound
  <1>13. QED
    BY <1>5, <1>9, <1>10, <1>11, <1>12 DEF Inv

LEMMA LogoutInv == ASSUME ConstantsSound, Inv, NEW s \in sessions, Logout(s) PROVE Inv'
  <1>1. TypeOK' /\ Counted'
    BY TypeStep DEF Inv, Next
  <1>2. /\ UNCHANGED <<row, token, records, dialect, job, step, seen, result, values, dead, raced, jobs>>
        /\ sessions' = (sessions \ {s}) \cup {[s EXCEPT !.revoked = TRUE]}
    BY DEF Logout
  <1>3. AdminLeft' /\ ValuesUnique' /\ OneRecordPerKey' /\ ReadsStand'
    BY <1>2 DEF Inv, AdminLeft, ActiveAdmin, ValuesUnique, OneRecordPerKey, ReadsStand
  <1>4. DecisionsSound'
    BY <1>2 DEF Inv, DecisionsSound, Dual, ActiveAdmin
  <1>5. [s EXCEPT !.revoked = TRUE].revoked
    BY DEF Inv, TypeOK, Sessions
  <1>6. SessionsSound'
    BY <1>2, <1>5 DEF Inv, SessionsSound
  <1>7. QED
    BY <1>1, <1>3, <1>4, <1>6 DEF Inv

LEMMA NextInv == ASSUME ConstantsSound, Inv, [Next]_vars PROVE Inv'
  <1>1. CASE UNCHANGED vars
    <2>1. TypeOK' /\ Counted'
      BY <1>1, TypeStep DEF Inv
    <2>2. AdminLeft' /\ ValuesUnique' /\ OneRecordPerKey' /\ ReadsStand' /\ SessionsSound'
      BY <1>1 DEF vars, Inv, AdminLeft, ActiveAdmin, ValuesUnique, OneRecordPerKey, ReadsStand, SessionsSound
    <2>3. DecisionsSound'
      BY <1>1 DEF vars, Inv, DecisionsSound, Dual, ActiveAdmin
    <2>4. QED
      BY <2>1, <2>2, <2>3 DEF Inv
  <1>2. ASSUME NEW w \in Workers, Step(w) PROVE Inv'
    BY <1>2, TypeStep, AdminStep, ValuesStep, RecordStep, ReadsStep, DecisionsStep, SessionsStep DEF Inv, Next
  <1>3. QED
    BY <1>1, <1>2, LogoutInv DEF Next

LEMMA AlwaysInv == ASSUME ConstantsSound PROVE Spec => []Inv
  <1>1. Init => Inv
    BY InitInv
  <1>2. Inv /\ [Next]_vars => Inv'
    BY NextInv
  <1>3. QED
    BY <1>1, <1>2, PTL DEF Spec

-----------------------------------------------------------------------------
(* Every variable keeps its type, revisions and password generations included:  *)
(* a command moves a row on by one at most.                                   *)
THEOREM TypeCorrect == ASSUME ConstantsSound PROVE Spec => []TypeOK
  <1>1. Inv => TypeOK
    BY DEF Inv
  <1>2. QED
    BY <1>1, AlwaysInv, PTL

(* However commands of the API and the CLI overlap, an active platform admin is  *)
(* left, a revoked or replaced token value never works again, and a deactivation *)
(* or a new password has ended every session opened before it, with the two       *)
(* exceptions that AuthorityKept names.                                      *)
THEOREM AuthorityStaysKept == ASSUME ConstantsSound PROVE Spec => []AuthorityKept
  <1>1. Inv => AuthorityKept
    BY DEF Inv, AdminLeft, ValuesUnique, SessionsSound, AuthorityKept
  <1>2. QED
    BY <1>1, AlwaysInv, PTL

-----------------------------------------------------------------------------
(* The gates.                                                                *)

LEMMA OnlyWorker ==
    ASSUME ConstantsSound, TypeOK, Counted, NEW w \in Workers, Step(w), NEW v \in Workers \ {w}
    PROVE  step'[v] = step[v] /\ result'[v] = result[v]
  <1>1. ASSUME NEW j \in Requests, Arrive(w, j) PROVE step'[v] = step[v] /\ result'[v] = result[v]
    BY <1>1 DEF Arrive, TypeOK
  <1>2. ASSUME NEW how, Finish(w, how) PROVE step'[v] = step[v] /\ result'[v] = result[v]
    BY <1>2 DEF Finish, TypeOK
  <1>3. QED
    BY <1>1, <1>2, Outcome DEF Accepted, EndsWithoutWrite, Wrote, Login, TypeOK

(* A retry finds the one record of its key, and that record is its own.        *)
LEMMA ReplayStep ==
    ASSUME ConstantsSound, Inv, NEW w \in Workers, Step(w), step[w] = "decided", step'[w] = "idle"
    PROVE  RetryReplayed(w)
  <1>1. SUFFICES ASSUME job[w].key \in Keys,
                        NEW r \in records, r.actor = job[w].actor, r.key = job[w].key,
                        r.kind = job[w].kind, r.target = job[w].target
                 PROVE  values' = values /\ result'[w] = "replayed"
    BY DEF RetryReplayed
  <1>2. job[w] \in Requests /\ TypeOK /\ Counted
    BY DEF Inv, Counted
  <1>3. job[w].kind \in Keyed
    BY <1>1, <1>2, JobShape DEF ConstantsSound
  <1>4. IssueManagedToken(w)
    BY <1>3 DEF Step, Keyed, Arrive, Decide, Decided, CreatePrincipal, UpdatePrincipal, SetCatalogRole,
       SetProjectCreator, ResetPassword, CliPassword, CliDeactivate, CliPromote, RevokeToken, CliToken, Login
  <1>5. r \in RecordOf(w) /\ SameRequest(w, r)
    BY <1>1 DEF RecordOf, SameRequest
  <1>6. \A s \in RecordOf(w) : s = r
    BY <1>1 DEF RecordOf, Inv, OneRecordPerKey
  <1>7. Finish(w, "replayed") /\ values' = values
    BY <1>4, <1>5, <1>6 DEF IssueManagedToken
  <1>8. QED
    BY <1>2, <1>7, FinishFrame

(* The credentials of a catalog owner are changed on the decision that was made  *)
(* of the row as it still is.                                                *)
LEMMA CredentialStep ==
    ASSUME ConstantsSound, Inv, NEW w \in Workers, Step(w), NEW v \in Workers, step[v] = "decided"
    PROVE  CredentialsGuarded(v)
  <1>0. TypeOK /\ Counted /\ ReadsStand /\ DecisionsSound
    BY DEF Inv
  <1>1. SUFFICES ASSUME result'[v] = "ok", job[v].kind \in Keyed \cup {"password"},
                        job[v].target \notin raced, row[job[v].target].owner
                 PROVE  /\ job[v].actor \in Humans
                        /\ Dual(IF dialect = "postgresql" THEN row[job[v].actor] ELSE seen[v].actor)
    BY DEF CredentialsGuarded
  <1>2. result[v] = "none" /\ job[v] \in Requests
    BY <1>0 DEF Counted
  <1>3. v = w
    BY <1>0, <1>1, <1>2, OnlyWorker
  <1>4. Wrote(w)
    <2>1. ~\E j \in Requests : Arrive(w, j)
      BY <1>3 DEF Arrive
    <2>2. ~Accepted(w) /\ ~Login(w)
      BY <1>1, <1>3 DEF Accepted, Login, Decided, Keyed
    <2>3. ~EndsWithoutWrite(w)
      BY <1>0, <1>1, <1>3, FinishFrame DEF EndsWithoutWrite
    <2>4. QED
      BY <1>0, <2>1, <2>2, <2>3, Outcome
  <1>5. /\ job[w].kind \in Managed /\ LocksRows(job[w].kind)
    BY <1>1, <1>3 DEF Managed, LocksRows, Keyed
  <1>6. seen[w].target = row[job[w].target]
    BY <1>0, <1>1, <1>3, <1>4, <1>5 DEF Wrote, WriteRow, Claims, ReadsStand
  <1>7. job[w].actor \in Humans /\ Dual(seen[w].actor)
    BY <1>0, <1>1, <1>3, <1>6 DEF DecisionsSound
  <1>8. dialect = "postgresql" => seen[w].actor = row[job[w].actor]
    BY <1>0, <1>3, <1>5 DEF ReadsStand
  <1>9. QED
    BY <1>3, <1>7, <1>8

(* A row becomes that of an active catalog owner by a change of the role only. *)
LEMMA OwnerStep ==
    ASSUME ConstantsSound, Inv, NEW w \in Workers, Step(w), NEW p \in Principals \ raced,
           ~ActiveOwner(row[p]), ActiveOwner(row'[p])
    PROVE  ThroughTheGate(p)
  <1>0. TypeOK /\ Counted /\ ReadsStand /\ DecisionsSound
    BY DEF Inv
  <1>1. Wrote(w)
    BY <1>0, RowStep
  <1>2. RowChange(w) /\ step[w] = "decided" /\ step'[w] = "idle" /\ Claims(w) /\ job[w] \in Requests
    BY <1>0, <1>1, WroteRow, FinishFrame DEF Wrote, WriteRow, RowChange
  <1>3. job[w].target = p
    BY <1>2 DEF RowChange
  <1>4. /\ NewRow(w).active /\ NewRow(w).owner /\ ~(row[p].active /\ row[p].owner)
    BY <1>2, <1>3 DEF RowChange, ActiveOwner
  <1>5. job[w].kind \notin {"create", "cliDeactivate"}
    BY <1>0, <1>2, <1>4, NewRowFields
  <1>6. CASE job[w].kind \in {"catalogRole", "cliOwner"}
    <2>1. job[w].kind = "catalogRole" => job[w].actor \in Humans /\ Dual(seen[w].actor)
      BY <1>0, <1>2 DEF DecisionsSound, Gated
    <2>2. QED
      BY <1>2, <1>3, <1>6, <2>1 DEF ThroughTheGate
  <1>7. job[w].kind # "update"
    <2>1. SUFFICES ASSUME job[w].kind = "update" PROVE FALSE
      OBVIOUS
    <2>2. seen[w].target = row[p]
      BY <1>0, <1>2, <1>3, <2>1 DEF Claims, Managed, ReadsStand
    <2>3. ~(job[w].to.active /\ ~row[p].active /\ row[p].owner)
      BY <1>0, <1>2, <2>1, <2>2 DEF DecisionsSound
    <2>4. NewRow(w).active = job[w].to.active /\ NewRow(w).owner = row[p].owner
      BY <1>0, <1>2, <1>3, <2>1, NewRowFields
    <2>5. QED
      BY <1>4, <2>3, <2>4
  <1>8. CASE job[w].kind \notin {"create", "cliDeactivate", "catalogRole", "cliOwner", "update"}
    <2>1. NewRow(w).active = row[p].active /\ NewRow(w).owner = row[p].owner
      BY <1>0, <1>2, <1>3, <1>8, NewRowFields
    <2>2. QED
      BY <1>4, <2>1
  <1>9. QED
    BY <1>5, <1>6, <1>7, <1>8

LEMMA GateStep == ASSUME ConstantsSound, Inv, [Next]_vars PROVE [GatesHold]_vars
  <1>1. ASSUME NEW w \in Workers, Step(w) PROVE GatesHold
    <2>1. ASSUME NEW v \in Workers, step[v] = "decided", step'[v] = "idle" PROVE RetryReplayed(v)
      <3>1. v = w
        BY <1>1, <2>1, OnlyWorker DEF Inv
      <3>2. QED
        BY <1>1, <2>1, <3>1, ReplayStep
    <2>2. QED
      BY <1>1, <2>1, CredentialStep, OwnerStep DEF GatesHold
  <1>2. ASSUME NEW s \in sessions, Logout(s) PROVE GatesHold
    <2>1. UNCHANGED <<row, step, result>>
      BY <1>2 DEF Logout
    <2>2. \A w \in Workers : step[w] = "decided" => result'[w] = "none" /\ step'[w] = "decided"
      BY <2>1 DEF Inv, Counted
    <2>3. \A p \in Principals : row'[p] = row[p]
      BY <2>1
    <2>4. QED
      BY <2>2, <2>3 DEF GatesHold, CredentialsGuarded, ActiveOwner
  <1>3. QED
    BY <1>1, <1>2 DEF Next

(* Of every step, however commands overlap: a retry with a recorded key makes no *)
(* second secret; a catalog owner's credentials are changed for none but a human  *)
(* with both roles, who on PostgreSQL still has them; and an active catalog owner *)
(* is made through the gate only.                                            *)
THEOREM GatesAlwaysHold == ASSUME ConstantsSound PROVE Spec => [][GatesHold]_vars
  <1>1. Inv /\ [Next]_vars => [GatesHold]_vars
    BY GateStep
  <1>2. QED
    BY <1>1, AlwaysInv, PTL DEF Spec
=============================================================================
