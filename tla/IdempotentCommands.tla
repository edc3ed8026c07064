-------------------------- MODULE IdempotentCommands --------------------------
(***************************************************************************)
(* Commands with an Idempotency-Key as overlapping transactions: object      *)
(* creations (create_catalog_root, create_child_object) and comments         *)
(* (add_object_comment) of one principal, which share                        *)
(* reserve_idempotency_record (services/commands.py, services/comments.py).  *)
(*                                                                         *)
(* On PostgreSQL refresh_write_context locks the actor's principal row first, *)
(* so the commands of one principal run one after the other.  On SQLite a    *)
(* command reads the object and the record before its first write, and takes  *)
(* the write lock only there.  From that write to its commit nobody else     *)
(* writes and no other command's read sees anything: one step.               *)
(***************************************************************************)
EXTENDS Naturals, FiniteSets, FiniteSetsExt

CONSTANTS Attempts,     \* requests received, retries included
          Keys,
          Requests,     \* [op, body]
          Nothing,
          Nobody,
          Dialects,     \* the databases in use
          MaxExpiries,  \* bound: keys that expire
          MaxDeletions  \* bound: deletions of the object by others

ASSUME NobodyAssumption == Nobody \notin Attempts
ASSUME DialectsAssumption == Dialects \subseteq {"sqlite", "postgresql"}
ASSUME BoundsAssumption == MaxExpiries \in Nat /\ MaxDeletions \in Nat
ASSUME RequestsAssumption == \A r \in Requests : r.op \in {"create", "comment"}

VARIABLES object,    \* instance_id of the object's row, or 0 when there is none
          comments,  \* object_comments: [id, instance, body]
          minted,    \* UUIDs handed out so far
          records,   \* idempotency_records by key: Rows, or Nothing
          dialect,   \* the database of this installation
          job,       \* Attempts -> [key, request]
          step,      \* Attempts -> "start", "look", "run" or "done"
          instance,  \* Attempts -> the instance_id that it read
          seen,      \* Attempts -> the record that it read
          answer,    \* Attempts -> the answer sent, or Nothing
          actorLock, \* PostgreSQL: the attempt that holds the actor's row, or Nobody
          ran,       \* history: Keys -> effects since the key last expired
          expiries,
          deletions

catalog == <<object, comments, minted>>
bounds == <<expiries, deletions>>
fixed == <<dialect, job>>
vars == <<catalog, records, fixed, step, instance, seen, answer, actorLock, ran, bounds>>

Ids == Nat \ {0}

Rows == [id: Ids, request: Requests, instance: Ids, result: Ids, live: BOOLEAN]

Answers == [kind: {"done", "replayed", "conflict", "not found"}, result: Nat]

(* What the contract remembers of a row.                                      *)
Memories == [request: Requests, instance: Ids, result: Ids]

ASSUME NothingAssumption == Nothing \notin Nat \cup Rows \cup Answers \cup Memories

TypeOK ==
    /\ object \in Nat
    /\ \A c \in comments : c.id \in Ids /\ c.instance \in Ids
    /\ minted \in Ids
    /\ records \in [Keys -> Rows \cup {Nothing}]
    /\ dialect \in Dialects
    /\ job \in [Attempts -> [key: Keys, request: Requests]]
    /\ step \in [Attempts -> {"start", "look", "run", "done"}]
    /\ instance \in [Attempts -> Nat]
    /\ seen \in [Attempts -> Rows \cup {Nothing}]
    /\ answer \in [Attempts -> Answers \cup {Nothing}]
    /\ actorLock \in Attempts \cup {Nobody}
    /\ ran \in [Keys -> Nat]
    /\ expiries \in 0..MaxExpiries
    /\ deletions \in 0..MaxDeletions

(* Retries of a request, other requests under its key and requests under     *)
(* other keys may meet in any combination.                                  *)
Init ==
    /\ object \in {0, 1}
    /\ comments = {}
    /\ minted = 1
    /\ records = [k \in Keys |-> Nothing]
    /\ dialect \in Dialects
    /\ job \in [Attempts -> [key: Keys, request: Requests]]
    /\ step = [a \in Attempts |-> "start"]
    /\ instance = [a \in Attempts |-> 0]
    /\ seen = [a \in Attempts |-> Nothing]
    /\ answer = [a \in Attempts |-> Nothing]
    /\ actorLock = Nobody
    /\ ran = [k \in Keys |-> 0]
    /\ expiries = 0
    /\ deletions = 0

Asked(a) == job[a].request
Key(a) == job[a].key
IsComment(a) == Asked(a).op = "comment"

-----------------------------------------------------------------------------
(* Answers.  Every answer, and every error, ends the transaction.            *)

Reply(a, kind, result) ==
    /\ answer' = [answer EXCEPT ![a] = [kind |-> kind, result |-> result]]
    /\ step' = [step EXCEPT ![a] = "done"]
    /\ actorLock' = IF actorLock = a THEN Nobody ELSE actorLock

Refuse(a, kind) ==
    /\ Reply(a, kind, 0)
    /\ UNCHANGED <<catalog, records, ran>>

(* Seeded fault: a creation is replayed whatever instance has the ID now.    *)
SameObject(a, row) == IF IsComment(a) THEN TRUE ELSE object # 0

(* _replay_created_object compares instances; the stored comment must belong *)
(* to the object that was read.                                             *)
StillThere(a, row) ==
    IF IsComment(a)
    THEN \E c \in comments : c.id = row.result /\ c.instance = instance[a]
    ELSE object = row.result

(* The stored operation context and request hash; comments put the instance  *)
(* of their object into both.                                               *)
SameRequest(a, row) ==
    /\ row.request = Asked(a)
    /\ IsComment(a) => row.instance = instance[a]

(* _stored_idempotency_response and what its callers do with it.             *)
AnswerFrom(a, row) ==
    \/ ~SameRequest(a, row) /\ Refuse(a, "conflict")
    \/ /\ SameRequest(a, row)
       /\ ~StillThere(a, row)
       /\ Refuse(a, IF IsComment(a) THEN "conflict" ELSE "not found")
    \/ /\ SameRequest(a, row)
       /\ StillThere(a, row)
       /\ Reply(a, "replayed", row.result)
       /\ UNCHANGED <<catalog, records, ran>>

-----------------------------------------------------------------------------
(* Commands.                                                                *)

(* Seeded fault: the lock outlives a transaction that found no object.       *)
BeginKeeping(a) ==
    /\ step[a] = "start"
    /\ dialect = "postgresql" => actorLock = Nobody
    /\ actorLock' = IF dialect = "postgresql" THEN a ELSE actorLock
    /\ instance' = [instance EXCEPT ![a] = object]
    /\ step' = [step EXCEPT ![a] = IF IsComment(a) /\ object = 0 THEN "done" ELSE "look"]
    /\ UNCHANGED <<catalog, records, fixed, seen, ran, answer, bounds>>

(* refresh_write_context, and a comment's read of its object.               *)
Begin(a) ==
    /\ step[a] = "start"
    /\ dialect = "postgresql" => actorLock = Nobody
    /\ instance' = [instance EXCEPT ![a] = object]
    /\ UNCHANGED <<fixed, seen, bounds>>
    /\ \/ /\ IsComment(a) /\ object = 0
          /\ Refuse(a, "not found")
       \/ /\ ~(IsComment(a) /\ object = 0)
          /\ step' = [step EXCEPT ![a] = "look"]
          /\ actorLock' = IF dialect = "postgresql" THEN a ELSE actorLock
          /\ UNCHANGED <<catalog, records, ran, answer>>

(* The SELECT of the record.                                                *)
Look(a) ==
    /\ step[a] = "look"
    /\ seen' = [seen EXCEPT ![a] = records[Key(a)]]
    /\ step' = [step EXCEPT ![a] = "run"]
    /\ UNCHANGED <<catalog, records, fixed, instance, answer, actorLock, ran, bounds>>

Replay(a) ==
    /\ step[a] = "run"
    /\ seen[a] # Nothing /\ seen[a].live
    /\ AnswerFrom(a, seen[a])
    /\ UNCHANGED <<fixed, instance, seen, bounds>>

(* The expired record is deleted by the ID that was read.                    *)
Remaining(a) ==
    [k \in Keys |-> IF /\ records[k] # Nothing /\ seen[a] # Nothing
                       /\ records[k].id = seen[a].id
                    THEN Nothing ELSE records[k]]

RowIds(rows) == {rows[k].id : k \in {k \in Keys : rows[k] # Nothing}}

(* A sequence on PostgreSQL; on SQLite, without AUTOINCREMENT, one more than  *)
(* the largest rowid in use.                                                *)
NewRowId(rows) ==
    IF dialect = "postgresql" THEN minted ELSE Max(RowIds(rows) \cup {0}) + 1

(* Seeded fault: the insertion replaces a record that is there.              *)
AlwaysInserted(rows, k) == TRUE

(* INSERT ... ON CONFLICT DO NOTHING on (principal_id, key_hash).            *)
Inserted(rows, k) == rows[k] = Nothing

(* The response is stored and committed with the effect.                     *)
Effect(a, made) ==
    /\ minted' = minted + 1
    /\ records' = [Remaining(a) EXCEPT ![Key(a)] =
                      [id |-> NewRowId(Remaining(a)), request |-> Asked(a), instance |-> made,
                       result |-> minted + 1, live |-> TRUE]]
    /\ ran' = [ran EXCEPT ![Key(a)] = @ + 1]
    /\ Reply(a, "done", minted + 1)

(* The command's effect: a new comment needs the object's row for its        *)
(* revision, a new object needs its ID to be free.                          *)
RunComment(a) ==
    /\ IsComment(a)
    /\ \/ object = 0 /\ Refuse(a, "not found")
       \/ /\ object # 0
          /\ comments' = comments \cup
                 {[id |-> minted + 1, instance |-> instance[a], body |-> Asked(a).body]}
          /\ UNCHANGED object
          /\ Effect(a, instance[a])

RunCreate(a) ==
    /\ ~IsComment(a)
    /\ \/ object # 0 /\ Refuse(a, "conflict")
       \/ /\ object = 0
          /\ object' = minted + 1
          /\ UNCHANGED comments
          /\ Effect(a, minted + 1)

(* Seeded fault: a live key used for another request is taken over.          *)
ExecuteOthers(a) ==
    /\ step[a] = "run"
    /\ ~(seen[a] # Nothing /\ seen[a].live /\ SameRequest(a, seen[a]))
    /\ UNCHANGED <<fixed, instance, seen, bounds>>
    /\ Inserted(Remaining(a), Key(a))
    /\ RunComment(a) \/ RunCreate(a)

(* The rest of reserve_idempotency_record, the command and its commit.  A    *)
(* rowid is only ever taken over by the same key, so an attempt that finds    *)
(* another record under its key has deleted none.                           *)
Execute(a) ==
    /\ step[a] = "run"
    /\ ~(seen[a] # Nothing /\ seen[a].live)
    /\ UNCHANGED <<fixed, instance, seen, bounds>>
    /\ \/ /\ ~Inserted(Remaining(a), Key(a))
          /\ AnswerFrom(a, records[Key(a)])
       \/ /\ Inserted(Remaining(a), Key(a))
          /\ RunComment(a) \/ RunCreate(a)

Step(a) == Begin(a) \/ Look(a) \/ Replay(a) \/ Execute(a)

-----------------------------------------------------------------------------
(* Time and other principals.                                               *)

(* A command judges records by the clock it read when it looked, so a record *)
(* that it saw alive expires after it.                                      *)
Expire(k) ==
    /\ expiries < MaxExpiries
    /\ records[k] # Nothing /\ records[k].live
    /\ \A a \in Attempts : step[a] = "run" /\ Key(a) = k => seen[a] # records[k]
    /\ records' = [records EXCEPT ![k].live = FALSE]
    /\ ran' = [ran EXCEPT ![k] = 0]
    /\ expiries' = expiries + 1
    /\ UNCHANGED <<catalog, fixed, step, instance, seen, answer, actorLock, deletions>>

(* PostgreSQL: the row that a comment has selected FOR UPDATE stays.         *)
Locked ==
    /\ actorLock # Nobody
    /\ IsComment(actorLock)

DeleteObject ==
    /\ deletions < MaxDeletions
    /\ object # 0
    /\ ~Locked
    /\ object' = 0
    /\ deletions' = deletions + 1
    /\ UNCHANGED <<comments, minted, records, fixed, step, instance, seen, answer, actorLock, ran, expiries>>

RecreateObject ==
    /\ deletions > 0
    /\ object = 0
    /\ object' = minted + 1
    /\ minted' = minted + 1
    /\ UNCHANGED <<comments, records, fixed, step, instance, seen, answer, actorLock, ran, bounds>>

Next ==
    \/ \E a \in Attempts : Step(a)
    \/ \E k \in Keys : Expire(k)
    \/ DeleteObject
    \/ RecreateObject

(* Threads run and the database serves waiting statements.                   *)
Spec == Init /\ [][Next]_vars /\ \A a \in Attempts : WF_vars(Step(a))

-----------------------------------------------------------------------------
(* While a key is remembered, one request under it takes effect, once: a      *)
(* retry "creates no second object or audit event".  Broken on SQLite when    *)
(* retries of an expired key overlap: the second deletes the record of the    *)
(* first, which has taken over the expired one's rowid.                      *)
OneEffect == \A k \in Keys : ran[k] <= 1

(* The same where the actor's commands wait for each other, and everywhere   *)
(* until a key expires: the unique key and the insertion that does nothing    *)
(* suffice then.                                                            *)
OneEffectPerKey == dialect = "postgresql" \/ expiries = 0 => OneEffect

(* A replay names something that exists when it is sent: the comment on this *)
(* instance, or the same instance of the object.                             *)
ReplaysNameWhatExists ==
    [][\A a \in Attempts :
          answer[a] = Nothing /\ answer'[a] # Nothing /\ answer'[a].kind = "replayed" =>
              IF IsComment(a) THEN \E c \in comments : /\ c.id = answer'[a].result
                                                       /\ c.body = Asked(a).body
                              ELSE object = answer'[a].result]_vars

(* The commands as one step each: on PostgreSQL nothing a client sees tells    *)
(* overlapping transactions from commands that run one after the other.  On   *)
(* SQLite a comment can end up with an instance that has been replaced.       *)
Memory ==
    [k \in Keys |->
        IF records[k] # Nothing /\ records[k].live
        THEN [request |-> records[k].request, instance |-> records[k].instance,
              result |-> records[k].result]
        ELSE Nothing]

Contract == INSTANCE IdempotencyContract WITH memory <- Memory

ImplementsContract ==
    /\ dialect = "postgresql" => Contract!Init
    /\ [][dialect = "postgresql" => [Contract!Next]_(Contract!vars)]_vars

(* Every request is answered.                                               *)
EveryRequestAnswered == <>(\A a \in Attempts : answer[a] # Nothing)
=============================================================================
