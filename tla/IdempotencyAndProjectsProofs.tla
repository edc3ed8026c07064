--------------------- MODULE IdempotencyAndProjectsProofs ---------------------
(***************************************************************************)
(* Proofs about IdempotentCommands.tla, ProjectReviews.tla and                  *)
(* LegacyAdoption.tla, for any requests, keys, attempts, records and texts, any  *)
(* number of commands, expiries and deletions, and either database; and of what  *)
(* they say of their host, MCIdempotencyAndProjects.tla (PartInv).              *)
(*                                                                         *)
(* Commands (IInv), on PostgreSQL: a transaction under way holds its actor's row  *)
(* (ActorWaits), so the record that it read is the one that is stored when it    *)
(* runs (SeenIsStored), and the object that a comment has locked stays          *)
(* (ObjectStands).  The key of a live row has had one effect (EffectsCounted);   *)
(* the deletion of an expired row by its ID meets no other key's                *)
(* (RowIdsUnique).  On SQLite nothing of this holds but EffectsCounted, and       *)
(* that until a key expires: there is nothing to delete, and the insertion does   *)
(* nothing when the key is taken.                                            *)
(*                                                                         *)
(* Adoption (LegacyInv): a record stands for an entry of the list that it was     *)
(* imported from, so a text has no more records than places it once had at once.  *)
(*                                                                         *)
(* Records of a project (ProjectInv): the history ends with what is stored and    *)
(* replays to the revision that the writer counted (HistorySound), so criteria     *)
(* that evidence names stay under their revision and the graph of records stays    *)
(* valid (GraphSound).  Every review of the past still says what is true of        *)
(* whatever has kept its revision and its versions since (ReviewSound): criteria    *)
(* change with the revision only.  What was read of a repository is of a version    *)
(* that it has had (ReadingSound).  From these follows what a current review, and   *)
(* a fresh status, tell.                                                     *)
(***************************************************************************)
EXTENDS MCIdempotencyAndProjects, Sequences, FiniteSetTheorems, WellFoundedInduction, TLAPS

OnPostgresql == dialect = "postgresql"
Working(a) == step[a] \in {"look", "run"}
Stored(k) == records[k] # Nothing
Seen(a) == seen[a] # Nothing
LiveRow(k) == Stored(k) /\ records[k].live

(* On PostgreSQL a transaction under way holds the row of its actor.           *)
ActorWaits == OnPostgresql => \A a \in Attempts : Working(a) => actorLock = a

SeenIsStored == OnPostgresql => \A a \in Attempts : step[a] = "run" => seen[a] = records[Key(a)]

(* A comment under way has read an object, which PostgreSQL keeps for it.       *)
ObjectStands ==
    \A a \in Attempts : Working(a) /\ IsComment(a) =>
        instance[a] # 0 /\ (OnPostgresql => instance[a] = object)

(* What bounds the next rowid of SQLite and keeps that of PostgreSQL new.       *)
RowIdsMinted ==
    \A k \in Keys : Stored(k) =>
        records[k].id <= minted /\ (OnPostgresql => records[k].id < minted)

RowIdsUnique ==
    OnPostgresql =>
        \A k, l \in Keys :
            Stored(k) /\ Stored(l) /\ records[k].id = records[l].id => k = l

NoneExpired ==
    expiries = 0 =>
        /\ \A k \in Keys : Stored(k) => records[k].live
        /\ \A a \in Attempts : Seen(a) => seen[a].live

EffectsCounted ==
    OnPostgresql \/ expiries = 0 =>
        \A k \in Keys : ran[k] = IF LiveRow(k) THEN 1 ELSE 0

CommentIdsMinted == \A c \in comments : c.id <= minted

(* A row, stored or read before, names one comment at most: the one it is about. *)
Names(row, last, posted) ==
    /\ row.result <= last
    /\ \A c \in posted : row.request.op = "comment" /\ c.id = row.result => c.body = row.request.body

RowsNameTheirComment ==
    /\ \A k \in Keys : Stored(k) => Names(records[k], minted, comments)
    /\ \A a \in Attempts : Seen(a) => Names(seen[a], minted, comments)

CommentsStay ==
    \A k \in Keys : Stored(k) /\ records[k].request.op = "comment" =>
        \E c \in comments : c.id = records[k].result /\ c.instance = records[k].instance

DoneIsAnswered == \A a \in Attempts : answer[a] = Nothing <=> step[a] # "done"

IInv ==
    /\ TypeOK /\ ActorWaits /\ SeenIsStored /\ ObjectStands
    /\ RowIdsMinted /\ RowIdsUnique /\ NoneExpired /\ EffectsCounted
    /\ CommentIdsMinted /\ RowsNameTheirComment /\ CommentsStay /\ DoneIsAnswered

-----------------------------------------------------------------------------
(* What a bounded set of numbers has at its end: the largest rowid in use.     *)
LEMMA MaxOfBounded ==
    ASSUME NEW n \in Nat, NEW S, S \subseteq 0..n, S # {}
    PROVE  Max(S) \in S /\ \A other \in S : Max(S) >= other
<1> DEFINE T == {n - s : s \in S}
<1>1. T \subseteq Nat /\ T # {}
  <2>1. PICK s \in S : TRUE
    OBVIOUS
  <2>2. n - s \in T
    BY <2>1
  <2>3. \A s2 \in S : n - s2 \in Nat
    OBVIOUS
  <2>4. T \subseteq Nat
    BY <2>3, Zenon
  <2>5. QED
    BY <2>2, <2>4, Zenon
<1> HIDE DEF T
<1>2. PICK m \in T : \A t \in T : ~(<<t, m>> \in OpToRel(<, Nat))
  BY <1>1, NatLessThanWellFounded, WFMin, Zenon
<1>3. \A t \in T : m <= t
  <2> TAKE t \in T
  <2>1. t \in Nat /\ m \in Nat
    BY <1>1
  <2>2. ~(t < m)
    BY <2>1, <1>2 DEF OpToRel
  <2>3. QED
    BY <2>1, <2>2
<1>4. PICK s \in S : m = n - s
  BY DEF T
<1>5. \A other \in S : s >= other
  <2> TAKE other \in S
  <2>1. n - other \in T
    BY DEF T
  <2>2. n - s <= n - other
    BY <2>1, <1>3, <1>4
  <2>3. s \in 0..n /\ other \in 0..n
    OBVIOUS
  <2>4. QED
    BY <2>2, <2>3
<1>6. QED
  BY <1>5 DEF Max

(* The rowid of a new record, on either database.                              *)
LEMMA NewRowIdIsMinted ==
    ASSUME IInv, NEW a \in Attempts
    PROVE  /\ NewRowId(Remaining(a)) \in Ids
           /\ NewRowId(Remaining(a)) <= minted + 1
           /\ OnPostgresql => NewRowId(Remaining(a)) = minted
<1> DEFINE rows == Remaining(a)
           S == RowIds(rows) \cup {0}
<1>1. minted \in Ids /\ minted \in Nat
  BY DEF IInv, TypeOK, Ids
<1>2. S \subseteq 0..minted
  <2> SUFFICES ASSUME NEW k \in Keys, rows[k] # Nothing
               PROVE  rows[k].id \in 0..minted
    BY <1>1 DEF RowIds
  <2>1. rows[k] = records[k] /\ Stored(k)
    BY DEF Remaining, Stored
  <2>2. records[k] \in Rows
    BY <2>1 DEF IInv, TypeOK, Stored
  <2>3. records[k].id \in Ids
    BY <2>2 DEF Rows
  <2>4. records[k].id <= minted
    BY <2>1 DEF IInv, RowIdsMinted
  <2>5. QED
    BY <1>1, <2>1, <2>3, <2>4 DEF Ids
<1>3. Max(S) \in 0..minted
  <2>1. S # {}
    OBVIOUS
  <2>2. Max(S) \in S
    BY <1>1, <1>2, <2>1, MaxOfBounded
  <2>3. QED
    BY <1>2, <2>2
<1>4. CASE dialect = "postgresql"
  BY <1>1, <1>4 DEF NewRowId, OnPostgresql
<1>5. CASE dialect # "postgresql"
  <2>1. NewRowId(rows) = Max(S) + 1
    BY <1>5 DEF NewRowId
  <2>2. QED
    BY <1>1, <1>3, <1>5, <2>1 DEF Ids, OnPostgresql
<1>6. QED
  BY <1>4, <1>5

-----------------------------------------------------------------------------
(* At first nobody has started and nothing is stored.                          *)
LEMMA InitHolds == Init => IInv
<1> SUFFICES ASSUME Init PROVE IInv
  OBVIOUS
<1>1. TypeOK
  BY BoundsAssumption DEF Init, TypeOK, Ids
<1>2. ActorWaits /\ SeenIsStored /\ ObjectStands /\ DoneIsAnswered
  BY DEF Init, ActorWaits, SeenIsStored, ObjectStands, DoneIsAnswered, Working
<1>3. RowIdsMinted /\ RowIdsUnique /\ NoneExpired /\ CommentIdsMinted
  BY DEF Init, RowIdsMinted, RowIdsUnique, NoneExpired, CommentIdsMinted, Stored, Seen
<1>4. EffectsCounted /\ RowsNameTheirComment /\ CommentsStay
  BY DEF Init, EffectsCounted, RowsNameTheirComment, CommentsStay, LiveRow, Stored, Seen
<1>5. QED
  BY <1>1, <1>2, <1>3, <1>4 DEF IInv

(* An answer without an effect ends the transaction and changes nothing else    *)
(* that the invariant speaks of.                                             *)
LEMMA RefusalKeeps ==
    ASSUME IInv, NEW a \in Attempts, NEW kind, NEW result,
           [kind |-> kind, result |-> result] \in Answers,
           Reply(a, kind, result),
           UNCHANGED <<catalog, records, ran, fixed, seen, bounds>>,
           instance' \in {instance, [instance EXCEPT ![a] = object]}
    PROVE  IInv'
<1>1. step' = [step EXCEPT ![a] = "done"]
  BY DEF Reply
<1>2. answer' = [answer EXCEPT ![a] = [kind |-> kind, result |-> result]]
  BY DEF Reply
<1>3. UNCHANGED <<object, comments, minted, records, ran, dialect, job, seen, expiries, deletions>>
  BY DEF catalog, fixed, bounds
<1>4. \A b \in Attempts : Working(b)' => b # a /\ Working(b) /\ step'[b] = step[b] /\ instance'[b] = instance[b]
  BY <1>1 DEF Working, IInv, TypeOK
<1>5. TypeOK'
  BY <1>1, <1>2, <1>3 DEF IInv, TypeOK, Reply
<1>6. ActorWaits'
  BY <1>3, <1>4 DEF IInv, ActorWaits, Reply, OnPostgresql
<1>7. SeenIsStored'
  BY <1>1, <1>3, <1>4 DEF IInv, SeenIsStored, OnPostgresql, Working, Key, TypeOK
<1>8. ObjectStands'
  BY <1>3, <1>4 DEF IInv, ObjectStands, OnPostgresql, IsComment, Asked
<1>9. /\ RowIdsMinted' /\ RowIdsUnique' /\ NoneExpired' /\ EffectsCounted'
      /\ CommentIdsMinted' /\ RowsNameTheirComment' /\ CommentsStay'
  BY <1>3 DEF IInv, RowIdsMinted, RowIdsUnique, NoneExpired, EffectsCounted, CommentIdsMinted,
              RowsNameTheirComment, CommentsStay, Stored, Seen, LiveRow, Names, OnPostgresql
<1>10. DoneIsAnswered'
  <2>1. [kind |-> kind, result |-> result] # Nothing
    BY NothingAssumption
  <2>2. QED
    BY <1>1, <1>2, <2>1 DEF IInv, DoneIsAnswered, TypeOK
<1>11. QED
  BY <1>5, <1>6, <1>7, <1>8, <1>9, <1>10 DEF IInv

(* Whatever is answered from a record, read or met, changes nothing else.        *)
LEMMA AnswerKeeps ==
    ASSUME IInv, NEW a \in Attempts, NEW row \in Rows, AnswerFrom(a, row),
           UNCHANGED <<fixed, instance, seen, bounds>>
    PROVE  IInv'
<1>1. PICK kind \in {"conflict", "not found", "replayed"}, result \in Nat :
         Reply(a, kind, result) /\ UNCHANGED <<catalog, records, ran>>
  BY DEF AnswerFrom, Refuse, Rows, Ids
<1>2. [kind |-> kind, result |-> result] \in Answers
  BY DEF Answers
<1>3. QED
  BY <1>1, <1>2, RefusalKeeps

(* What the deletion of the expired record leaves.  On PostgreSQL, and before    *)
(* anything expires, it takes nothing that counts.                             *)
LEMMA RemainingRows ==
    ASSUME IInv, NEW a \in Attempts
    PROVE  /\ Remaining(a) \in [Keys -> Rows \cup {Nothing}]
           /\ \A k \in Keys : Remaining(a)[k] \in {records[k], Nothing}
           /\ OnPostgresql /\ step[a] = "run" =>
                 \A k \in Keys : k # Key(a) => Remaining(a)[k] = records[k]
           /\ ~Seen(a) => Remaining(a) = records
<1>1. records \in [Keys -> Rows \cup {Nothing}]
  BY DEF IInv, TypeOK
<1>2. \A k \in Keys : Remaining(a)[k] \in {records[k], Nothing}
  BY DEF Remaining
<1>3. ASSUME OnPostgresql, step[a] = "run", NEW k \in Keys, k # Key(a)
      PROVE  Remaining(a)[k] = records[k]
  <2>1. seen[a] = records[Key(a)] /\ Key(a) \in Keys
    BY <1>3 DEF IInv, SeenIsStored, TypeOK, Key
  <2>2. ~(records[k] # Nothing /\ seen[a] # Nothing /\ records[k].id = seen[a].id)
    BY <1>3, <2>1 DEF IInv, RowIdsUnique, Stored
  <2>3. QED
    BY <2>2 DEF Remaining
<1>4. ~Seen(a) => Remaining(a) = records
  BY <1>1 DEF Remaining, Seen
<1>5. QED
  BY <1>1, <1>2, <1>3, <1>4 DEF Remaining

(* The one step that makes something: the row, its effect and its count.         *)
LEMMA EffectKeeps ==
    ASSUME IInv, NEW a \in Attempts, step[a] = "run",
           ~(seen[a] # Nothing /\ seen[a].live),
           Inserted(Remaining(a), Key(a)),
           NEW made \in Ids, Effect(a, made), object' \in Nat,
           OnPostgresql /\ IsComment(a) => UNCHANGED object,
           IF IsComment(a)
           THEN comments' = comments \cup
                   {[id |-> minted + 1, instance |-> made, body |-> Asked(a).body]}
           ELSE UNCHANGED comments,
           UNCHANGED <<fixed, instance, seen, bounds>>
    PROVE  IInv'
<1> DEFINE row == [id |-> NewRowId(Remaining(a)), request |-> Asked(a), instance |-> made,
                   result |-> minted + 1, live |-> TRUE]
           new == [id |-> minted + 1, instance |-> made, body |-> Asked(a).body]
<1>1. /\ minted' = minted + 1 /\ minted \in Ids /\ minted \in Nat /\ minted' \in Ids
      /\ ran' = [ran EXCEPT ![Key(a)] = @ + 1]
      /\ answer' = [answer EXCEPT ![a] = [kind |-> "done", result |-> minted + 1]]
      /\ step' = [step EXCEPT ![a] = "done"]
      /\ UNCHANGED <<dialect, job, seen, instance, expiries, deletions>>
  BY DEF Effect, Reply, IInv, TypeOK, Ids, fixed, bounds
<1>2. Key(a) \in Keys /\ Asked(a) \in Requests
  BY DEF IInv, TypeOK, Key, Asked
<1>3. row \in Rows /\ row # Nothing
  <2>1. minted + 1 \in Ids
    BY <1>1 DEF Ids
  <2>2. row \in Rows
    BY <1>2, <2>1, NewRowIdIsMinted DEF Rows
  <2>3. QED
    BY <2>2, NothingAssumption
<1>4. records' = [Remaining(a) EXCEPT ![Key(a)] = row]
  BY DEF Effect
<1>5. /\ records' \in [Keys -> Rows \cup {Nothing}] /\ records'[Key(a)] = row
      /\ \A k \in Keys : k # Key(a) => records'[k] \in {records[k], Nothing}
  BY <1>2, <1>3, <1>4, RemainingRows
<1>6. \A b \in Attempts : Working(b)' => b # a /\ Working(b) /\ step'[b] = step[b]
  BY <1>1 DEF Working, IInv, TypeOK
<1>7. TypeOK'
  <2>1. \A c \in comments' : c.id \in Ids /\ c.instance \in Ids
    BY <1>1 DEF IInv, TypeOK, Ids
  <2>2. answer' \in [Attempts -> Answers \cup {Nothing}]
    <3>1. [kind |-> "done", result |-> minted + 1] \in Answers
      BY <1>1 DEF Answers
    <3>2. QED
      BY <1>1, <3>1 DEF IInv, TypeOK
  <2>3. ran' \in [Keys -> Nat]
    BY <1>1, <1>2 DEF IInv, TypeOK
  <2>4. actorLock' \in Attempts \cup {Nobody}
    BY DEF Effect, Reply, IInv, TypeOK
  <2>5. QED
    BY <1>1, <1>5, <2>1, <2>2, <2>3, <2>4 DEF IInv, TypeOK
<1>8. OnPostgresql => \A b \in Attempts : ~Working(b)'
  BY <1>6 DEF IInv, ActorWaits, Working
<1>9. ActorWaits' /\ SeenIsStored' /\ ObjectStands'
  BY <1>1, <1>6, <1>8 DEF IInv, ActorWaits, SeenIsStored, ObjectStands, OnPostgresql, Working, IsComment, Asked
<1>10. RowIdsMinted'
  <2> SUFFICES ASSUME NEW k \in Keys, records'[k] # Nothing
               PROVE  records'[k].id <= minted' /\ (OnPostgresql => records'[k].id < minted')
    BY <1>1 DEF RowIdsMinted, Stored, OnPostgresql
  <2>1. CASE k = Key(a)
    BY <1>1, <1>5, <2>1, NewRowIdIsMinted DEF Ids
  <2>2. CASE k # Key(a)
    <3>1. records'[k] = records[k] /\ Stored(k)
      BY <1>5, <2>2 DEF Stored
    <3>2. records[k].id \in Nat
      BY <3>1 DEF IInv, TypeOK, Rows, Ids, Stored
    <3>3. records[k].id <= minted
      BY <3>1 DEF IInv, RowIdsMinted
    <3>4. QED
      BY <1>1, <3>1, <3>2, <3>3
  <2>3. QED
    BY <2>1, <2>2
<1>11. RowIdsUnique'
  <2> SUFFICES ASSUME OnPostgresql, NEW k \in Keys, NEW l \in Keys, k # l,
                      records'[k] # Nothing, records'[l] # Nothing
               PROVE  records'[k].id # records'[l].id
    BY <1>1 DEF RowIdsUnique, Stored, OnPostgresql
  <2>1. \A m \in Keys : m # Key(a) /\ records'[m] # Nothing =>
          records'[m] = records[m] /\ records[m].id < minted /\ records[m].id \in Nat
    BY <1>5 DEF IInv, RowIdsMinted, Stored, TypeOK, Rows, Ids
  <2>2. row.id = minted
    BY NewRowIdIsMinted
  <2>3. CASE k = Key(a)
    BY <1>1, <1>5, <2>1, <2>2, <2>3
  <2>4. CASE l = Key(a)
    BY <1>1, <1>5, <2>1, <2>2, <2>4
  <2>5. CASE k # Key(a) /\ l # Key(a)
    BY <2>1, <2>5 DEF IInv, RowIdsUnique, Stored
  <2>6. QED
    BY <2>3, <2>4, <2>5
<1>12. NoneExpired'
  BY <1>1, <1>5 DEF IInv, NoneExpired, Stored, Seen
<1>13. EffectsCounted'
  <2> SUFFICES ASSUME OnPostgresql \/ expiries = 0, NEW k \in Keys
               PROVE  ran'[k] = IF records'[k] # Nothing /\ records'[k].live THEN 1 ELSE 0
    BY <1>1 DEF EffectsCounted, LiveRow, Stored, OnPostgresql
  <2>1. ran[k] = IF LiveRow(k) THEN 1 ELSE 0
    BY DEF IInv, EffectsCounted
  <2>2. CASE k # Key(a)
    <3>1. Remaining(a)[k] = records[k]
      <4>1. CASE OnPostgresql
        BY <2>2, <4>1, RemainingRows
      <4>2. CASE expiries = 0
        BY <4>2, RemainingRows DEF IInv, NoneExpired, Seen
      <4>3. QED
        BY <4>1, <4>2
    <3>2. records'[k] = records[k] /\ ran'[k] = ran[k]
      BY <1>1, <1>2, <1>4, <2>2, <3>1, RemainingRows DEF IInv, TypeOK
    <3>3. QED
      BY <2>1, <3>2 DEF LiveRow, Stored
  <2>3. CASE k = Key(a)
    <3>1. ~LiveRow(k)
      <4>1. CASE OnPostgresql
        BY <2>3, <4>1 DEF IInv, SeenIsStored, LiveRow, Stored
      <4>2. CASE expiries = 0
        BY <2>3, <4>2, RemainingRows DEF IInv, NoneExpired, Seen, Inserted, LiveRow, Stored
      <4>3. QED
        BY <4>1, <4>2
    <3>2. ran'[k] = 1
      BY <1>1, <2>1, <2>3, <3>1 DEF IInv, TypeOK
    <3>3. QED
      BY <1>3, <1>5, <2>3, <3>2
  <2>4. QED
    BY <2>2, <2>3
<1>14. CommentIdsMinted'
  BY <1>1 DEF IInv, CommentIdsMinted, TypeOK, Ids
<1>15. RowsNameTheirComment'
  <2>1. ASSUME NEW r \in Rows, Names(r, minted, comments)
        PROVE  Names(r, minted', comments')
    <3>1. r.result <= minted /\ r.result \in Nat
      BY <2>1 DEF Names, Rows, Ids
    <3>2. \A c \in comments' : r.request.op = "comment" /\ c.id = r.result => c \in comments
      BY <1>1, <3>1
    <3>3. QED
      BY <1>1, <2>1, <3>1, <3>2 DEF Names
  <2>2. Names(row, minted', comments')
    <3>1. \A c \in comments : c.id <= minted /\ c.id \in Nat
      BY DEF IInv, CommentIdsMinted, TypeOK, Ids
    <3>2. \A c \in comments' : c.id = minted + 1 => c.body = Asked(a).body
      BY <1>1, <3>1
    <3>3. QED
      BY <1>1, <3>2 DEF Names
  <2>3. \A k \in Keys : records'[k] # Nothing => Names(records'[k], minted', comments')
    <3> SUFFICES ASSUME NEW k \in Keys, records'[k] # Nothing
                 PROVE  Names(records'[k], minted', comments')
      OBVIOUS
    <3>1. CASE k = Key(a)
      BY <1>5, <2>2, <3>1
    <3>2. CASE k # Key(a)
      BY <1>5, <2>1, <3>2 DEF IInv, RowsNameTheirComment, Stored, TypeOK
    <3>3. QED
      BY <3>1, <3>2
  <2>4. \A b \in Attempts : seen'[b] # Nothing => Names(seen'[b], minted', comments')
    BY <1>1, <2>1 DEF IInv, RowsNameTheirComment, Seen, TypeOK
  <2>5. QED
    BY <2>3, <2>4 DEF RowsNameTheirComment, Stored, Seen
<1>16. CommentsStay'
  <2> SUFFICES ASSUME NEW k \in Keys, records'[k] # Nothing, records'[k].request.op = "comment"
               PROVE  \E c \in comments' : c.id = records'[k].result /\ c.instance = records'[k].instance
    BY DEF CommentsStay, Stored
  <2>1. CASE k = Key(a)
    <3>1. IsComment(a)
      BY <1>5, <2>1 DEF IsComment
    <3>2. new \in comments'
      BY <3>1
    <3>3. QED
      BY <1>5, <2>1, <3>2
  <2>2. CASE k # Key(a)
    BY <1>5, <2>2 DEF IInv, CommentsStay, Stored
  <2>3. QED
    BY <2>1, <2>2
<1>17. DoneIsAnswered'
  <2>1. [kind |-> "done", result |-> minted + 1] # Nothing
    <3>1. [kind |-> "done", result |-> minted + 1] \in Answers
      BY <1>1 DEF Answers
    <3>2. QED
      BY <3>1, NothingAssumption
  <2>2. QED
    BY <1>1, <2>1 DEF IInv, DoneIsAnswered, TypeOK
<1>18. QED
  BY <1>7, <1>9, <1>10, <1>11, <1>12, <1>13, <1>14, <1>15, <1>16, <1>17 DEF IInv

-----------------------------------------------------------------------------
(* A start takes the actor's row, which nobody has.                             *)
LEMMA BeginKeeps ==
    ASSUME IInv, NEW a \in Attempts, Begin(a)
    PROVE  IInv'
<1>1. step[a] = "start" /\ UNCHANGED <<dialect, job, seen, expiries, deletions>>
  BY DEF Begin, fixed, bounds
<1>2. instance' = [instance EXCEPT ![a] = object]
  BY DEF Begin
<1>3. CASE IsComment(a) /\ object = 0
  <2>1. Refuse(a, "not found")
    BY <1>3 DEF Begin
  <2>2. [kind |-> "not found", result |-> 0] \in Answers
    BY DEF Answers
  <2>3. QED
    BY <1>1, <1>2, <2>1, <2>2, RefusalKeeps DEF Refuse, fixed, bounds
<1>4. CASE ~(IsComment(a) /\ object = 0)
  <2>1. /\ step' = [step EXCEPT ![a] = "look"]
        /\ actorLock' = IF dialect = "postgresql" THEN a ELSE actorLock
        /\ UNCHANGED <<object, comments, minted, records, ran, answer>>
    BY <1>4 DEF Begin, Refuse, catalog
  <2>2. OnPostgresql => \A b \in Attempts : ~Working(b)
    BY NobodyAssumption DEF Begin, IInv, ActorWaits, OnPostgresql
  <2>3. OnPostgresql => \A b \in Attempts : Working(b)' => b = a /\ step'[b] = "look"
    BY <1>1, <2>1, <2>2 DEF Working, IInv, TypeOK, OnPostgresql
  <2>4. TypeOK'
    BY <1>1, <1>2, <2>1 DEF IInv, TypeOK
  <2>5. ActorWaits' /\ SeenIsStored'
    BY <1>1, <2>1, <2>3 DEF ActorWaits, SeenIsStored, Working, OnPostgresql
  <2>6. ObjectStands'
    <3> SUFFICES ASSUME NEW b \in Attempts, Working(b)', IsComment(b)
                 PROVE  instance'[b] # 0 /\ (OnPostgresql => instance'[b] = object)
      BY <1>1, <2>1 DEF ObjectStands, OnPostgresql, IsComment, Asked
    <3>1. CASE b = a
      BY <1>2, <1>4, <3>1 DEF IInv, TypeOK
    <3>2. CASE b # a
      <4>1. Working(b) /\ instance'[b] = instance[b] /\ ~OnPostgresql
        BY <1>2, <2>1, <2>3, <3>2 DEF IInv, TypeOK, Working
      <4>2. QED
        BY <4>1 DEF IInv, ObjectStands
    <3>3. QED
      BY <3>1, <3>2
  <2>7. /\ RowIdsMinted' /\ RowIdsUnique' /\ NoneExpired' /\ EffectsCounted'
        /\ CommentIdsMinted' /\ RowsNameTheirComment' /\ CommentsStay'
    BY <1>1, <2>1 DEF IInv, RowIdsMinted, RowIdsUnique, NoneExpired, EffectsCounted, CommentIdsMinted,
                      RowsNameTheirComment, CommentsStay, Stored, Seen, LiveRow, Names, OnPostgresql
  <2>8. DoneIsAnswered'
    BY <1>1, <2>1 DEF IInv, DoneIsAnswered, TypeOK
  <2>9. QED
    BY <2>4, <2>5, <2>6, <2>7, <2>8 DEF IInv
<1>5. QED
  BY <1>3, <1>4

(* The record is read by the holder of the actor's row.                         *)
LEMMA LookKeeps ==
    ASSUME IInv, NEW a \in Attempts, Look(a)
    PROVE  IInv'
<1>1. /\ step[a] = "look" /\ step' = [step EXCEPT ![a] = "run"]
      /\ seen' = [seen EXCEPT ![a] = records[Key(a)]]
      /\ UNCHANGED <<object, comments, minted, records, dialect, job, instance, answer, actorLock, ran,
                    expiries, deletions>>
  BY DEF Look, catalog, fixed, bounds
<1>2. Key(a) \in Keys
  BY DEF IInv, TypeOK, Key
<1>3. TypeOK'
  BY <1>1, <1>2 DEF IInv, TypeOK
<1>4. \A b \in Attempts : Working(b)' <=> Working(b)
  BY <1>1 DEF Working, IInv, TypeOK
<1>5. ActorWaits' /\ ObjectStands'
  BY <1>1, <1>4 DEF IInv, ActorWaits, ObjectStands, OnPostgresql, IsComment, Asked
<1>6. SeenIsStored'
  <2> SUFFICES ASSUME OnPostgresql, NEW b \in Attempts, step'[b] = "run"
               PROVE  seen'[b] = records[Key(b)]
    BY <1>1 DEF SeenIsStored, OnPostgresql, Key
  <2>1. b = a
    BY <1>1 DEF IInv, ActorWaits, Working, TypeOK
  <2>2. QED
    BY <1>1, <2>1 DEF IInv, TypeOK
<1>7. NoneExpired'
  BY <1>1, <1>2 DEF IInv, NoneExpired, Stored, Seen, TypeOK
<1>8. RowsNameTheirComment'
  BY <1>1, <1>2 DEF IInv, RowsNameTheirComment, Stored, Seen, TypeOK
<1>9. RowIdsMinted' /\ RowIdsUnique' /\ EffectsCounted' /\ CommentIdsMinted' /\ CommentsStay'
  BY <1>1 DEF IInv, RowIdsMinted, RowIdsUnique, EffectsCounted, CommentIdsMinted,
              CommentsStay, Stored, LiveRow, OnPostgresql
<1>10. DoneIsAnswered'
  BY <1>1 DEF IInv, DoneIsAnswered, TypeOK
<1>11. QED
  BY <1>3, <1>5, <1>6, <1>7, <1>8, <1>9, <1>10 DEF IInv

(* An answer from the live record that was read.                               *)
LEMMA ReplayKeeps ==
    ASSUME IInv, NEW a \in Attempts, Replay(a)
    PROVE  IInv'
<1>1. seen[a] \in Rows
  BY DEF Replay, IInv, TypeOK
<1>2. QED
  BY <1>1, AnswerKeeps DEF Replay

(* The command runs, is refused, or meets another record under its key.          *)
LEMMA ExecuteKeeps ==
    ASSUME IInv, NEW a \in Attempts, Execute(a)
    PROVE  IInv'
<1>1. /\ step[a] = "run" /\ ~(seen[a] # Nothing /\ seen[a].live)
      /\ UNCHANGED <<fixed, instance, seen, bounds>>
  BY DEF Execute
<1>2. Key(a) \in Keys
  BY DEF IInv, TypeOK, Key
<1>3. CASE ~Inserted(Remaining(a), Key(a))
  <2>1. AnswerFrom(a, records[Key(a)])
    BY <1>3 DEF Execute
  <2>2. records[Key(a)] \in Rows
    BY <1>2, <1>3, RemainingRows DEF Inserted, IInv, TypeOK
  <2>3. QED
    BY <1>1, <2>1, <2>2, AnswerKeeps
<1>4. ASSUME NEW kind \in {"conflict", "not found"}, Refuse(a, kind)
      PROVE  IInv'
  <2>1. [kind |-> kind, result |-> 0] \in Answers
    BY DEF Answers
  <2>2. QED
    BY <1>1, <1>4, <2>1, RefusalKeeps DEF Refuse
<1>5. CASE Inserted(Remaining(a), Key(a)) /\ RunComment(a)
  <2>1. CASE object = 0
    BY <1>4, <1>5, <2>1 DEF RunComment
  <2>2. CASE object # 0
    <3>1. instance[a] \in Ids
      BY <1>1, <1>5 DEF IInv, ObjectStands, TypeOK, Working, RunComment, Ids
    <3>2. QED
      BY <1>1, <1>5, <2>2, <3>1, EffectKeeps DEF RunComment, IInv, TypeOK
  <2>3. QED
    BY <2>1, <2>2
<1>6. CASE Inserted(Remaining(a), Key(a)) /\ RunCreate(a)
  <2>1. CASE object # 0
    BY <1>4, <1>6, <2>1 DEF RunCreate
  <2>2. CASE object = 0
    <3>1. minted + 1 \in Ids /\ minted + 1 \in Nat
      BY DEF IInv, TypeOK, Ids
    <3>2. QED
      BY <1>1, <1>6, <2>2, <3>1, EffectKeeps DEF RunCreate
  <2>3. QED
    BY <2>1, <2>2
<1>7. QED
  BY <1>1, <1>3, <1>5, <1>6 DEF Execute

(* A record that an attempt saw alive expires after it, so what PostgreSQL's     *)
(* waiting actor saw stays what is stored.                                    *)
LEMMA ExpireKeeps ==
    ASSUME IInv, NEW k \in Keys, Expire(k)
    PROVE  IInv'
<1> DEFINE dead == [records[k] EXCEPT !.live = FALSE]
<1>1. /\ LiveRow(k) /\ records' = [records EXCEPT ![k] = dead]
      /\ ran' = [ran EXCEPT ![k] = 0] /\ expiries' = expiries + 1 /\ expiries < MaxExpiries
      /\ UNCHANGED <<object, comments, minted, dialect, job, step, instance, seen, answer, actorLock, deletions>>
  BY DEF Expire, LiveRow, Stored, catalog, fixed
<1>2. records[k] \in Rows
  BY <1>1 DEF IInv, TypeOK, LiveRow, Stored
<1>3. /\ dead \in Rows /\ dead # Nothing /\ ~dead.live
      /\ dead.id = records[k].id /\ dead.result = records[k].result
      /\ dead.request = records[k].request /\ dead.instance = records[k].instance
  <2>1. dead \in Rows
    BY <1>2 DEF Rows
  <2>2. QED
    BY <1>2, <2>1, NothingAssumption DEF Rows
<1>4. \A l \in Keys : records'[l] = IF l = k THEN dead ELSE records[l]
  BY <1>1 DEF IInv, TypeOK
<1>5. expiries' \in 0..MaxExpiries /\ expiries' # 0
  BY <1>1, BoundsAssumption DEF IInv, TypeOK
<1>6. TypeOK'
  BY <1>1, <1>3, <1>5 DEF IInv, TypeOK
<1>7. ActorWaits' /\ ObjectStands' /\ DoneIsAnswered' /\ CommentIdsMinted' /\ NoneExpired'
  BY <1>1, <1>5 DEF IInv, ActorWaits, ObjectStands, DoneIsAnswered, CommentIdsMinted, NoneExpired,
                    Working, OnPostgresql, IsComment, Asked
<1>8. SeenIsStored'
  <2> SUFFICES ASSUME OnPostgresql, NEW a \in Attempts, step[a] = "run"
               PROVE  seen[a] = records'[Key(a)]
    BY <1>1 DEF SeenIsStored, OnPostgresql, Key
  <2>1. seen[a] = records[Key(a)] /\ Key(a) \in Keys
    BY DEF IInv, SeenIsStored, TypeOK, Key
  <2>2. Key(a) # k
    BY <2>1 DEF Expire
  <2>3. QED
    BY <1>4, <2>1, <2>2
<1>9. RowIdsMinted' /\ RowIdsUnique'
  BY <1>1, <1>3, <1>4 DEF IInv, RowIdsMinted, RowIdsUnique, Stored, LiveRow, OnPostgresql
<1>10. EffectsCounted'
  <2> SUFFICES ASSUME OnPostgresql, NEW l \in Keys
               PROVE  ran'[l] = IF records'[l] # Nothing /\ records'[l].live THEN 1 ELSE 0
    BY <1>1, <1>5 DEF EffectsCounted, LiveRow, Stored, OnPostgresql
  <2>1. ran[l] = IF records[l] # Nothing /\ records[l].live THEN 1 ELSE 0
    BY DEF IInv, EffectsCounted, LiveRow, Stored
  <2>2. QED
    BY <1>1, <1>3, <1>4, <2>1 DEF IInv, TypeOK
<1>11. RowsNameTheirComment'
  <2>1. Names(records[k], minted, comments) => Names(dead, minted, comments)
    BY <1>3 DEF Names
  <2>2. QED
    BY <1>1, <1>4, <2>1 DEF IInv, RowsNameTheirComment, Stored, Seen, LiveRow
<1>12. CommentsStay'
  BY <1>1, <1>3, <1>4 DEF IInv, CommentsStay, Stored, LiveRow
<1>13. QED
  BY <1>6, <1>7, <1>8, <1>9, <1>10, <1>11, <1>12 DEF IInv

(* Others delete the object and create it again.  On PostgreSQL no comment is     *)
(* under way then.                                                          *)
LEMMA ObjectKeeps ==
    ASSUME IInv, DeleteObject \/ RecreateObject
    PROVE  IInv'
<1>1. UNCHANGED <<comments, records, dialect, job, step, instance, seen, answer, actorLock, ran, expiries>>
  BY DEF DeleteObject, RecreateObject, fixed, bounds
<1>2. minted' \in {minted, minted + 1} /\ minted \in Ids /\ minted \in Nat
  BY DEF DeleteObject, RecreateObject, IInv, TypeOK, Ids
<1>3. object' \in Nat /\ deletions' \in 0..MaxDeletions
  BY <1>2, BoundsAssumption DEF DeleteObject, RecreateObject, IInv, TypeOK, bounds
<1>4. TypeOK'
  BY <1>1, <1>2, <1>3 DEF IInv, TypeOK, Ids
<1>5. ObjectStands'
  <2> SUFFICES ASSUME NEW a \in Attempts, Working(a), IsComment(a)
               PROVE  instance[a] # 0 /\ ~OnPostgresql
    BY <1>1 DEF ObjectStands, Working, OnPostgresql, IsComment, Asked
  <2>1. instance[a] # 0 /\ (OnPostgresql => instance[a] = object /\ actorLock = a)
    BY DEF IInv, ObjectStands, ActorWaits
  <2>2. OnPostgresql => object # 0 /\ Locked
    BY <2>1, NobodyAssumption DEF Locked
  <2>3. QED
    BY <2>1, <2>2 DEF DeleteObject, RecreateObject
<1>6. ActorWaits' /\ SeenIsStored' /\ NoneExpired' /\ EffectsCounted' /\ CommentsStay' /\ DoneIsAnswered' /\ RowIdsUnique'
  BY <1>1 DEF IInv, ActorWaits, SeenIsStored, NoneExpired, EffectsCounted, CommentsStay, DoneIsAnswered,
              RowIdsUnique, Working, OnPostgresql, Key, Stored, Seen, LiveRow
<1>7. RowIdsMinted'
  BY <1>1, <1>2 DEF IInv, RowIdsMinted, Stored, OnPostgresql, TypeOK, Rows, Ids
<1>8. CommentIdsMinted'
  BY <1>1, <1>2 DEF IInv, CommentIdsMinted, TypeOK, Ids
<1>9. RowsNameTheirComment'
  <2>1. ASSUME NEW row \in Rows, Names(row, minted, comments)
        PROVE  Names(row, minted', comments')
    BY <1>1, <1>2, <2>1 DEF Names, Rows, Ids
  <2>2. QED
    BY <1>1, <2>1 DEF IInv, RowsNameTheirComment, Stored, Seen, TypeOK
<1>10. QED
  BY <1>4, <1>5, <1>6, <1>7, <1>8, <1>9 DEF IInv

(* Nothing that the invariant speaks of changes without a step.                 *)
LEMMA StutterKeeps ==
    ASSUME IInv, UNCHANGED vars
    PROVE  IInv'
<1>1. UNCHANGED <<object, comments, minted, records, dialect, job, step, instance, seen, answer, actorLock, ran,
                  expiries, deletions>>
  BY DEF vars, catalog, fixed, bounds
<1>2. TypeOK'
  BY <1>1 DEF IInv, TypeOK
<1>3. ActorWaits' /\ SeenIsStored' /\ ObjectStands' /\ RowIdsMinted' /\ RowIdsUnique' /\ NoneExpired'
  BY <1>1 DEF IInv, ActorWaits, SeenIsStored, ObjectStands, RowIdsMinted, RowIdsUnique, NoneExpired,
              Working, OnPostgresql, IsComment, Asked, Key, Stored, Seen
<1>4. EffectsCounted' /\ CommentIdsMinted' /\ RowsNameTheirComment' /\ CommentsStay' /\ DoneIsAnswered'
  BY <1>1 DEF IInv, EffectsCounted, CommentIdsMinted, RowsNameTheirComment, CommentsStay, DoneIsAnswered,
              OnPostgresql, Stored, Seen, LiveRow, Names
<1>5. QED
  BY <1>2, <1>3, <1>4 DEF IInv

(* The invariant is inductive.                                                *)
LEMMA NextKeeps == IInv /\ [Next]_vars => IInv'
<1> SUFFICES ASSUME IInv, [Next]_vars PROVE IInv'
  OBVIOUS
<1>1. ASSUME NEW a \in Attempts, Step(a) PROVE IInv'
  BY <1>1, BeginKeeps, LookKeeps, ReplayKeeps, ExecuteKeeps DEF Step
<1>2. ASSUME NEW k \in Keys, Expire(k) PROVE IInv'
  BY <1>2, ExpireKeeps
<1>3. CASE DeleteObject \/ RecreateObject
  BY <1>3, ObjectKeeps
<1>4. CASE UNCHANGED vars
  BY <1>4, StutterKeeps
<1>5. QED
  BY <1>1, <1>2, <1>3, <1>4 DEF Next

(* And so it always holds.                                                    *)
LEMMA Invariance == Spec => []IInv
<1>1. QED
  BY InitHolds, NextKeeps, PTL DEF Spec

(* Rows, answers and locks of the commands keep their form, on either database,  *)
(* rowids that SQLite takes over included (services/commands.py).               *)
THEOREM TypeCorrect == Spec => []TypeOK
<1>1. IInv => TypeOK
  BY DEF IInv
<1>2. QED
  BY <1>1, Invariance, PTL

(* reserve_idempotency_record: on PostgreSQL always, and on SQLite until a key     *)
(* expires, the requests under a remembered key take effect once together,        *)
(* however many retries overlap.                                              *)
THEOREM OneEffectPerKeyHolds == Spec => []OneEffectPerKey
<1>1. IInv => OneEffectPerKey
  BY DEF IInv, EffectsCounted, OneEffectPerKey, OneEffect, OnPostgresql
<1>2. QED
  BY <1>1, Invariance, PTL

-----------------------------------------------------------------------------
(* Replays.                                                                 *)

ReplayNames(a) ==
    IF IsComment(a)
    THEN \E c \in comments : c.id = answer'[a].result /\ c.body = Asked(a).body
    ELSE object = answer'[a].result

(* What is sent is what was decided.                                          *)
LEMMA ReplyTells ==
    ASSUME IInv, NEW a \in Attempts, NEW kind, NEW result, Reply(a, kind, result)
    PROVE  answer'[a].kind = kind /\ answer'[a].result = result
<1>1. answer' = [answer EXCEPT ![a] = [kind |-> kind, result |-> result]] /\ a \in DOMAIN answer
  BY DEF Reply, IInv, TypeOK
<1>2. answer'[a] = [kind |-> kind, result |-> result]
  BY <1>1
<1>3. QED
  BY <1>2

(* A replay from a row names the comment or the object that the row is about.    *)
LEMMA AnswerNamesWhatExists ==
    ASSUME IInv, NEW a \in Attempts, NEW row \in Rows, Names(row, minted, comments),
           AnswerFrom(a, row), answer'[a].kind = "replayed"
    PROVE  ReplayNames(a)
<1>1. SameRequest(a, row) /\ StillThere(a, row) /\ Reply(a, "replayed", row.result)
  BY ReplyTells DEF AnswerFrom, Refuse
<1>2. answer'[a].result = row.result
  BY <1>1, ReplyTells
<1>3. CASE IsComment(a)
  <2>1. PICK c \in comments : c.id = row.result
    BY <1>1, <1>3 DEF StillThere
  <2>2. row.request = Asked(a) /\ row.request.op = "comment"
    BY <1>1, <1>3 DEF SameRequest, IsComment
  <2>3. c.body = Asked(a).body
    BY <2>1, <2>2 DEF Names
  <2>4. QED
    BY <1>2, <1>3, <2>1, <2>3 DEF ReplayNames
<1>4. CASE ~IsComment(a)
  BY <1>1, <1>2, <1>4 DEF StillThere, ReplayNames
<1>5. QED
  BY <1>3, <1>4

(* Only answers from records are replays.                                      *)
LEMMA StepNamesWhatExists ==
    ASSUME IInv, [Next]_vars, NEW a \in Attempts,
           answer[a] = Nothing, answer'[a] # Nothing, answer'[a].kind = "replayed"
    PROVE  ReplayNames(a)
<1>1. answer' # answer
  OBVIOUS
<1>2. PICK b \in Attempts : Step(b)
  BY <1>1 DEF Next, Expire, DeleteObject, RecreateObject, vars
<1>3. b = a
  BY <1>1, <1>2 DEF Step, Begin, Look, Replay, Execute, AnswerFrom, RunComment, RunCreate, Refuse, Effect, Reply,
                    IInv, TypeOK
<1>4. \A kind \in {"not found", "conflict"} : ~Refuse(a, kind)
  BY ReplyTells DEF Refuse
<1>5. \A made : ~Effect(a, made)
  BY ReplyTells DEF Effect
<1>6. CASE Replay(a)
  <2>1. seen[a] \in Rows /\ Names(seen[a], minted, comments) /\ AnswerFrom(a, seen[a])
    BY <1>6 DEF Replay, IInv, TypeOK, RowsNameTheirComment, Seen
  <2>2. QED
    BY <2>1, AnswerNamesWhatExists
<1>7. CASE Execute(a)
  <2>1. ~RunComment(a) /\ ~RunCreate(a)
    BY <1>4, <1>5 DEF RunComment, RunCreate
  <2>2. ~Inserted(Remaining(a), Key(a)) /\ AnswerFrom(a, records[Key(a)])
    BY <1>7, <2>1 DEF Execute
  <2>3. Key(a) \in Keys
    BY DEF IInv, TypeOK, Key
  <2>4. records[Key(a)] # Nothing
    BY <2>2, <2>3, RemainingRows DEF Inserted
  <2>5. records[Key(a)] \in Rows /\ Names(records[Key(a)], minted, comments)
    BY <2>3, <2>4 DEF IInv, TypeOK, RowsNameTheirComment, Stored
  <2>6. QED
    BY <2>2, <2>5, AnswerNamesWhatExists
<1>8. CASE Begin(a) \/ Look(a)
  BY <1>1, <1>4, <1>8 DEF Begin, Look
<1>9. QED
  BY <1>2, <1>3, <1>6, <1>7, <1>8 DEF Step

(* A replay names what exists when it is sent, on either database: the comment of  *)
(* this request, or the same instance of the object (_replay_created_object).     *)
THEOREM ReplaysNameWhatExistsHolds == Spec => ReplaysNameWhatExists
<1>1. IInv /\ [Next]_vars =>
        [\A a \in Attempts :
            answer[a] = Nothing /\ answer'[a] # Nothing /\ answer'[a].kind = "replayed" =>
                IF IsComment(a) THEN \E c \in comments : /\ c.id = answer'[a].result
                                                         /\ c.body = Asked(a).body
                                ELSE object = answer'[a].result]_vars
  BY StepNamesWhatExists DEF ReplayNames
<1>2. QED
  BY <1>1, Invariance, PTL DEF Spec, ReplaysNameWhatExists

-----------------------------------------------------------------------------
(* The refinement, on PostgreSQL.                                             *)

(* Before the first request the contract remembers nothing.                     *)
LEMMA InitRefines == Init => Contract!Init
BY DEF Init, Contract!Init, Memory

(* The contract remembers the live rows.                                      *)
LEMMA MemoryOfRow ==
    ASSUME IInv, NEW k \in Keys
    PROVE  /\ LiveRow(k) => /\ Memory[k] # Nothing
                            /\ Memory[k].request = records[k].request
                            /\ Memory[k].instance = records[k].instance
                            /\ Memory[k].result = records[k].result
           /\ ~LiveRow(k) => Memory[k] = Nothing
<1>1. CASE LiveRow(k)
  <2>1. records[k] \in Rows
    BY <1>1 DEF LiveRow, Stored, IInv, TypeOK
  <2>2. Memory[k] = [request |-> records[k].request, instance |-> records[k].instance,
                     result |-> records[k].result]
    BY <1>1 DEF LiveRow, Stored, Memory
  <2>3. Memory[k] \in Memories
    BY <2>1, <2>2 DEF Rows, Memories
  <2>4. QED
    BY <1>1, <2>2, <2>3, NothingAssumption
<1>2. CASE ~LiveRow(k)
  BY <1>2 DEF LiveRow, Stored, Memory
<1>3. QED
  BY <1>1, <1>2

(* Its memory is that of the table.                                           *)
LEMMA MemoryStays == records' = records => Memory' = Memory
BY DEF Memory

(* What a transaction sees when it answers: the record that is stored and, for a   *)
(* comment, its object.                                                       *)
LEMMA ActorSees ==
    ASSUME IInv, OnPostgresql, NEW a \in Attempts, step[a] = "run"
    PROVE  /\ seen[a] = records[Key(a)] /\ Key(a) \in Keys /\ Asked(a) \in Requests
           /\ job[a].key = Key(a) /\ job[a].request = Asked(a)
           /\ answer[a] = Nothing
           /\ IsComment(a) => instance[a] = object /\ object # 0
BY DEF IInv, SeenIsStored, ObjectStands, DoneIsAnswered, TypeOK, Key, Asked, Working

(* A refusal changes nothing but the answer.                                   *)
LEMMA RefusalRefines ==
    ASSUME IInv, NEW a \in Attempts, NEW kind, Refuse(a, kind), UNCHANGED fixed
    PROVE  /\ Contract!Reply(a, kind, 0)
           /\ UNCHANGED <<object, comments, minted, Memory, job>>
BY MemoryStays DEF Refuse, Reply, Contract!Reply, catalog, fixed

(* A live record is answered from as the contract says.                         *)
LEMMA ReplayRefines ==
    ASSUME IInv, OnPostgresql, NEW a \in Attempts, Replay(a)
    PROVE  Contract!Serve(a)
<1> DEFINE row == records[Key(a)]
<1>1. step[a] = "run" /\ UNCHANGED fixed
  BY DEF Replay
<1>2. /\ seen[a] = row /\ Key(a) \in Keys /\ job[a].key = Key(a) /\ job[a].request = Asked(a)
      /\ answer[a] = Nothing
      /\ IsComment(a) => instance[a] = object /\ object # 0
  BY <1>1, ActorSees
<1>3. LiveRow(Key(a)) /\ row \in Rows /\ AnswerFrom(a, row)
  BY <1>2 DEF Replay, LiveRow, Stored, IInv, TypeOK
<1>4. /\ Memory[Key(a)] # Nothing
      /\ Memory[Key(a)].request = row.request
      /\ Memory[Key(a)].instance = row.instance
      /\ Memory[Key(a)].result = row.result
  BY <1>2, <1>3, MemoryOfRow
<1>5. row.request.op \in {"create", "comment"}
  BY <1>3, RequestsAssumption DEF Rows
<1>6. Contract!StillThere(Memory[Key(a)]) <=>
        IF row.request.op = "create" THEN object = row.result ELSE object = row.instance
  BY <1>4 DEF Contract!StillThere
<1>7. CASE ~SameRequest(a, row) /\ Refuse(a, "conflict")
  <2>1. row.request # Asked(a) \/ ~Contract!StillThere(Memory[Key(a)])
    BY <1>2, <1>5, <1>6, <1>7 DEF SameRequest, IsComment
  <2>2. Contract!Conflict(a)
    BY <1>1, <1>2, <1>4, <1>7, <2>1, RefusalRefines DEF Contract!Conflict, Contract!Remembered
  <2>3. QED
    BY <1>2, <2>2 DEF Contract!Serve
<1>8. CASE SameRequest(a, row) /\ ~StillThere(a, row) /\ Refuse(a, IF IsComment(a) THEN "conflict" ELSE "not found")
  <2>1. ~IsComment(a)
    <3> SUFFICES ASSUME IsComment(a) PROVE FALSE
      OBVIOUS
    <3>1. row.request.op = "comment" /\ row.instance = instance[a]
      BY <1>8 DEF SameRequest, IsComment
    <3>2. \E c \in comments : c.id = row.result /\ c.instance = row.instance
      BY <1>2, <1>3, <3>1 DEF IInv, CommentsStay, LiveRow
    <3>3. QED
      BY <1>8, <3>1, <3>2 DEF StillThere
  <2>2. row.request.op = "create" /\ row.request = Asked(a)
    BY <1>5, <1>8, <2>1 DEF SameRequest, IsComment
  <2>3. ~Contract!StillThere(Memory[Key(a)])
    BY <1>6, <1>8, <2>1, <2>2 DEF StillThere
  <2>4. Contract!NotFound(a)
    BY <1>1, <1>2, <1>4, <1>8, <2>1, <2>2, <2>3, RefusalRefines DEF Contract!NotFound, Contract!Remembered
  <2>5. QED
    BY <1>2, <2>4 DEF Contract!Serve
<1>9. CASE SameRequest(a, row) /\ StillThere(a, row) /\ Reply(a, "replayed", row.result) /\ UNCHANGED <<catalog, records, ran>>
  <2>1. Contract!StillThere(Memory[Key(a)])
    BY <1>2, <1>5, <1>6, <1>9 DEF SameRequest, StillThere, IsComment
  <2>2. Contract!Repeat(a)
    BY <1>1, <1>2, <1>4, <1>9, <2>1, MemoryStays
       DEF Contract!Repeat, Contract!Remembered, Contract!Reply, Reply, SameRequest, catalog, fixed
  <2>3. QED
    BY <1>2, <2>2 DEF Contract!Serve
<1>10. QED
  BY <1>3, <1>7, <1>8, <1>9 DEF AnswerFrom

(* The row of an effect is what the contract remembers of it, and nothing else is  *)
(* forgotten: the row that is deleted was this key's.                            *)
LEMMA EffectRemembers ==
    ASSUME IInv, OnPostgresql, NEW a \in Attempts, step[a] = "run", NEW made \in Ids, Effect(a, made)
    PROVE  Contract!Remember(a, made)
<1> DEFINE row == [id |-> NewRowId(Remaining(a)), request |-> Asked(a), instance |-> made,
                   result |-> minted + 1, live |-> TRUE]
           memo == [request |-> Asked(a), instance |-> made, result |-> minted + 1]
<1>1. Key(a) \in Keys /\ Asked(a) \in Requests /\ job[a].key = Key(a) /\ job[a].request = Asked(a)
  BY ActorSees
<1>2. row # Nothing
  <2>1. minted + 1 \in Ids
    BY DEF IInv, TypeOK, Ids
  <2>2. row \in Rows
    BY <1>1, <2>1, NewRowIdIsMinted DEF Rows
  <2>3. QED
    BY <2>2, NothingAssumption
<1>3. \A k \in Keys : records'[k] = IF k = Key(a) THEN row ELSE records[k]
  BY <1>1, RemainingRows DEF Effect
<1>4. \A k \in Keys : Memory'[k] = IF k = Key(a) THEN memo ELSE Memory[k]
  BY <1>2, <1>3 DEF Memory
<1>5. Memory' = [Memory EXCEPT ![Key(a)] = memo]
  BY <1>4 DEF Memory
<1>6. QED
  BY <1>1, <1>5 DEF Contract!Remember

(* Without a live record the command runs once or is refused.                   *)
LEMMA ExecuteRefines ==
    ASSUME IInv, OnPostgresql, NEW a \in Attempts, Execute(a)
    PROVE  Contract!Serve(a)
<1>1. step[a] = "run" /\ UNCHANGED fixed /\ job' = job
  BY DEF Execute, fixed
<1>2. /\ seen[a] = records[Key(a)] /\ Key(a) \in Keys
      /\ job[a].key = Key(a) /\ job[a].request = Asked(a) /\ Asked(a) \in Requests
      /\ answer[a] = Nothing
      /\ IsComment(a) => instance[a] = object /\ object # 0
  BY <1>1, ActorSees
<1>3. Memory[Key(a)] = Nothing
  BY <1>2, MemoryOfRow DEF Execute, LiveRow, Stored
<1>4. Inserted(Remaining(a), Key(a))
  BY <1>2 DEF Inserted, Remaining
<1>5. minted + 1 \in Ids
  BY DEF IInv, TypeOK, Ids
<1>6. CASE RunComment(a)
  <2>1. object # 0 /\ job[a].request.op = "comment" /\ instance[a] = object /\ Effect(a, object) /\ object' = object
    BY <1>2, <1>6 DEF RunComment, IsComment
  <2>2. object \in Ids
    BY <2>1 DEF IInv, TypeOK, Ids
  <2>3. Contract!Remember(a, object)
    BY <1>1, <2>1, <2>2, EffectRemembers
  <2>4. Contract!Comment(a)
    BY <1>1, <1>2, <1>3, <1>6, <2>1, <2>3
       DEF Contract!Comment, Contract!Remembered, Contract!Reply, RunComment, Effect, Reply
  <2>5. QED
    BY <1>2, <2>4 DEF Contract!Serve
<1>7. CASE RunCreate(a)
  <2>1. job[a].request.op = "create"
    BY <1>2, <1>7, RequestsAssumption DEF RunCreate, IsComment
  <2>2. CASE object # 0
    <3>1. Refuse(a, "conflict")
      BY <1>7, <2>2 DEF RunCreate
    <3>2. Contract!Conflict(a)
      BY <1>1, <1>2, <1>3, <2>1, <2>2, <3>1, RefusalRefines DEF Contract!Conflict, Contract!Remembered
    <3>3. QED
      BY <1>2, <3>2 DEF Contract!Serve
  <2>3. CASE object = 0
    <3>1. Effect(a, minted + 1) /\ object' = minted + 1 /\ comments' = comments
      BY <1>7, <2>3 DEF RunCreate
    <3>2. Contract!Remember(a, minted + 1)
      BY <1>1, <1>5, <3>1, EffectRemembers
    <3>3. Contract!Create(a)
      BY <1>1, <1>2, <1>3, <2>1, <2>3, <3>1, <3>2
         DEF Contract!Create, Contract!Remembered, Contract!Reply, Effect, Reply
    <3>4. QED
      BY <1>2, <3>3 DEF Contract!Serve
  <2>4. QED
    BY <2>2, <2>3
<1>8. QED
  BY <1>4, <1>6, <1>7 DEF Execute

(* A comment on no object is answered at once; other starts are not seen.          *)
LEMMA BeginRefines ==
    ASSUME IInv, NEW a \in Attempts, Begin(a)
    PROVE  Contract!Serve(a) \/ UNCHANGED Contract!vars
<1>1. CASE IsComment(a) /\ object = 0
  <2>1. Refuse(a, "not found") /\ UNCHANGED fixed
    BY <1>1 DEF Begin
  <2>2. answer[a] = Nothing
    BY DEF Begin, IInv, DoneIsAnswered
  <2>3. Contract!NotFound(a)
    BY <1>1, <2>1, RefusalRefines DEF Contract!NotFound, IsComment, Asked
  <2>4. QED
    BY <2>2, <2>3 DEF Contract!Serve
<1>2. CASE ~(IsComment(a) /\ object = 0)
  BY <1>2, MemoryStays DEF Begin, catalog, fixed, Contract!vars
<1>3. QED
  BY <1>1, <1>2

(* An expired row is a forgotten key.                                         *)
LEMMA ExpireRefines ==
    ASSUME IInv, NEW k \in Keys, Expire(k)
    PROVE  Contract!Forget(k)
<1>1. LiveRow(k) /\ records' = [records EXCEPT ![k].live = FALSE]
  BY DEF Expire, LiveRow, Stored
<1>2. records[k] \in Rows
  BY <1>1 DEF IInv, TypeOK, LiveRow, Stored
<1>3. \A l \in Keys : Memory'[l] = IF l = k THEN Nothing ELSE Memory[l]
  BY <1>1, <1>2 DEF Memory, IInv, TypeOK, Rows
<1>4. Memory' = [Memory EXCEPT ![k] = Nothing]
  BY <1>3 DEF Memory
<1>5. QED
  BY <1>1, <1>4, MemoryOfRow DEF Contract!Forget, Expire, catalog, fixed

(* Every step is one of the contract, or none.                                 *)
LEMMA StepRefines ==
    ASSUME IInv, [Next]_vars, OnPostgresql
    PROVE  [Contract!Next]_(Contract!vars)
<1>1. ASSUME NEW a \in Attempts, Step(a) PROVE [Contract!Next]_(Contract!vars)
  <2>1. CASE Begin(a)
    BY <2>1, BeginRefines DEF Contract!Next
  <2>2. CASE Look(a)
    BY <2>2, MemoryStays DEF Look, catalog, fixed, Contract!vars
  <2>3. CASE Replay(a)
    BY <2>3, ReplayRefines DEF Contract!Next
  <2>4. CASE Execute(a)
    BY <2>4, ExecuteRefines DEF Contract!Next
  <2>5. QED
    BY <1>1, <2>1, <2>2, <2>3, <2>4 DEF Step
<1>2. ASSUME NEW k \in Keys, Expire(k) PROVE [Contract!Next]_(Contract!vars)
  BY <1>2, ExpireRefines DEF Contract!Next
<1>3. CASE DeleteObject
  BY <1>3, MemoryStays DEF DeleteObject, fixed, Contract!Next, Contract!DeleteObject
<1>4. CASE RecreateObject
  BY <1>4, MemoryStays DEF RecreateObject, fixed, Contract!Next, Contract!RecreateObject
<1>5. CASE UNCHANGED vars
  BY <1>5, MemoryStays DEF vars, catalog, fixed, Contract!vars
<1>6. QED
  BY <1>1, <1>2, <1>3, <1>4, <1>5 DEF Next

(* On PostgreSQL overlapping commands answer, store and forget as if they ran one   *)
(* after the other (docs/api-v1.md; commands.py, comments.py).                   *)
THEOREM ContractImplemented == Spec => ImplementsContract
<1>1. Init => (dialect = "postgresql" => Contract!Init)
  BY InitRefines
<1>2. IInv /\ [Next]_vars => [dialect = "postgresql" => [Contract!Next]_(Contract!vars)]_vars
  BY StepRefines DEF OnPostgresql
<1>3. QED
  BY <1>1, <1>2, Invariance, PTL DEF Spec, ImplementsContract
-----------------------------------------------------------------------------
(* The adoption of text lists.                                               *)

Sources(t) == {r \in adopted : r.text = t}
Places(values, t) == {i \in 1..Len(values) : values[i] = t}

(* A record stands for an entry of the list that it was imported from, and a text *)
(* has no more records than it once stood in the list at the same time.           *)
LegacyInv ==
    /\ list \in Legacy!SeqOf(Texts, MaxEntries)
    /\ adopted \subseteq Legacy!Origin /\ IsFiniteSet(adopted)
    /\ most \in [Texts -> Nat]
    /\ \A r \in adopted : r.index \in 1..Len(r.source) /\ r.source[r.index] = r.text
    /\ \A t \in Texts : Legacy!Occurrences(list, t) <= most[t] /\ Cardinality(Sources(t)) <= most[t]

(* The community module counts as the library's theorems do.                  *)
LEMMA LegacyCardinality == \A S : Legacy!Cardinality(S) = Cardinality(S)
  BY DEF Legacy!Cardinality, Cardinality, Legacy!IsFiniteSet, IsFiniteSet

(* Lists of bounded length are sequences of texts.                            *)
LEMMA ListsAreSequences ==
    ASSUME NEW values \in Legacy!SeqOf(Texts, MaxEntries)
    PROVE  /\ Len(values) \in 0..MaxEntries /\ \A i \in 1..Len(values) : values[i] \in Texts
           /\ values \in Seq(Texts)
<1>1. PICK m \in 0..MaxEntries : values \in [1..m -> Texts]
  BY DEF Legacy!SeqOf
<1>2. MaxEntries \in Nat
  BY LegacyAssumption DEF Legacy!ConstantsSound
<1>3. m \in Nat /\ values \in Seq(Texts)
  BY <1>1, <1>2
<1>4. Len(values) = m
  BY <1>1, <1>3
<1>5. QED
  BY <1>1, <1>3, <1>4

(* What is counted of a text in a list are its places.                        *)
LEMMA OccurrencesCounted ==
    ASSUME NEW values \in Legacy!SeqOf(Texts, MaxEntries), NEW t
    PROVE  /\ IsFiniteSet(Places(values, t)) /\ Legacy!Occurrences(values, t) = Cardinality(Places(values, t))
           /\ Legacy!Occurrences(values, t) \in Nat
<1>1. Len(values) \in Nat
  BY ListsAreSequences, LegacyAssumption DEF Legacy!ConstantsSound
<1>2. IsFiniteSet(1..Len(values))
  BY <1>1, FS_Interval
<1>3. IsFiniteSet(Places(values, t))
  BY <1>2, FS_Subset DEF Places
<1>4. Legacy!Occurrences(values, t) = Cardinality(Places(values, t))
  BY LegacyCardinality DEF Places, Legacy!Occurrences
<1>5. QED
  BY <1>3, <1>4, FS_CardinalityType

(* Two entries with the same text leave neither of them unique.                  *)
LEMMA TwiceIsNotUnique ==
    ASSUME NEW values \in Legacy!SeqOf(Texts, MaxEntries), NEW i \in 1..Len(values),
           NEW j \in 1..Len(values), i # j, values[i] = values[j]
    PROVE  Legacy!Occurrences(values, values[i]) # 1
<1> DEFINE P == Places(values, values[i])
<1>1. SUFFICES ASSUME Cardinality(P) = 1 PROVE FALSE
  BY OccurrencesCounted
<1>2. PICK p : P = {p}
  BY <1>1, OccurrencesCounted, FS_Singleton
<1>3. i \in P /\ j \in P
  BY DEF Places
<1>4. QED
  BY <1>2, <1>3

(* A record that an entry matches has the entry's text; there is one at most.       *)
LEMMA MatchesAreCandidates ==
    ASSUME LegacyInv, NEW i \in 1..Len(list)
    PROVE  /\ Legacy!Matches(i) \subseteq Legacy!Candidates(i)
           /\ IsFiniteSet(Legacy!Matches(i)) /\ Cardinality(Legacy!Matches(i)) <= 1
<1> DEFINE C == Legacy!Candidates(i)
           B == Legacy!ByText(i)
           At == {r \in C : r.index = i}
<1>1. C \subseteq adopted /\ IsFiniteSet(C) /\ Cardinality(C) \in Nat
  BY FS_Subset, FS_CardinalityType DEF LegacyInv, Legacy!Candidates
<1>2. B \subseteq C /\ IsFiniteSet(B) /\ (B # {} => Cardinality(C) = 1)
  <2>1. B \subseteq C /\ (B # {} => Cardinality(C) = 1)
    BY LegacyCardinality DEF Legacy!ByText
  <2>2. QED
    BY <1>1, <2>1, FS_Subset
<1>3. Cardinality(B) <= 1
  <2>1. CASE B = {}
    BY <2>1, FS_EmptySet
  <2>2. CASE B # {}
    BY <1>1, <1>2, <2>2, FS_Subset
  <2>3. QED
    BY <2>1, <2>2
<1>4. CASE B # {} \/ Legacy!Ambiguous(i)
  BY <1>2, <1>3, <1>4 DEF Legacy!Matches
<1>5. CASE ~(B # {} \/ Legacy!Ambiguous(i))
  <2>1. Legacy!Matches(i) = At
    BY <1>5 DEF Legacy!Matches
  <2>2. \A r \in C : r.source = list
    BY <1>5 DEF Legacy!Ambiguous
  <2>3. \A r \in At : r = [index |-> i, text |-> list[i], source |-> list]
    BY <2>2 DEF LegacyInv, Legacy!Candidates, Legacy!Origin
  <2>4. PICK r : At \subseteq {r}
    BY <2>3
  <2>5. IsFiniteSet(At) /\ Cardinality(At) <= 1
    <3>1. IsFiniteSet({r}) /\ Cardinality({r}) = 1
      BY FS_Singleton
    <3> HIDE DEF At
    <3>2. QED
      BY <2>4, <3>1, FS_Subset
  <2>6. QED
    BY <2>1, <2>5
<1>6. QED
  BY <1>4, <1>5

(* The invariant of the adoption gives what is promised of it.                *)
LEMMA AdoptedOnceFollows ==
    ASSUME LegacyInv
    PROVE  Legacy!TypeOK /\ Legacy!AdoptedOnce
<1>1. Legacy!TypeOK
  BY DEF LegacyInv, Legacy!TypeOK
<1>2. \A t \in Texts : Cardinality({r \in adopted : r.text = t}) <= most[t]
  BY DEF LegacyInv, Sources
<1>3. \A i \in 1..Len(list) : Cardinality(Legacy!Matches(i)) <= 1
  BY MatchesAreCandidates
<1>4. \A i, j \in 1..Len(list) : i # j => Legacy!Matches(i) \cap Legacy!Matches(j) = {}
  <2> SUFFICES ASSUME NEW i \in 1..Len(list), NEW j \in 1..Len(list), i # j,
                      NEW r, r \in Legacy!Matches(i), r \in Legacy!Matches(j)
               PROVE  FALSE
    OBVIOUS
  <2>1. r.text = list[i] /\ r.text = list[j]
    BY MatchesAreCandidates DEF Legacy!Candidates
  <2>2. Legacy!Occurrences(list, list[i]) # 1 /\ Legacy!Occurrences(list, list[j]) # 1
    BY <2>1, TwiceIsNotUnique DEF LegacyInv
  <2>3. Legacy!ByText(i) = {} /\ Legacy!ByText(j) = {}
    BY <2>2 DEF Legacy!ByText
  <2>4. r.index = i /\ r.index = j
    BY <2>3 DEF Legacy!Matches
  <2>5. QED
    BY <2>4
<1>5. QED
  BY <1>1, <1>2, <1>3, <1>4, LegacyCardinality DEF Legacy!AdoptedOnce

(* An empty list has no records.                                              *)
LEMMA LegacyStarts ==
    ASSUME Legacy!Init
    PROVE  LegacyInv
<1>1. list = <<>> /\ adopted = {} /\ most = [t \in Texts |-> 0]
  BY DEF Legacy!Init
<1>2. list \in Legacy!SeqOf(Texts, MaxEntries)
  <2>1. MaxEntries \in Nat
    BY LegacyAssumption DEF Legacy!ConstantsSound
  <2>2. list \in [1..0 -> Texts]
    BY <1>1
  <2>3. 0 \in 0..MaxEntries
    BY <2>1
  <2>4. QED
    BY <2>2, <2>3 DEF Legacy!SeqOf
<1>3. IsFiniteSet(adopted) /\ \A t \in Texts : Sources(t) = {} /\ Cardinality(Sources(t)) = 0
  BY <1>1, FS_EmptySet DEF Sources
<1>4. \A t \in Texts : Legacy!Occurrences(list, t) = 0
  <2> TAKE t \in Texts
  <2>1. Len(list) = 0
    BY <1>1
  <2>2. {i \in 1..Len(list) : list[i] = t} = {}
    BY <2>1
  <2>3. QED
    BY <2>2, FS_EmptySet, LegacyCardinality DEF Legacy!Occurrences
<1>5. QED
  BY <1>1, <1>2, <1>3, <1>4 DEF LegacyInv

(* The records of an entry's text were all imported from this very list, each from   *)
(* another position, if the entry is not adopted and there is no doubt.           *)
LEMMA EntryIsFree ==
    ASSUME LegacyInv, NEW i \in 1..Len(list), Legacy!Authority(i) = "legacy"
    PROVE  Cardinality(Sources(list[i])) + 1 <= Legacy!Occurrences(list, list[i])
<1> DEFINE t == list[i]
           S == Sources(t)
           P == Places(list, t)
<1>1. ~Legacy!Ambiguous(i) /\ Legacy!Matches(i) = {}
  <2>1. CASE Legacy!Ambiguous(i)
    BY <2>1 DEF Legacy!Authority
  <2>2. CASE ~Legacy!Ambiguous(i) /\ Legacy!Matches(i) # {}
    BY <2>2 DEF Legacy!Authority
  <2>3. QED
    BY <2>1, <2>2
<1>2. Legacy!ByText(i) = {}
  BY <1>1 DEF Legacy!Matches
<1>3. \A r \in S : r.source = list /\ r.index # i
  <2>1. S = Legacy!Candidates(i)
    BY DEF Sources, Legacy!Candidates
  <2>2. \A r \in S : r.source = list
    BY <1>1, <1>2, <2>1 DEF Legacy!Ambiguous
  <2>3. Legacy!Matches(i) = {r \in Legacy!Candidates(i) : r.index = i}
    BY <1>1, <1>2 DEF Legacy!Matches
  <2>4. QED
    BY <1>1, <2>1, <2>2, <2>3
<1>4. \A r \in S : r.index \in P \ {i}
  <2> TAKE r \in S
  <2>1. r.index \in 1..Len(list) /\ list[r.index] = t
    BY <1>3 DEF LegacyInv, Sources
  <2>2. QED
    BY <1>3, <2>1 DEF Places
<1>5. \A r, s \in S : r.index = s.index => r = s
  <2> TAKE r, s \in S
  <2>1. r = [index |-> r.index, text |-> t, source |-> list] /\ s = [index |-> s.index, text |-> t, source |-> list]
    BY <1>3 DEF LegacyInv, Sources, Legacy!Origin
  <2>2. QED
    BY <2>1
<1>6. IsFiniteSet(P) /\ i \in P
  BY OccurrencesCounted DEF LegacyInv, Places
<1>7. IsFiniteSet(P \ {i}) /\ Cardinality(P \ {i}) = Cardinality(P) - 1 /\ Cardinality(P) \in Nat
  BY <1>6, FS_RemoveElement, FS_CardinalityType
<1>8. Cardinality(S) <= Cardinality(P \ {i})
  <2> DEFINE f == [r \in S |-> r.index]
  <2>1. f \in Injection(S, P \ {i})
    <3>1. f \in [S -> P \ {i}]
      BY <1>4
    <3>2. \A r, s \in S : f[r] = f[s] => r = s
      BY <1>5
    <3> HIDE DEF f
    <3>3. QED
      BY <3>1, <3>2 DEF Injection, IsInjective
  <2>2. ExistsInjection(S, P \ {i})
    BY <2>1 DEF ExistsInjection
  <2>3. QED
    BY <1>7, <2>1, FS_Injection
<1>9. IsFiniteSet(S) /\ Cardinality(S) \in Nat
  BY FS_Subset, FS_CardinalityType DEF LegacyInv, Sources
<1>10. Legacy!Occurrences(list, t) = Cardinality(P)
  BY OccurrencesCounted DEF LegacyInv
<1>11. QED
  BY <1>7, <1>8, <1>9, <1>10

(* An import adds one record of a text that has a free place.                 *)
LEMMA ImportKeeps ==
    ASSUME LegacyInv, NEW i, Legacy!ImportLegacy(i)
    PROVE  LegacyInv'
<1> DEFINE new == [index |-> i, text |-> list[i], source |-> list]
<1>1. /\ i \in 1..Len(list) /\ Legacy!Authority(i) = "legacy"
      /\ adopted' = adopted \cup {new} /\ list' = list /\ most' = most
  BY DEF Legacy!ImportLegacy
<1>2. list[i] \in Texts /\ i \in 1..MaxEntries
  <2>1. Len(list) \in 0..MaxEntries /\ list[i] \in Texts
    BY <1>1, ListsAreSequences DEF LegacyInv
  <2>2. QED
    BY <1>1, <2>1, LegacyAssumption DEF Legacy!ConstantsSound
<1>3. new \in Legacy!Origin
  BY <1>2 DEF LegacyInv, Legacy!Origin
<1>4. IsFiniteSet(adopted')
  BY <1>1, FS_AddElement DEF LegacyInv
<1>5. \A r \in adopted' : r.index \in 1..Len(r.source) /\ r.source[r.index] = r.text
  BY <1>1 DEF LegacyInv
<1>6. \A t \in Texts : Cardinality(Sources(t)') <= most[t]
  <2> TAKE t \in Texts
  <2>1. IsFiniteSet(Sources(t)) /\ Cardinality(Sources(t)) \in Nat /\ most[t] \in Nat
    BY FS_Subset, FS_CardinalityType DEF LegacyInv, Sources
  <2>2. CASE t = list[i]
    <3>1. Sources(t)' = Sources(t) \cup {new}
      BY <1>1, <2>2 DEF Sources
    <3>2. /\ IsFiniteSet(Sources(t) \cup {new})
          /\ Cardinality(Sources(t) \cup {new}) <= Cardinality(Sources(t)) + 1
          /\ Cardinality(Sources(t) \cup {new}) \in Nat
      <4> HIDE DEF new
      <4>1. /\ IsFiniteSet(Sources(t) \cup {new})
            /\ Cardinality(Sources(t) \cup {new}) \in {Cardinality(Sources(t)), Cardinality(Sources(t)) + 1}
        BY <2>1, FS_AddElement
      <4>2. QED
        BY <2>1, <4>1
    <3>3. Cardinality(Sources(t)) + 1 <= Legacy!Occurrences(list, t)
      BY <1>1, <2>2, EntryIsFree
    <3>4. Legacy!Occurrences(list, t) <= most[t] /\ Legacy!Occurrences(list, t) \in Nat
      BY OccurrencesCounted DEF LegacyInv
    <3>5. Cardinality(Sources(t) \cup {new}) <= most[t]
      BY <2>1, <3>2, <3>3, <3>4
    <3>6. QED
      BY <3>1, <3>5
  <2>3. CASE t # list[i]
    <3>1. Sources(t)' = Sources(t)
      BY <1>1, <2>3 DEF Sources
    <3>2. QED
      BY <3>1 DEF LegacyInv
  <2>4. QED
    BY <2>2, <2>3
<1>7. QED
  BY <1>1, <1>3, <1>4, <1>5, <1>6 DEF LegacyInv

(* An edit leaves the records, and counts the places of each text anew.       *)
LEMMA EditListKeeps ==
    ASSUME LegacyInv, Legacy!EditList
    PROVE  LegacyInv'
<1> DEFINE n(t) == Legacy!Occurrences(list', t)
<1>1. /\ list' \in Legacy!SeqOf(Texts, MaxEntries) /\ adopted' = adopted
      /\ most' = [t \in Texts |-> IF n(t) > most[t] THEN n(t) ELSE most[t]]
  BY DEF Legacy!EditList
<1>2. \A t : n(t) \in Nat
  BY <1>1, OccurrencesCounted
<1>3. \A t \in Texts : /\ most'[t] \in Nat /\ n(t) <= most'[t] /\ most[t] <= most'[t]
                       /\ Cardinality(Sources(t)) \in Nat
  <2> TAKE t \in Texts
  <2>1. most'[t] = IF n(t) > most[t] THEN n(t) ELSE most[t]
    BY <1>1
  <2>2. most[t] \in Nat /\ n(t) \in Nat
    BY <1>2 DEF LegacyInv
  <2>3. Cardinality(Sources(t)) \in Nat
    BY FS_Subset, FS_CardinalityType DEF LegacyInv, Sources
  <2> HIDE DEF n
  <2>4. QED
    BY <2>1, <2>2, <2>3
<1>4. most' \in [Texts -> Nat]
  BY <1>1, <1>3
<1>5. \A t \in Texts : Legacy!Occurrences(list, t)' = n(t) /\ Sources(t)' = Sources(t)
  BY <1>1 DEF Legacy!Occurrences, Sources
<1>6. \A t \in Texts : Cardinality(Sources(t)) <= most'[t]
  <2> TAKE t \in Texts
  <2>1. Cardinality(Sources(t)) <= most[t] /\ most[t] \in Nat
    BY DEF LegacyInv
  <2>2. QED
    BY <1>3, <2>1
<1> HIDE DEF n
<1>7. QED
  BY <1>1, <1>3, <1>4, <1>5, <1>6 DEF LegacyInv

(* Every step of the adoption keeps the invariant.                            *)
LEMMA LegacyKeeps ==
    ASSUME LegacyInv, Legacy!Next
    PROVE  LegacyInv'
  BY ImportKeeps, EditListKeeps DEF Legacy!Next
-----------------------------------------------------------------------------
(* The records of a project.                                                 *)

Kinds == {"use_case", "requirement", "task", "evidence", "repository"}
Versioned == [type: Kinds, content: [wording: {1, 2}, reason: BOOLEAN, criteria: SUBSET Criteria]]
LastVersion(d) == [type |-> d.type, content |-> Projects!Content(d)]

RowsSound ==
    /\ data \in [Projects!Records -> Projects!Fields]
    /\ version \in [Projects!Records -> Nat] /\ revision \in [Projects!Records -> Nat]
    /\ project \in 1..(MaxSaves + 1)
    /\ \A r \in Projects!Records : version[r] \in 1..project /\ revision[r] \in 1..version[r]
    /\ \A r \in Proofs : data[r].type = "evidence"

(* The history has every version, ends with what is stored, and counts the revision. *)
HistorySound ==
    /\ history = [r \in Projects!Records |-> history[r]]
    /\ \A r \in Projects!Records :
          /\ history[r] \in Seq(Versioned) /\ Len(history[r]) = version[r]
          /\ history[r][version[r]] = LastVersion(data[r])
          /\ Projects!Replay(r)[version[r]] = revision[r]

GraphSound == \A r \in Projects!Records : Projects!Valid(data, r)

(* What a review recorded still holds of what has not changed since.               *)
Missing(e) ==
    data[e.record].criteria
        \ UNION {data[p].evidence.criteria : p \in {p \in {q[1] : q \in e.proofs} : data[p].evidence.passed}}
ProofsUnchanged(e) == \A q \in e.proofs : version[q[1]] = q[2]
SameContent(e) ==
    \/ history[e.record][e.version].content = Projects!Content(data[e.record])
    \/ \E n \in e.version..version[e.record] : history[e.record][n].type # "requirement"

ReviewSound(e, i) ==
    /\ e.record \in Projects!Records /\ e.version \in 1..version[e.record]
    /\ e.revision \in 1..revision[e.record]
    /\ \A q \in e.proofs : q[1] \in Proofs /\ q[2] \in Nat /\ q[2] <= version[q[1]]
    /\ e.outstanding.open =
          {k \in DOMAIN e.basis \ {e.record} :
              e.basis[k].mandatory /\ e.basis[k].type = "task" /\ e.basis[k].status # "done"}
    /\ \A k \in e.outstanding.unaccepted :
          /\ k \in DOMAIN e.basis \ {e.record}
          /\ e.basis[k].type \in {"requirement", "use_case"}
          /\ e.basis[k].review \in Nat /\ e.basis[k].review < i
    /\ e.revision = revision[e.record] /\ ProofsUnchanged(e) => e.outstanding.missing = Missing(e)
    /\ e.revision = revision[e.record] => SameContent(e)

(* What was read of a repository is what is stored, or an earlier version.           *)
ReadingSound(e) ==
    /\ e.leading \in Repositories /\ e.seen \in Nat /\ e.seen <= version[e.leading]
    /\ e.seen = version[e.leading] => e.target = data[e.leading].target

EventsSound ==
    /\ \E S : events \in Seq(S)
    /\ \A i \in 1..Len(events) :
          /\ events[i].kind = "assess" => ReviewSound(events[i], i)
          /\ events[i].kind = "sync_github" => ReadingSound(events[i])
    /\ old \in 0..Len(events)

SyncSound ==
    sync.pc # "idle" =>
        /\ sync = [pc |-> sync.pc, record |-> sync.record, project |-> sync.project,
                   version |-> sync.version, leading |-> sync.leading, seen |-> sync.seen,
                   target |-> sync.target, observed |-> sync.observed, source |-> sync.source]
        /\ sync.record \in Projects!Records /\ ReadingSound(sync)

ProjectInv == RowsSound /\ HistorySound /\ GraphSound /\ EventsSound /\ SyncSound

(* Every record is of one kind.                                               *)
LEMMA ProjectConstants ==
    /\ UseCases # {} /\ Requirements # {}
    /\ UseCases \cap (Requirements \cup Tasks \cup Proofs \cup Repositories) = {}
    /\ Requirements \cap (Tasks \cup Proofs \cup Repositories) = {}
    /\ Tasks \cap (Proofs \cup Repositories) = {} /\ Proofs \cap Repositories = {}
    /\ Nobody \notin UseCases \cup Repositories \cup Projects!Evidence
    /\ MaxSaves \in Nat
    /\ Projects!Records = UseCases \cup Requirements \cup Tasks \cup Proofs \cup Repositories
  BY ProjectsAssumption DEF Projects!ConstantsSound, Projects!Records

LEMMA ProjectCardinality == \A S : Projects!Cardinality(S) = Cardinality(S)
  BY DEF Projects!Cardinality, Cardinality, Projects!IsFiniteSet, IsFiniteSet

(* The last of some positions, and the first.                                    *)
LEMMA LatestIsLast ==
    ASSUME NEW n \in Nat, NEW S, S \subseteq 1..n
    PROVE  /\ Projects!Latest(S) \in S \cup {0} /\ Projects!Latest(S) \in 0..n
           /\ S # {} => Projects!Latest(S) # 0
           /\ \A j \in S : Projects!Latest(S) >= j
<1>1. CASE S = {}
  BY <1>1 DEF Projects!Latest
<1>2. CASE S # {}
  <2>1. Projects!Latest(S) = Max(S)
    BY <1>2 DEF Projects!Latest, Projects!Max, Max
  <2>2. S \subseteq 0..n
    OBVIOUS
  <2>3. Max(S) \in S /\ \A j \in S : Max(S) >= j
    BY <1>2, <2>2, MaxOfBounded
  <2>4. Max(S) \in 1..n
    BY <2>3
  <2>5. QED
    BY <1>2, <2>1, <2>3, <2>4
<1>3. QED
  BY <1>1, <1>2

(* A set of numbers has a first one.                                          *)
LEMMA MinIsFirst ==
    ASSUME NEW S, S \subseteq Nat, S # {}
    PROVE  Projects!Min(S) \in S /\ \A j \in S : Projects!Min(S) <= j
<1>1. PICK m \in S : \A t \in S : ~(<<t, m>> \in OpToRel(<, Nat))
  BY NatLessThanWellFounded, WFMin, Zenon
<1>2. \A t \in S : m <= t
  <2> TAKE t \in S
  <2>1. t \in Nat /\ m \in Nat
    OBVIOUS
  <2>2. ~(t < m)
    BY <2>1, <1>1 DEF OpToRel
  <2>3. QED
    BY <2>1, <2>2
<1>3. QED
  BY <1>2 DEF Projects!Min

-----------------------------------------------------------------------------
(* What a new version of a record changes.                                     *)
LEMMA SaveEffects ==
    ASSUME ProjectInv, NEW r \in Projects!Records, NEW d \in Projects!Fields, Projects!Save(r, d)
    PROVE  /\ data' = [data EXCEPT ![r] = d] /\ data'[r] = d
           /\ \A k \in Projects!Records \ {r} : /\ data'[k] = data[k] /\ version'[k] = version[k]
                                                /\ revision'[k] = revision[k] /\ history'[k] = history[k]
           /\ version'[r] = version[r] + 1
           /\ revision'[r] \in {revision[r], revision[r] + 1}
           /\ revision'[r] = revision[r] =>
                 d.type # "requirement" \/ Projects!Content(d) = Projects!Content(data[r])
           /\ revision'[r] # revision[r] =>
                 d.type = "requirement" /\ Projects!Content(d) # Projects!Content(data[r])
           /\ project' = project + 1 /\ project <= MaxSaves
           /\ version' \in [Projects!Records -> Nat] /\ revision' \in [Projects!Records -> Nat]
           /\ version[r] \in Nat \ {0} /\ revision[r] \in Nat \ {0}
<1>1. /\ data' = [data EXCEPT ![r] = d] /\ version' = [version EXCEPT ![r] = @ + 1]
      /\ revision' = [revision EXCEPT ![r] = Projects!NextRevision(r, d)]
      /\ history' = [history EXCEPT ![r] = Append(@, LastVersion(d))]
      /\ project' = project + 1 /\ project <= MaxSaves
  BY DEF Projects!Save, LastVersion
<1>2. version[r] \in Nat \ {0} /\ revision[r] \in Nat \ {0}
  BY DEF ProjectInv, RowsSound
<1>3. /\ data'[r] = d /\ version'[r] = version[r] + 1 /\ revision'[r] = Projects!NextRevision(r, d)
      /\ \A k \in Projects!Records \ {r} : /\ data'[k] = data[k] /\ version'[k] = version[k]
                                           /\ revision'[k] = revision[k] /\ history'[k] = history[k]
  <2>1. DOMAIN history = Projects!Records
    BY DEF ProjectInv, HistorySound
  <2>2. QED
    BY <1>1, <2>1 DEF ProjectInv, RowsSound
<1>4. /\ Projects!NextRevision(r, d) \in {revision[r], revision[r] + 1}
      /\ Projects!NextRevision(r, d) = revision[r] =>
            d.type # "requirement" \/ Projects!Content(d) = Projects!Content(data[r])
      /\ Projects!NextRevision(r, d) # revision[r] =>
            d.type = "requirement" /\ Projects!Content(d) # Projects!Content(data[r])
  BY <1>2 DEF Projects!NextRevision
<1>5. version' \in [Projects!Records -> Nat] /\ revision' \in [Projects!Records -> Nat]
  BY <1>1, <1>2, <1>4 DEF ProjectInv, RowsSound
<1>6. QED
  BY <1>1, <1>2, <1>3, <1>4, <1>5

(* The history gets one version more, and keeps the others.                   *)
LEMMA SaveHistory ==
    ASSUME ProjectInv, NEW r \in Projects!Records, NEW d \in Projects!Fields, Projects!Save(r, d)
    PROVE  /\ history' = [k \in Projects!Records |-> history'[k]]
           /\ history'[r] \in Seq(Versioned) /\ Len(history'[r]) = version[r] + 1
           /\ \A n \in 1..version[r] : history'[r][n] = history[r][n]
           /\ history'[r][version[r] + 1] = LastVersion(d)
<1>1. history' = [history EXCEPT ![r] = Append(@, LastVersion(d))] /\ DOMAIN history = Projects!Records
  BY DEF Projects!Save, LastVersion, ProjectInv, HistorySound
<1>2. history[r] \in Seq(Versioned) /\ Len(history[r]) = version[r]
  BY DEF ProjectInv, HistorySound
<1>3. LastVersion(d) \in Versioned
  BY DEF LastVersion, Versioned, Projects!Content, Projects!Fields, Kinds
<1>4. history'[r] = Append(history[r], LastVersion(d))
  BY <1>1
<1>5. /\ Append(history[r], LastVersion(d)) \in Seq(Versioned)
      /\ Len(Append(history[r], LastVersion(d))) = Len(history[r]) + 1
      /\ \A n \in 1..Len(history[r]) : Append(history[r], LastVersion(d))[n] = history[r][n]
      /\ Append(history[r], LastVersion(d))[Len(history[r]) + 1] = LastVersion(d)
  BY <1>2, <1>3
<1>6. history' = [k \in Projects!Records |-> history'[k]]
  BY <1>1
<1>7. QED
  BY <1>2, <1>4, <1>5, <1>6

(* The revisions of the versions so far are counted as before.                      *)
LEMMA SaveReplay ==
    ASSUME ProjectInv, NEW r \in Projects!Records, NEW d \in Projects!Fields, Projects!Save(r, d)
    PROVE  /\ \A n \in 1..version[r] : Projects!Replay(r)'[n] = Projects!Replay(r)[n]
           /\ Projects!Replay(r)'[version[r] + 1] = revision'[r]
<1> PICK v : v = version[r]
  OBVIOUS
<1> PICK new : new = v + 1
  OBVIOUS
<1>1. /\ history'[r] \in Seq(Versioned) /\ Len(history'[r]) = v + 1
      /\ \A n \in 1..v : history'[r][n] = history[r][n] /\ history'[r][v + 1] = LastVersion(d)
      /\ history[r] \in Seq(Versioned) /\ Len(history[r]) = v /\ history[r][v] = LastVersion(data[r])
      /\ Projects!Replay(r)[v] = revision[r] /\ v \in Nat \ {0}
  <2>1. v \in Nat \ {0}
    BY DEF ProjectInv, RowsSound
  <2>2. QED
    BY <2>1, SaveHistory DEF ProjectInv, HistorySound
<1>2. \A n \in 1..v : Projects!Renewals(r, n)' = Projects!Renewals(r, n)
  <2> TAKE n \in 1..v
  <2>1. \A m \in 2..n : history'[r][m] = history[r][m] /\ history'[r][m - 1] = history[r][m - 1]
    BY <1>1
  <2>2. QED
    BY <2>1 DEF Projects!Renewals
<1>3. /\ Projects!Replay(r) = [n \in 1..v |-> 1 + Cardinality(Projects!Renewals(r, n))]
      /\ Projects!Replay(r)' = [n \in 1..(v + 1) |-> 1 + Cardinality(Projects!Renewals(r, n)')]
  BY <1>1, ProjectCardinality DEF Projects!Replay
<1>4. \A n \in 1..v : Projects!Replay(r)'[n] = Projects!Replay(r)[n]
  BY <1>1, <1>2, <1>3
<1>5. Projects!Renewals(r, v + 1)' =
          IF d.type = "requirement" /\ Projects!Content(d) # Projects!Content(data[r])
          THEN Projects!Renewals(r, v) \cup {new} ELSE Projects!Renewals(r, v)
  <2>1. /\ history'[r][new].type = d.type /\ history'[r][new].content = Projects!Content(d)
        /\ history'[r][v].content = Projects!Content(data[r])
    <3>1. history'[r][new] = LastVersion(d) /\ history'[r][v] = LastVersion(data[r])
      BY <1>1
    <3>2. QED
      BY <3>1 DEF LastVersion
  <2>2. 2..new = (2..v) \cup {new}
    BY <1>1
  <2>3. Projects!Renewals(r, v + 1)' =
            {n \in 2..new : history'[r][n].type = "requirement"
                            /\ history'[r][n].content # history'[r][n - 1].content}
    BY DEF Projects!Renewals
  <2>4. Projects!Renewals(r, v) =
            {n \in 2..v : history'[r][n].type = "requirement"
                            /\ history'[r][n].content # history'[r][n - 1].content}
    <3>1. \A n \in 2..v : history'[r][n] = history[r][n] /\ history'[r][n - 1] = history[r][n - 1]
      BY <1>1
    <3>2. QED
      BY <3>1 DEF Projects!Renewals
  <2>5. new - 1 = v /\ new \in 2..new
    BY <1>1
  <2>6. CASE d.type = "requirement" /\ Projects!Content(d) # Projects!Content(data[r])
    BY <2>1, <2>2, <2>3, <2>4, <2>5, <2>6
  <2>7. CASE ~(d.type = "requirement" /\ Projects!Content(d) # Projects!Content(data[r]))
    <3>1. ~(history'[r][new].type = "requirement" /\ history'[r][new].content # history'[r][new - 1].content)
      BY <2>1, <2>5, <2>7
    <3>2. Projects!Renewals(r, v + 1)' = Projects!Renewals(r, v)
      BY <2>2, <2>3, <2>4, <3>1
    <3>3. QED
      BY <2>7, <3>2, Zenon
  <2>8. QED
    BY <2>6, <2>7
<1>6. IsFiniteSet(Projects!Renewals(r, v)) /\ Cardinality(Projects!Renewals(r, v)) \in Nat /\ new \notin Projects!Renewals(r, v)
  <2>1. IsFiniteSet(2..v)
    BY <1>1, FS_Interval
  <2>2. Projects!Renewals(r, v) \subseteq 2..v
    BY DEF Projects!Renewals
  <2>3. QED
    BY <1>1, <2>1, <2>2, FS_Subset, FS_CardinalityType
<1>7. Cardinality(Projects!Renewals(r, v) \cup {new}) = Cardinality(Projects!Renewals(r, v)) + 1
  BY <1>6, FS_AddElement
<1>8. Projects!Replay(r)'[v + 1] = 1 + Cardinality(Projects!Renewals(r, v + 1)')
  BY <1>1, <1>3
<1>9. revision[r] = 1 + Cardinality(Projects!Renewals(r, v))
  BY <1>1, <1>3
<1>10. revision'[r] = IF d.type = "requirement" /\ Projects!Content(d) # Projects!Content(data[r])
                      THEN revision[r] + 1 ELSE revision[r]
  BY SaveEffects DEF ProjectInv, RowsSound
<1>11. QED
  BY <1>4, <1>5, <1>6, <1>7, <1>8, <1>9, <1>10
-----------------------------------------------------------------------------
(* A saved record is one that its kind and its reasons allow.                      *)
Admitted(r, d) ==
    /\ d \in Projects!Fields /\ Projects!WellFormed(d) /\ Projects!Reasoned(r, d)
    /\ r \in Proofs => d.type = "evidence"

(* Criteria change with the revision only: without a reason a requirement keeps its   *)
(* content, and nothing else has criteria.                                      *)
LEMMA CriteriaStay ==
    ASSUME ProjectInv, NEW r \in Projects!Records, NEW d, Admitted(r, d), Projects!Save(r, d),
           revision'[r] = revision[r]
    PROVE  d.criteria = data[r].criteria
<1>1. Projects!WellFormed(data[r]) /\ Projects!WellFormed(d) /\ d \in Projects!Fields
  BY DEF ProjectInv, GraphSound, Projects!Valid, Admitted
<1>2. CASE Projects!Content(d) = Projects!Content(data[r])
  <2>1. Projects!Content(d).criteria = d.criteria /\ Projects!Content(data[r]).criteria = data[r].criteria
    BY DEF Projects!Content
  <2>2. QED
    BY <1>2, <2>1
<1>3. CASE Projects!Content(d) # Projects!Content(data[r])
  <2>1. d.type # "requirement"
    BY <1>1, <1>3, SaveEffects
  <2>2. ~d.reason /\ d.criteria = {}
    BY <1>1, <2>1 DEF Projects!WellFormed
  <2>3. data[r].type # "requirement"
    BY <1>3, <2>2 DEF Admitted, Projects!Reasoned
  <2>4. data[r].criteria = {}
    BY <1>1, <2>3 DEF Projects!WellFormed
  <2>5. QED
    BY <2>2, <2>4
<1>4. QED
  BY <1>2, <1>3

(* Rows and history stay sound.                                               *)
LEMMA SaveKeepsRows ==
    ASSUME ProjectInv, NEW r \in Projects!Records, NEW d, Admitted(r, d), Projects!Save(r, d)
    PROVE  RowsSound' /\ HistorySound'
<1>1. d \in Projects!Fields
  BY DEF Admitted
<1>2. data' \in [Projects!Records -> Projects!Fields]
  BY <1>1, SaveEffects DEF ProjectInv, RowsSound
<1>3. project' \in 1..(MaxSaves + 1) /\ project \in Nat
  BY <1>1, SaveEffects, ProjectConstants DEF ProjectInv, RowsSound
<1>4. \A k \in Projects!Records : version'[k] \in 1..project' /\ revision'[k] \in 1..version'[k]
  <2> TAKE k \in Projects!Records
  <2>1. version[k] \in 1..project /\ revision[k] \in 1..version[k] /\ project' = project + 1
    BY <1>1, SaveEffects DEF ProjectInv, RowsSound
  <2>2. CASE k = r
    <3>1. version'[k] = version[k] + 1 /\ revision'[k] \in {revision[k], revision[k] + 1}
      BY <1>1, <2>2, SaveEffects
    <3>2. QED
      BY <1>3, <2>1, <3>1
  <2>3. CASE k # r
    <3>1. version'[k] = version[k] /\ revision'[k] = revision[k]
      BY <1>1, <2>3, SaveEffects
    <3>2. QED
      BY <1>3, <2>1, <3>1
  <2>4. QED
    BY <2>2, <2>3
<1>5. \A p \in Proofs : data'[p].type = "evidence"
  <2> TAKE p \in Proofs
  <2>1. p \in Projects!Records /\ data[p].type = "evidence"
    BY ProjectConstants DEF ProjectInv, RowsSound
  <2>2. CASE p = r
    BY <1>1, <2>2, SaveEffects DEF Admitted
  <2>3. CASE p # r
    BY <1>1, <2>1, <2>3, SaveEffects
  <2>4. QED
    BY <2>2, <2>3
<1>6. RowsSound'
  BY <1>1, <1>2, <1>3, <1>4, <1>5, SaveEffects DEF RowsSound
<1>7. \A k \in Projects!Records :
          /\ history'[k] \in Seq(Versioned) /\ Len(history'[k]) = version'[k]
          /\ history'[k][version'[k]] = LastVersion(data'[k])
          /\ Projects!Replay(k)'[version'[k]] = revision'[k]
  <2> TAKE k \in Projects!Records
  <2>1. CASE k = r
    BY <1>1, <2>1, SaveEffects, SaveHistory, SaveReplay
  <2>2. CASE k # r
    <3>1. history'[k] = history[k] /\ version'[k] = version[k] /\ revision'[k] = revision[k] /\ data'[k] = data[k]
      BY <1>1, <2>2, SaveEffects
    <3>2. Projects!Replay(k)' = Projects!Replay(k)
      BY <3>1 DEF Projects!Replay, Projects!Renewals
    <3>3. QED
      BY <3>1, <3>2 DEF ProjectInv, HistorySound
  <2>3. QED
    BY <2>1, <2>2
<1>8. HistorySound'
  BY <1>1, <1>7, SaveHistory DEF HistorySound, LastVersion
<1>9. QED
  BY <1>6, <1>8

(* Criteria that evidence may name stay: those of an earlier revision are in the       *)
(* history, those of the present one enter it with the next version.               *)
Named(k, n) == {m \in 1..Len(history[k]) : history[k][m].type = "requirement" /\ Projects!Replay(k)[m] = n}

(* What a revision has of criteria it keeps.                                  *)
LEMMA CriteriaGrow ==
    ASSUME ProjectInv, NEW r \in Projects!Records, NEW d, Admitted(r, d), Projects!Save(r, d),
           NEW k \in Projects!Records, NEW n \in Nat, n <= revision[k]
    PROVE  Projects!CriteriaAt(k, n) \subseteq Projects!CriteriaAt(k, n)' /\ n <= revision'[k]
<1>1. d \in Projects!Fields
  BY DEF Admitted
<1>2. CASE k # r
  <2>1. history'[k] = history[k] /\ revision'[k] = revision[k] /\ data'[k] = data[k]
    BY <1>1, <1>2, SaveEffects
  <2>2. QED
    BY <2>1 DEF Projects!CriteriaAt, Projects!Replay, Projects!Renewals
<1>3. CASE k = r
  <2> PICK v : v = version[r]
    OBVIOUS
  <2>1. /\ v \in Nat \ {0} /\ Len(history[r]) = v /\ Len(history'[r]) = v + 1
        /\ \A m \in 1..v : history'[r][m] = history[r][m] /\ Projects!Replay(r)'[m] = Projects!Replay(r)[m]
        /\ Projects!Replay(r)'[v + 1] = revision'[r] /\ Projects!Replay(r)[v] = revision[r]
        /\ history[r][v] = LastVersion(data[r]) /\ history'[r][v + 1] = LastVersion(d)
    <3>1. v \in Nat \ {0}
      BY <1>1, SaveEffects
    <3>2. QED
      BY <1>1, <3>1, SaveHistory, SaveReplay DEF ProjectInv, HistorySound
  <2>2. n <= revision'[r] /\ revision'[r] \in Nat
    <3>1. revision'[r] \in {revision[r], revision[r] + 1} /\ revision[r] \in Nat
      BY <1>1, SaveEffects
    <3>2. QED
      BY <1>3, <3>1
  <2>3. Named(r, n) \subseteq 1..v
    BY <2>1 DEF Named
  <2>4. Named(r, n)' \cap (1..v) = Named(r, n) /\ Named(r, n)' \subseteq 1..(v + 1)
    <3>1. Named(r, n)' = {m \in 1..(v + 1) : history'[r][m].type = "requirement" /\ Projects!Replay(r)'[m] = n}
      BY <2>1 DEF Named
    <3>2. Named(r, n) = {m \in 1..v : history[r][m].type = "requirement" /\ Projects!Replay(r)[m] = n}
      BY <2>1 DEF Named
    <3>3. \A m \in 1..v : m \in 1..(v + 1) /\ history'[r][m] = history[r][m]
                         /\ Projects!Replay(r)'[m] = Projects!Replay(r)[m]
      BY <2>1
    <3>4. QED
      BY <3>1, <3>2, <3>3, Zenon
  <2>5. Projects!CriteriaAt(r, n) =
            IF Named(r, n) # {} THEN history[r][Projects!Min(Named(r, n))].content.criteria
            ELSE IF n = revision[r] THEN data[r].criteria ELSE {}
    BY DEF Projects!CriteriaAt, Named
  <2>6. Projects!CriteriaAt(r, n)' =
            IF Named(r, n)' # {} THEN history'[r][Projects!Min(Named(r, n)')].content.criteria
            ELSE IF n = revision'[r] THEN data'[r].criteria ELSE {}
    BY DEF Projects!CriteriaAt, Named
  <2>7. CASE Named(r, n) # {}
    <3>1. Projects!Min(Named(r, n)) \in Named(r, n) /\ \A m \in Named(r, n) : Projects!Min(Named(r, n)) <= m
      <4>1. Named(r, n) \subseteq Nat
        BY <2>3
      <4>2. QED
        BY <2>7, <4>1, MinIsFirst
    <3>2. Named(r, n)' # {} /\ Named(r, n)' \subseteq Nat
      BY <2>1, <2>4, <2>7
    <3>3. Projects!Min(Named(r, n)') \in Named(r, n)' /\ \A m \in Named(r, n)' : Projects!Min(Named(r, n)') <= m
      BY <3>2, MinIsFirst
    <3>4. Projects!Min(Named(r, n)') = Projects!Min(Named(r, n))
      <4> PICK p : p = Projects!Min(Named(r, n))
        OBVIOUS
      <4> PICK q : q = Projects!Min(Named(r, n)')
        OBVIOUS
      <4>1. p \in Named(r, n) /\ p \in 1..v /\ p \in Named(r, n)'
        BY <2>3, <2>4, <3>1
      <4>2. q <= p /\ q \in 1..(v + 1)
        BY <2>4, <3>3, <4>1
      <4>3. q \in 1..v
        BY <2>1, <4>1, <4>2
      <4>4. q \in Named(r, n)
        BY <2>4, <3>3, <4>3
      <4>5. p <= q
        BY <3>1, <4>4
      <4>6. QED
        BY <4>1, <4>2, <4>3, <4>5
    <3>5. history'[r][Projects!Min(Named(r, n))] = history[r][Projects!Min(Named(r, n))]
      BY <2>1, <2>3, <3>1
    <3>6. QED
      BY <1>3, <2>2, <2>5, <2>6, <2>7, <3>2, <3>4, <3>5
  <2>8. CASE Named(r, n) = {} /\ n = revision[r]
    <3>1. v \notin Named(r, n)
      BY <2>8
    <3>2. history[r][v].type # "requirement"
      BY <2>1, <2>8, <3>1 DEF Named
    <3>3. data[r].type # "requirement"
      BY <2>1, <3>2 DEF LastVersion
    <3>4. data[r].criteria = {}
      BY <3>3 DEF ProjectInv, GraphSound, Projects!Valid, Projects!WellFormed
    <3>5. QED
      BY <1>3, <2>2, <2>5, <2>8, <3>4
  <2>9. CASE Named(r, n) = {} /\ n # revision[r]
    BY <1>3, <2>2, <2>5, <2>9
  <2>10. QED
    BY <2>7, <2>8, <2>9
<1>4. QED
  BY <1>2, <1>3

(* The graph that a command has validated stays valid: what it says of the evidence of  *)
(* other records is of revisions that stay.                                       *)
Graph(g) ==
    /\ \A k \in Projects!Records : \A edge \in g[k].relations : Projects!Endpoints(g, k, edge)
    /\ \A k \in Projects!Records : g[k].parent # Nobody => g[g[k].parent].type = "use_case"
    /\ \A k \in Projects!Records :
          g[k].evidence # Nobody => g[g[k].evidence.requirement].type = "requirement"
    /\ Projects!Acyclic(g)
Provable(v) ==
    v # Nobody => /\ v.revision <= revision[v.requirement]
                  /\ v.criteria \subseteq Projects!CriteriaAt(v.requirement, v.revision)

(* A graph is valid for a record if it is a graph, and the record is well     *)
(* formed and proves what there is.                                           *)
LEMMA ValidParts ==
    ASSUME NEW g, NEW r
    PROVE  Projects!Valid(g, r) <=> Projects!WellFormed(g[r]) /\ Graph(g) /\ Provable(g[r].evidence)
  BY DEF Projects!Valid, Graph, Provable

(* Evidence is of a requirement and of a revision of it.                      *)
LEMMA EvidenceTyped ==
    ASSUME NEW d \in Projects!Fields, d.evidence # Nobody
    PROVE  d.evidence.requirement \in Projects!Records /\ d.evidence.revision \in Nat
<1>1. d.evidence \in Projects!Evidence
  BY DEF Projects!Fields
<1>2. QED
  BY <1>1, ProjectConstants DEF Projects!Evidence

(* So all records stay valid when one is saved that is.                       *)
LEMMA SaveKeepsGraph ==
    ASSUME ProjectInv, NEW r \in Projects!Records, NEW d, Admitted(r, d), Projects!Save(r, d),
           Graph(data'), Provable(d.evidence)
    PROVE  GraphSound'
<1>1. d \in Projects!Fields /\ Projects!WellFormed(d)
  BY DEF Admitted
<1>2. \A b : b \in Projects!Fields /\ Provable(b.evidence) => Provable(b.evidence)'
  <2> TAKE b
  <2> HAVE b \in Projects!Fields /\ Provable(b.evidence)
  <2>1. CASE b.evidence # Nobody
    <3>1. b.evidence.requirement \in Projects!Records /\ b.evidence.revision \in Nat
      BY <2>1, EvidenceTyped
    <3>2. b.evidence.revision <= revision[b.evidence.requirement]
          /\ b.evidence.criteria \subseteq Projects!CriteriaAt(b.evidence.requirement, b.evidence.revision)
      BY <2>1 DEF Provable
    <3>3. /\ Projects!CriteriaAt(b.evidence.requirement, b.evidence.revision) \subseteq
                Projects!CriteriaAt(b.evidence.requirement, b.evidence.revision)'
          /\ b.evidence.revision <= revision'[b.evidence.requirement]
      BY <3>1, <3>2, CriteriaGrow
    <3>4. QED
      BY <3>2, <3>3 DEF Provable
  <2>2. CASE b.evidence = Nobody
    BY <2>2 DEF Provable
  <2>3. QED
    BY <2>1, <2>2
<1>3. \A k \in Projects!Records : \E b \in Projects!Fields :
          b = data'[k] /\ Projects!WellFormed(b) /\ Provable(b.evidence)'
  <2> TAKE k \in Projects!Records
  <2>1. CASE k = r
    <3>1. data'[k] = d
      BY <1>1, <2>1, SaveEffects
    <3>2. Provable(d.evidence)'
      BY <1>1, <1>2
    <3>3. QED
      BY <1>1, <3>1, <3>2, Zenon
  <2>2. CASE k # r
    <3> PICK b : b = data[k]
      OBVIOUS
    <3>1. data'[k] = b
      BY <1>1, <2>2, SaveEffects
    <3>2. Projects!WellFormed(b) /\ Provable(b.evidence) /\ b \in Projects!Fields
      BY ValidParts DEF ProjectInv, GraphSound, RowsSound
    <3>3. Provable(b.evidence)'
      BY <1>2, <3>2
    <3>4. QED
      BY <3>1, <3>2, <3>3, Zenon
  <2>3. QED
    BY <2>1, <2>2
<1>4. Graph(data)'
  BY DEF Graph, Projects!Endpoints, Projects!Acyclic
<1>5. \A k \in Projects!Records : Projects!Valid(data, k)'
  <2> TAKE k \in Projects!Records
  <2>1. PICK b \in Projects!Fields : b = data'[k] /\ Projects!WellFormed(b) /\ Provable(b.evidence)'
    BY <1>3
  <2>2. Projects!WellFormed(data[k])'
    BY <2>1 DEF Projects!WellFormed
  <2>3. Provable(data[k].evidence)'
    <3> PICK q, n : q = b.evidence.requirement /\ n = b.evidence.revision
      OBVIOUS
    <3>1. data'[k].evidence.requirement = q /\ data'[k].evidence.revision = n /\ data'[k].evidence = b.evidence
      BY <2>1
    <3>2. Projects!Renewals(data[k].evidence.requirement, 0)' = Projects!Renewals(q, 0)'
      BY <3>1 DEF Projects!Renewals
    <3>3. Projects!Replay(data[k].evidence.requirement)' = Projects!Replay(q)'
      BY <3>1 DEF Projects!Replay, Projects!Renewals
    <3>5. Projects!CriteriaAt(data[k].evidence.requirement, data[k].evidence.revision)' = Projects!CriteriaAt(q, n)'
      BY <3>1, <3>3 DEF Projects!CriteriaAt
    <3>4. QED
      BY <2>1, <3>1, <3>5 DEF Provable
  <2>4. QED
    BY <1>4, <2>2, <2>3 DEF Projects!Valid, Graph, Provable
<1>6. QED
  BY <1>5 DEF GraphSound
-----------------------------------------------------------------------------
(* What a review says still holds after any command on any record.                  *)
LEMMA SaveKeepsReviews ==
    ASSUME ProjectInv, NEW r \in Projects!Records, NEW d, Admitted(r, d), Projects!Save(r, d),
           NEW e, NEW i, ReviewSound(e, i)
    PROVE  ReviewSound(e, i)'
<1>1. d \in Projects!Fields
  BY DEF Admitted
<1> PICK k : k = e.record
  OBVIOUS
<1>2. /\ k \in Projects!Records /\ e.version \in 1..version[k] /\ e.revision \in 1..revision[k]
      /\ \A q \in e.proofs : q[1] \in Proofs /\ q[2] \in Nat /\ q[2] <= version[q[1]]
  BY DEF ReviewSound
<1>3. \A m \in Projects!Records : /\ version[m] \in Nat /\ revision[m] \in Nat /\ version'[m] \in Nat
                                  /\ revision'[m] \in Nat /\ version[m] <= version'[m]
                                  /\ revision[m] <= revision'[m]
  <2> TAKE m \in Projects!Records
  <2>1. version[m] \in Nat /\ revision[m] \in Nat
    BY DEF ProjectInv, RowsSound
  <2>2. CASE m = r
    <3>1. version'[m] = version[m] + 1 /\ revision'[m] \in {revision[m], revision[m] + 1}
      BY <1>1, <2>2, SaveEffects
    <3>2. QED
      BY <2>1, <3>1
  <2>3. CASE m # r
    <3>1. version'[m] = version[m] /\ revision'[m] = revision[m]
      BY <1>1, <2>3, SaveEffects
    <3>2. QED
      BY <2>1, <3>1
  <2>4. QED
    BY <2>2, <2>3
<1>4. e.version \in 1..version'[k] /\ e.revision \in 1..revision'[k]
  BY <1>2, <1>3
<1>5. \A q \in e.proofs : q[1] \in Proofs /\ q[2] \in Nat /\ q[2] <= version'[q[1]]
  <2> TAKE q \in e.proofs
  <2>1. q[1] \in Proofs /\ q[1] \in Projects!Records /\ q[2] \in Nat /\ q[2] <= version[q[1]]
    BY <1>2, ProjectConstants
  <2>2. QED
    BY <1>3, <2>1
<1>6. ASSUME e.revision = revision'[k] PROVE revision[k] = e.revision /\ revision'[k] = revision[k]
  BY <1>2, <1>3, <1>6
<1>7. ASSUME e.revision = revision'[k], ProofsUnchanged(e)'
      PROVE  e.outstanding.missing = Missing(e)'
  <2>1. data'[k].criteria = data[k].criteria
    <3>1. CASE k = r
      BY <1>1, <1>6, <1>7, <3>1, SaveEffects, CriteriaStay
    <3>2. CASE k # r
      BY <1>1, <1>2, <3>2, SaveEffects
    <3>3. QED
      BY <3>1, <3>2
  <2>2. \A q \in e.proofs : version[q[1]] = q[2] /\ data'[q[1]] = data[q[1]]
    <3> TAKE q \in e.proofs
    <3>1. q[1] \in Projects!Records /\ version'[q[1]] = q[2] /\ q[2] \in Nat /\ q[2] <= version[q[1]]
      BY <1>2, <1>7, ProjectConstants DEF ProofsUnchanged
    <3>2. version[q[1]] = version'[q[1]] /\ version[q[1]] \in Nat
      BY <1>3, <3>1
    <3>3. q[1] # r
      <4>1. version'[r] = version[r] + 1
        BY <1>1, SaveEffects
      <4>2. QED
        BY <3>2, <4>1
    <3>4. QED
      BY <1>1, <3>1, <3>2, <3>3, SaveEffects
  <2>3. e.outstanding.missing = Missing(e)
    BY <1>6, <1>7, <2>2 DEF ReviewSound, ProofsUnchanged
  <2>4. Missing(e) = data[k].criteria \ UNION {data[p].evidence.criteria :
                        p \in {p \in {q[1] : q \in e.proofs} : data[p].evidence.passed}}
    BY DEF Missing
  <2>5. Missing(e)' = data'[k].criteria \ UNION {data'[p].evidence.criteria :
                        p \in {p \in {q[1] : q \in e.proofs} : data'[p].evidence.passed}}
    BY DEF Missing
  <2>6. \A p \in {q[1] : q \in e.proofs} : data'[p] = data[p]
    BY <2>2
  <2> PICK P : P = {q[1] : q \in e.proofs}
    OBVIOUS
  <2>7. {data'[p].evidence.criteria : p \in {p \in P : data'[p].evidence.passed}}
          = {data[p].evidence.criteria : p \in {p \in P : data[p].evidence.passed}}
    <3>1. {p \in P : data'[p].evidence.passed} = {p \in P : data[p].evidence.passed}
      BY <2>6
    <3>2. QED
      BY <2>6, <3>1
  <2>8. QED
    BY <2>1, <2>3, <2>4, <2>5, <2>7
<1>8. ASSUME e.revision = revision'[k] PROVE SameContent(e)'
  <2>1. SameContent(e)
    BY <1>6, <1>8 DEF ReviewSound
  <2>2. CASE k # r
    <3>1. history'[k] = history[k] /\ data'[k] = data[k] /\ version'[k] = version[k]
      BY <1>1, <1>2, <2>2, SaveEffects
    <3>2. QED
      BY <2>1, <3>1 DEF SameContent
  <2>3. CASE k = r
    <3>1. /\ version'[k] = version[k] + 1 /\ data'[k] = d /\ version[k] \in Nat
          /\ d.type # "requirement" \/ Projects!Content(d) = Projects!Content(data[k])
      BY <1>1, <1>6, <1>8, <2>3, SaveEffects
    <3>2. /\ \A n \in 1..version[k] : history'[k][n] = history[k][n]
          /\ history'[k][version[k] + 1] = LastVersion(d)
      BY <1>1, <2>3, SaveHistory
    <3>3. CASE d.type # "requirement"
      <4> PICK n : n = version[k] + 1
        OBVIOUS
      <4>1. n \in e.version..version'[k]
        BY <1>2, <1>4, <3>1
      <4>2. history'[k][n].type # "requirement"
        BY <3>2, <3>3 DEF LastVersion
      <4>3. QED
        BY <4>1, <4>2 DEF SameContent
    <3>4. CASE Projects!Content(d) = Projects!Content(data[k])
      <4>1. CASE history[k][e.version].content = Projects!Content(data[k])
        <5>1. history'[k][e.version].content = Projects!Content(d)
          BY <1>2, <3>2, <3>4, <4>1
        <5>2. QED
          BY <3>1, <5>1 DEF SameContent, Projects!Content
      <4>2. CASE \E n \in e.version..version[k] : history[k][n].type # "requirement"
        <5>1. PICK n \in e.version..version[k] : history[k][n].type # "requirement"
          BY <4>2
        <5>2. n \in 1..version[k] /\ n \in e.version..version'[k]
          BY <1>2, <3>1, <5>1
        <5>3. history'[k][n].type # "requirement"
          BY <3>2, <5>1, <5>2
        <5>4. QED
          BY <5>2, <5>3 DEF SameContent
      <4>3. QED
        BY <2>1, <4>1, <4>2 DEF SameContent
    <3>5. QED
      BY <3>1, <3>3, <3>4
  <2>4. QED
    BY <2>2, <2>3
<1>9. QED
  BY <1>2, <1>4, <1>5, <1>7, <1>8 DEF ReviewSound

(* And what was read of a repository.                                           *)
LEMMA SaveKeepsReadings ==
    ASSUME ProjectInv, NEW r \in Projects!Records, NEW d, Admitted(r, d), Projects!Save(r, d),
           NEW e, ReadingSound(e)
    PROVE  ReadingSound(e)'
<1>1. d \in Projects!Fields
  BY DEF Admitted
<1> PICK k : k = e.leading
  OBVIOUS
<1>2. k \in Repositories /\ k \in Projects!Records /\ e.seen \in Nat /\ e.seen <= version[k] /\ version[k] \in Nat
  BY ProjectConstants DEF ReadingSound, ProjectInv, RowsSound
<1>3. CASE k = r
  <2>1. version'[k] = version[k] + 1
    BY <1>1, <1>3, SaveEffects
  <2>2. e.seen <= version'[k] /\ e.seen # version'[k]
    BY <1>2, <2>1
  <2>3. QED
    BY <1>2, <2>2 DEF ReadingSound
<1>4. CASE k # r
  <2>1. version'[k] = version[k] /\ data'[k] = data[k]
    BY <1>1, <1>2, <1>4, SaveEffects
  <2>2. QED
    BY <1>2, <2>1 DEF ReadingSound
<1>5. QED
  BY <1>3, <1>4

(* A command that leaves the record as it is only adds a version.                   *)
LEMMA PlainSave ==
    ASSUME ProjectInv, NEW r \in Projects!Records, Projects!Save(r, data[r])
    PROVE  /\ Admitted(r, data[r]) /\ data' = data /\ revision' = revision
           /\ Graph(data') /\ Provable(data[r].evidence)
<1>1. data[r] \in Projects!Fields /\ (r \in Proofs => data[r].type = "evidence")
  BY DEF ProjectInv, RowsSound
<1>2. Projects!WellFormed(data[r]) /\ Graph(data) /\ Provable(data[r].evidence)
  BY ValidParts DEF ProjectInv, GraphSound
<1>3. Admitted(r, data[r])
  BY <1>1, <1>2 DEF Admitted, Projects!Reasoned
<1>4. data' = data
  BY SaveEffects, <1>1 DEF ProjectInv, RowsSound
<1>5. revision' = revision
  BY DEF Projects!Save, Projects!NextRevision, ProjectInv, RowsSound
<1>6. QED
  BY <1>2, <1>3, <1>4, <1>5
-----------------------------------------------------------------------------
(* A command keeps the events, and tells what is so.                             *)
LEMMA EventsKept ==
    ASSUME ProjectInv, NEW r \in Projects!Records, NEW d, Admitted(r, d), Projects!Save(r, d)
    PROVE  /\ events' = events /\ old' = old => EventsSound'
           /\ \A e, i :
                 /\ events' = Append(events, e) /\ old' = old /\ i = Len(events) + 1
                 /\ e.kind = "assess" => ReviewSound(e, i)'
                 /\ e.kind = "sync_github" => ReadingSound(e)'
                 => EventsSound'
           /\ sync' \in {sync, Projects!Idle} => SyncSound'
<1>1. PICK S : events \in Seq(S)
  BY DEF ProjectInv, EventsSound
<1> PICK n : n = Len(events)
  OBVIOUS
<1>2. n \in Nat /\ old \in 0..n
  BY <1>1 DEF ProjectInv, EventsSound
<1>3. ASSUME NEW i \in 1..n, NEW e, e = events[i]
      PROVE  (e.kind = "assess" => ReviewSound(e, i)') /\ (e.kind = "sync_github" => ReadingSound(e)')
  <2>1. (e.kind = "assess" => ReviewSound(e, i)) /\ (e.kind = "sync_github" => ReadingSound(e))
    BY <1>3 DEF ProjectInv, EventsSound
  <2>2. QED
    BY <2>1, SaveKeepsReviews, SaveKeepsReadings
<1>4. ASSUME events' = events, old' = old PROVE EventsSound'
  <2>1. \A i \in 1..n : \E e : /\ e = events'[i] /\ (e.kind = "assess" => ReviewSound(e, i)')
                               /\ (e.kind = "sync_github" => ReadingSound(e)')
    BY <1>3, <1>4
  <2>2. \A i \in 1..Len(events') : /\ events'[i].kind = "assess" => ReviewSound(events[i], i)'
                                   /\ events'[i].kind = "sync_github" => ReadingSound(events[i])'
    <3> TAKE i \in 1..Len(events')
    <3>1. PICK e : /\ e = events'[i] /\ (e.kind = "assess" => ReviewSound(e, i)')
                   /\ (e.kind = "sync_github" => ReadingSound(e)')
      BY <1>4, <2>1
    <3>2. events'[i].kind = "assess" => ReviewSound(events[i], i)'
      BY <3>1
    <3>3. events'[i].kind = "sync_github" => ReadingSound(events[i])'
      BY <3>1
    <3>4. QED
      BY <3>2, <3>3
  <2>3. QED
    BY <1>1, <1>2, <1>4, <2>2 DEF EventsSound
<1>5. ASSUME NEW e, NEW new, events' = Append(events, e), old' = old, new = Len(events) + 1,
             e.kind = "assess" => ReviewSound(e, new)',
             e.kind = "sync_github" => ReadingSound(e)'
      PROVE  EventsSound'
  <2>1. /\ new = n + 1 /\ events' \in Seq(S \cup {e}) /\ Len(events') = new /\ events'[new] = e
        /\ \A i \in 1..n : events'[i] = events[i]
    <3>1. events \in Seq(S \cup {e})
      BY <1>1
    <3>2. QED
      BY <1>1, <1>5, <3>1
  <2>2. \A i \in 1..Len(events') : \E f : /\ f = events'[i] /\ (f.kind = "assess" => ReviewSound(f, i)')
                                          /\ (f.kind = "sync_github" => ReadingSound(f)')
    <3> TAKE i \in 1..Len(events')
    <3>1. CASE i = new
      BY <1>5, <2>1, <3>1
    <3>2. CASE i \in 1..n
      BY <1>3, <2>1, <3>2
    <3>3. QED
      BY <1>2, <2>1, <3>1, <3>2
  <2>3. \A i \in 1..Len(events') : /\ events'[i].kind = "assess" => ReviewSound(events[i], i)'
                                   /\ events'[i].kind = "sync_github" => ReadingSound(events[i])'
    <3> TAKE i \in 1..Len(events')
    <3>1. PICK f : /\ f = events'[i] /\ (f.kind = "assess" => ReviewSound(f, i)')
                   /\ (f.kind = "sync_github" => ReadingSound(f)')
      BY <2>2
    <3>2. events'[i].kind = "assess" => ReviewSound(events[i], i)'
      BY <3>1
    <3>3. events'[i].kind = "sync_github" => ReadingSound(events[i])'
      BY <3>1
    <3>4. QED
      BY <3>2, <3>3
  <2>4. old' \in 0..Len(events')
    BY <1>2, <1>5, <2>1
  <2>5. QED
    BY <2>1, <2>3, <2>4 DEF EventsSound
<1>6. ASSUME sync' \in {sync, Projects!Idle} PROVE SyncSound'
  <2>1. CASE sync' = Projects!Idle
    BY <2>1 DEF SyncSound, Projects!Idle
  <2>2. CASE sync' = sync /\ sync.pc # "idle"
    <3> PICK e : e = sync
      OBVIOUS
    <3>1. ReadingSound(e)
      BY <2>2 DEF ProjectInv, SyncSound
    <3>2. ReadingSound(e)'
      BY <3>1, SaveKeepsReadings
    <3>3. ReadingSound(sync)'
      BY <2>2, <3>2 DEF ReadingSound
    <3>4. QED
      BY <2>2, <3>3 DEF ProjectInv, SyncSound
  <2>3. CASE sync' = sync /\ sync.pc = "idle"
    BY <2>3 DEF SyncSound
  <2>4. QED
    BY <1>6, <2>1, <2>2, <2>3
<1>7. QED
  BY <1>4, <1>5, <1>6

(* The edits of a patch give a record of the same kinds of fields.                  *)
LEMMA EditsTyped ==
    ASSUME ProjectInv, NEW r \in Projects!Records, NEW d \in Projects!Edits(r)
    PROVE  d \in Projects!Fields /\ (r \in Proofs => d.type = "evidence")
<1> PICK b : b = data[r]
  OBVIOUS
<1>1. b \in Projects!Fields /\ (r \in Proofs => b.type = "evidence")
  BY DEF ProjectInv, RowsSound
<1>2. /\ b.mandatory \in BOOLEAN /\ b.done \in BOOLEAN /\ b.wording \in {1, 2} /\ b.target \in {1, 2}
      /\ b.evidence \in Projects!Evidence \cup {Nobody}
  BY <1>1 DEF Projects!Fields
<1>3. [b EXCEPT !.mandatory = ~@] \in Projects!Fields /\ [b EXCEPT !.mandatory = ~@].type = b.type
  BY <1>1, <1>2 DEF Projects!Fields
<1>4. CASE r \in UseCases
  <2>1. Projects!Edits(r) = {[b EXCEPT !.mandatory = ~@]}
    BY <1>4, ProjectConstants DEF Projects!Edits
  <2>2. r \notin Proofs
    BY <1>4, ProjectConstants
  <2>3. QED
    BY <1>3, <2>1, <2>2
<1>5. CASE r \in Requirements
  <2>1. Projects!Edits(r) =
          {[b EXCEPT !.mandatory = ~@], [b EXCEPT !.wording = 3 - @]}
          \cup {[b EXCEPT !.type = t] : t \in {"task", "requirement"}}
          \cup {[b EXCEPT !.criteria = c, !.reason = TRUE] : c \in SUBSET Criteria}
    BY <1>5, ProjectConstants DEF Projects!Edits
  <2>2. r \notin Proofs
    BY <1>5, ProjectConstants
  <2>3. [b EXCEPT !.wording = 3 - @] \in Projects!Fields
    <3>1. 3 - b.wording \in {1, 2}
      BY <1>2
    <3>2. QED
      BY <1>1, <3>1 DEF Projects!Fields
  <2>4. \A t \in {"task", "requirement"} : [b EXCEPT !.type = t] \in Projects!Fields
    BY <1>1 DEF Projects!Fields
  <2>5. \A c \in SUBSET Criteria : [b EXCEPT !.criteria = c, !.reason = TRUE] \in Projects!Fields
    BY <1>1 DEF Projects!Fields
  <2>6. QED
    BY <1>3, <2>1, <2>2, <2>3, <2>4, <2>5
<1>6. CASE r \in Tasks
  <2>1. Projects!Edits(r) =
          {[b EXCEPT !.done = ~@], [b EXCEPT !.mandatory = ~@]}
          \cup {[b EXCEPT !.relations = {"implements"} \X R] : R \in SUBSET Requirements}
          \cup {[b EXCEPT !.relations = {"depends_on"} \X (Tasks \ {r})]}
          \cup {[b EXCEPT !.leading = g] : g \in Repositories \cup {Nobody}}
    BY <1>6, ProjectConstants DEF Projects!Edits
  <2>2. r \notin Proofs
    BY <1>6, ProjectConstants
  <2>3. [b EXCEPT !.done = ~@] \in Projects!Fields
    BY <1>1, <1>2 DEF Projects!Fields
  <2>4. \A R \in SUBSET Requirements : [b EXCEPT !.relations = {"implements"} \X R] \in Projects!Fields
    BY <1>1 DEF Projects!Fields
  <2>5. [b EXCEPT !.relations = {"depends_on"} \X (Tasks \ {r})] \in Projects!Fields
    BY <1>1 DEF Projects!Fields
  <2>6. \A g \in Repositories \cup {Nobody} : [b EXCEPT !.leading = g] \in Projects!Fields
    BY <1>1 DEF Projects!Fields
  <2>7. QED
    BY <1>3, <2>1, <2>2, <2>3, <2>4, <2>5, <2>6
<1>7. CASE r \in Proofs
  <2>1. Projects!Edits(r) =
          {[b EXCEPT !.evidence.passed = ~@],
           [b EXCEPT !.evidence.revision = revision[b.evidence.requirement]]}
    BY <1>7, ProjectConstants DEF Projects!Edits
  <2>2. b.type = "evidence"
    BY <1>1, <1>7
  <2>3. b.evidence \in Projects!Evidence
    <3>1. Projects!WellFormed(b)
      BY DEF ProjectInv, GraphSound, Projects!Valid
    <3>2. b.evidence # Nobody
      BY <2>2, <3>1 DEF Projects!WellFormed
    <3>3. QED
      BY <1>2, <3>2
  <2>4. b.evidence.passed \in BOOLEAN /\ revision[b.evidence.requirement] \in Nat
    BY <2>3, ProjectConstants DEF Projects!Evidence, ProjectInv, RowsSound
  <2>5. /\ [b.evidence EXCEPT !.passed = ~@] \in Projects!Evidence
        /\ [b.evidence EXCEPT !.revision = revision[b.evidence.requirement]] \in Projects!Evidence
    BY <2>3, <2>4 DEF Projects!Evidence
  <2>6. [b EXCEPT !.evidence.passed = ~@] \in Projects!Fields
        /\ [b EXCEPT !.evidence.revision = revision[b.evidence.requirement]] \in Projects!Fields
    BY <1>1, <2>5 DEF Projects!Fields
  <2>7. [b EXCEPT !.evidence.passed = ~@].type = b.type
        /\ [b EXCEPT !.evidence.revision = revision[b.evidence.requirement]].type = b.type
    BY <1>1 DEF Projects!Fields
  <2>8. QED
    BY <2>1, <2>2, <2>6, <2>7
<1>8. CASE r \in Repositories
  <2>1. Projects!Edits(r) = {[b EXCEPT !.target = 3 - @]}
    BY <1>8, ProjectConstants DEF Projects!Edits
  <2>2. r \notin Proofs
    BY <1>8, ProjectConstants
  <2>3. 3 - b.target \in {1, 2}
    BY <1>2
  <2>4. [b EXCEPT !.target = 3 - @] \in Projects!Fields
    BY <1>1, <2>3 DEF Projects!Fields
  <2>5. QED
    BY <2>1, <2>2, <2>4
<1>9. QED
  BY <1>4, <1>5, <1>6, <1>7, <1>8, ProjectConstants
-----------------------------------------------------------------------------
(* Every step of the project keeps the invariant.                                *)
LEMMA PatchKeeps ==
    ASSUME ProjectInv, NEW r \in Projects!Records, Projects!Patch(r)
    PROVE  ProjectInv'
<1>1. PICK d \in Projects!Edits(r) :
          /\ Projects!Reasoned(r, d) /\ Projects!Valid([data EXCEPT ![r] = d], r) /\ Projects!Save(r, d)
          /\ events' = events /\ old' = old /\ sync' = sync
  BY DEF Projects!Patch
<1>2. d \in Projects!Fields /\ (r \in Proofs => d.type = "evidence")
  BY EditsTyped
<1> PICK g : g = [data EXCEPT ![r] = d]
  OBVIOUS
<1>3. g[r] = d /\ data' = g
  BY <1>1, <1>2, SaveEffects DEF ProjectInv, RowsSound
<1>4. Projects!WellFormed(g[r]) /\ Graph(g) /\ Provable(g[r].evidence)
  BY <1>1, ValidParts
<1>5. Admitted(r, d) /\ Graph(data') /\ Provable(d.evidence)
  BY <1>1, <1>2, <1>3, <1>4 DEF Admitted
<1>6. RowsSound' /\ HistorySound' /\ GraphSound' /\ EventsSound' /\ SyncSound'
  BY <1>1, <1>5, SaveKeepsRows, SaveKeepsGraph, EventsKept
<1>7. QED
  BY <1>6 DEF ProjectInv

(* A comment.                                                                 *)
LEMMA CommentKeeps ==
    ASSUME ProjectInv, NEW r \in Projects!Records, Projects!Comment(r)
    PROVE  ProjectInv'
<1>1. Projects!Save(r, data[r]) /\ events' = events /\ old' = old /\ sync' = sync
  BY DEF Projects!Comment
<1>2. Admitted(r, data[r]) /\ Graph(data') /\ Provable(data[r].evidence)
  BY <1>1, PlainSave
<1>3. RowsSound' /\ HistorySound' /\ GraphSound' /\ EventsSound' /\ SyncSound'
  BY <1>1, <1>2, SaveKeepsRows, SaveKeepsGraph, EventsKept
<1>4. QED
  BY <1>3 DEF ProjectInv

(* A plain save that tells one event.                                            *)
LEMMA TellingKeeps ==
    ASSUME ProjectInv, NEW r \in Projects!Records, Projects!Save(r, data[r]),
           NEW e, NEW new, new = Len(events) + 1, events' = Append(events, e), old' = old,
           sync' \in {sync, Projects!Idle},
           e.kind = "assess" => ReviewSound(e, new)', e.kind = "sync_github" => ReadingSound(e)'
    PROVE  ProjectInv'
<1>1. Admitted(r, data[r]) /\ Graph(data') /\ Provable(data[r].evidence)
  BY PlainSave
<1>2. RowsSound' /\ HistorySound' /\ GraphSound' /\ SyncSound'
  BY <1>1, SaveKeepsRows, SaveKeepsGraph, EventsKept
<1>3. EventsSound'
  BY <1>1, EventsKept
<1>4. QED
  BY <1>2, <1>3 DEF ProjectInv

(* A review of earlier evidence.                                              *)
LEMMA ReuseKeeps ==
    ASSUME ProjectInv, NEW r \in Projects!Records, Projects!Reuse(r)
    PROVE  ProjectInv'
<1>1. PICK e : /\ e.kind = "reuse_evidence" /\ events' = Append(events, e)
               /\ Projects!Save(r, data[r]) /\ old' = old /\ sync' = sync
  <2>1. PICK proofs \in (SUBSET Proofs) \ {{}} :
            /\ Projects!Save(r, data[r]) /\ old' = old /\ sync' = sync
            /\ Projects!Tell([kind |-> "reuse_evidence", record |-> r, revision |-> revision[r],
                              proofs |-> Projects!Versions(proofs)])
    BY DEF Projects!Reuse
  <2>2. PICK e : e = [kind |-> "reuse_evidence", record |-> r, revision |-> revision[r],
                      proofs |-> Projects!Versions(proofs)]
    OBVIOUS
  <2>3. e.kind = "reuse_evidence"
    BY <2>2
  <2>4. QED
    BY <2>1, <2>2, <2>3 DEF Projects!Tell
<1>2. PICK new : new = Len(events) + 1
  OBVIOUS
<1>3. QED
  BY <1>1, <1>2, TellingKeeps

(* The last review of a record is one of the events.                              *)
LEMMA ReviewsAreEvents ==
    ASSUME ProjectInv, NEW k
    PROVE  /\ Len(events) \in Nat
           /\ Projects!LastAnyReview(k) \in 0..Len(events) /\ Projects!LastReview(k) \in 0..Len(events)
           /\ Projects!LastReview(k) # 0 =>
                 /\ events[Projects!LastReview(k)].kind = "assess"
                 /\ events[Projects!LastReview(k)].record = k
                 /\ events[Projects!LastReview(k)].revision = revision[k]
           /\ Projects!LastReview(k) <= Projects!LastAnyReview(k)
<1>1. Len(events) \in Nat
  BY DEF ProjectInv, EventsSound
<1>2. PICK S : S = {i \in 1..Len(events) : /\ events[i].kind = "assess" /\ events[i].record = k
                                           /\ events[i].revision = revision[k]}
  OBVIOUS
<1>3. PICK T : T = {i \in 1..Len(events) : events[i].kind = "assess" /\ events[i].record = k}
  OBVIOUS
<1>4. S \subseteq T /\ T \subseteq 1..Len(events) /\ S \subseteq 1..Len(events)
  BY <1>2, <1>3
<1>5. Projects!LastReview(k) = Projects!Latest(S) /\ Projects!LastAnyReview(k) = Projects!Latest(T)
  BY <1>2, <1>3 DEF Projects!LastReview, Projects!LastAnyReview
<1>6. /\ Projects!Latest(S) \in 0..Len(events) /\ Projects!Latest(T) \in 0..Len(events)
      /\ Projects!Latest(S) \in S \cup {0} /\ \A j \in T : Projects!Latest(T) >= j
  BY <1>1, <1>4, LatestIsLast
<1>7. Projects!Latest(S) <= Projects!Latest(T)
  BY <1>4, <1>6
<1>8. QED
  BY <1>1, <1>2, <1>5, <1>6, <1>7

(* What a basis tells, and what is outstanding on it.                              *)
LEMMA BasisDomain ==
    ASSUME NEW r, NEW basis, basis = Projects!Basis(r)
    PROVE  DOMAIN basis = {k \in Projects!Scope(r) :
               k = r \/ Projects!Reviewable(data[k]) \/ data[k].type = "task"}
  BY DEF Projects!Basis

(* An entry of a basis is of the record as it is.                             *)
LEMMA BasisTells ==
    ASSUME NEW r, NEW basis, basis = Projects!Basis(r), NEW k \in DOMAIN basis
    PROVE  /\ k \in Projects!Scope(r) /\ (k = r \/ Projects!Reviewable(data[k]) \/ data[k].type = "task")
           /\ basis[k].status = Projects!WorkStatus(k)
           /\ basis[k].mandatory = data[k].mandatory /\ basis[k].type = data[k].type
           /\ Projects!Reviewable(data[k]) /\ k # r => basis[k].review = Projects!LastAnyReview(k)
<1>1. PICK D : D = {m \in Projects!Scope(r) : m = r \/ Projects!Reviewable(data[m]) \/ data[m].type = "task"}
  OBVIOUS
<1>2. basis = [m \in D |->
      [status |-> Projects!WorkStatus(m), mandatory |-> data[m].mandatory, type |-> data[m].type,
       revision |-> IF Projects!Reviewable(data[m]) THEN revision[m] ELSE 0,
       review |-> IF Projects!Reviewable(data[m]) /\ m # r THEN Projects!LastAnyReview(m) ELSE 0,
       proofs |-> IF Projects!Reviewable(data[m]) /\ m # r
                  THEN Projects!Versions(Projects!ReviewProofs(Projects!LastReview(m))) ELSE {}]]
  BY <1>1 DEF Projects!Basis
<1>3. k \in D
  BY <1>2
<1>4. /\ basis[k].status = Projects!WorkStatus(k)
      /\ basis[k].mandatory = data[k].mandatory /\ basis[k].type = data[k].type
      /\ Projects!Reviewable(data[k]) /\ k # r => basis[k].review = Projects!LastAnyReview(k)
  BY <1>2, <1>3
<1>5. QED
  BY <1>1, <1>3, <1>4

(* What is outstanding can be told from the basis.                            *)
LEMMA OutstandingTells ==
    ASSUME NEW r, NEW proofs, NEW basis, basis = Projects!Basis(r),
           NEW outstanding, outstanding = Projects!Outstanding(r, proofs)
    PROVE  /\ outstanding.missing = data[r].criteria
                 \ UNION {data[p].evidence.criteria : p \in {p \in proofs : data[p].evidence.passed}}
           /\ outstanding.open =
                 {k \in DOMAIN basis \ {r} :
                     basis[k].mandatory /\ basis[k].type = "task" /\ basis[k].status # "done"}
           /\ \A k : k \in outstanding.unaccepted <=>
                 /\ k \in Projects!Scope(r) \ {r} /\ data[k].mandatory /\ Projects!Reviewable(data[k])
                 /\ ~(Projects!Accepted(k) /\ k \in Projects!ReviewCurrent)
<1>1. PICK rest : rest = {k \in Projects!Scope(r) \ {r} : data[k].mandatory}
  OBVIOUS
<1>2. outstanding =
        [missing |-> data[r].criteria
            \ UNION {data[p].evidence.criteria : p \in {p \in proofs : data[p].evidence.passed}},
         open |-> {k \in rest : data[k].type = "task" /\ Projects!WorkStatus(k) # "done"},
         unaccepted |-> {k \in rest :
             /\ Projects!Reviewable(data[k])
             /\ ~(Projects!Accepted(k) /\ k \in Projects!ReviewCurrent)}]
  BY <1>1 DEF Projects!Outstanding
<1>3. /\ outstanding.missing = data[r].criteria
            \ UNION {data[p].evidence.criteria : p \in {p \in proofs : data[p].evidence.passed}}
      /\ outstanding.open = {k \in rest : data[k].type = "task" /\ Projects!WorkStatus(k) # "done"}
      /\ outstanding.unaccepted = {k \in rest :
             /\ Projects!Reviewable(data[k])
             /\ ~(Projects!Accepted(k) /\ k \in Projects!ReviewCurrent)}
  BY <1>2
<1>4. \A k : k \in outstanding.open <=>
          k \in DOMAIN basis \ {r} /\ basis[k].mandatory /\ basis[k].type = "task" /\ basis[k].status # "done"
  <2> TAKE k
  <2>1. k \in outstanding.open <=> /\ k \in Projects!Scope(r) \ {r} /\ data[k].mandatory
                                   /\ data[k].type = "task" /\ Projects!WorkStatus(k) # "done"
    BY <1>1, <1>3
  <2>2. CASE k \in DOMAIN basis
    <3>1. /\ k \in Projects!Scope(r) /\ basis[k].status = Projects!WorkStatus(k)
          /\ basis[k].mandatory = data[k].mandatory /\ basis[k].type = data[k].type
      BY <2>2, BasisTells
    <3>2. QED
      BY <2>1, <2>2, <3>1
  <2>3. CASE k \notin DOMAIN basis
    <3>1. ~(k \in Projects!Scope(r) /\ data[k].type = "task")
      BY <2>3, BasisDomain
    <3>2. QED
      BY <2>1, <2>3, <3>1
  <2>4. QED
    BY <2>2, <2>3
<1>5. \A k : k \in outstanding.open <=> k \in {m \in DOMAIN basis \ {r} :
            basis[m].mandatory /\ basis[m].type = "task" /\ basis[m].status # "done"}
  BY <1>4, Zenon
<1>6. outstanding.open = {k \in DOMAIN basis \ {r} :
            basis[k].mandatory /\ basis[k].type = "task" /\ basis[k].status # "done"}
  BY <1>3, <1>5
<1>7. QED
  BY <1>1, <1>3, <1>6

(* A review, which says what is so when it is given.                          *)
LEMMA AssessKeeps ==
    ASSUME ProjectInv, NEW r \in Projects!Records, Projects!Assess(r)
    PROVE  ProjectInv'
<1>1. PICK proofs \in SUBSET Proofs, result \in {"accepted", "exception", "rejected"} :
          /\ Projects!Save(r, data[r]) /\ old' = old /\ sync' = sync
          /\ Projects!Tell([kind |-> "assess", record |-> r, revision |-> revision[r],
                           result |-> result, version |-> version[r] + 1,
                           proofs |-> Projects!Versions(proofs),
                           outstanding |-> Projects!Outstanding(r, proofs),
                           basis |-> Projects!Basis(r)])
  BY DEF Projects!Assess
<1>2. PICK outstanding, basis : outstanding = Projects!Outstanding(r, proofs) /\ basis = Projects!Basis(r)
  OBVIOUS
<1>3. PICK e : e = [kind |-> "assess", record |-> r, revision |-> revision[r],
                    result |-> result, version |-> version[r] + 1, proofs |-> Projects!Versions(proofs),
                    outstanding |-> outstanding, basis |-> basis]
  OBVIOUS
<1>4. /\ e.kind = "assess" /\ e.record = r /\ e.revision = revision[r] /\ e.version = version[r] + 1
      /\ e.proofs = Projects!Versions(proofs) /\ e.outstanding = outstanding /\ e.basis = basis
  BY <1>3
<1>5. PICK new : new = Len(events) + 1
  OBVIOUS
<1>6. events' = Append(events, e)
  BY <1>1, <1>2, <1>3 DEF Projects!Tell
<1>7. /\ data' = data /\ revision' = revision /\ version' \in [Projects!Records -> Nat]
      /\ version'[r] = version[r] + 1 /\ version[r] \in Nat \ {0} /\ revision[r] \in Nat \ {0}
      /\ history'[r][version[r] + 1] = LastVersion(data[r])
      /\ \A k \in Projects!Records : version[k] \in Nat /\ version'[k] \in Nat /\ version[k] <= version'[k]
  <2>1. data[r] \in Projects!Fields
    BY DEF ProjectInv, RowsSound
  <2>2. \A k \in Projects!Records : version[k] \in Nat
    BY DEF ProjectInv, RowsSound
  <2>3. version'[r] = version[r] + 1 /\ \A k \in Projects!Records \ {r} : version'[k] = version[k]
    BY <1>1, <2>1, SaveEffects
  <2>4. version' \in [Projects!Records -> Nat]
    BY <1>1, <2>1, SaveEffects
  <2>5. \A k \in Projects!Records : version[k] \in Nat /\ version'[k] \in Nat /\ version[k] <= version'[k]
    <3> TAKE k \in Projects!Records
    <3>1. version[k] \in Nat /\ (version'[k] = version[k] \/ version'[k] = version[k] + 1)
      BY <2>2, <2>3
    <3>2. QED
      BY <3>1
  <2>6. QED
    BY <1>1, <2>1, <2>4, <2>5, SaveEffects, SaveHistory, PlainSave
<1>8. \A q \in e.proofs : q[1] \in Proofs /\ q[2] \in Nat /\ q[2] <= version'[q[1]]
  <2> TAKE q \in e.proofs
  <2>1. PICK p \in proofs : q = <<p, version[p]>>
    BY <1>4 DEF Projects!Versions
  <2>2. p \in Proofs /\ p \in Projects!Records
    BY <1>1, <2>1, ProjectConstants
  <2>3. QED
    BY <1>7, <2>1, <2>2
<1>9. DOMAIN basis = {k \in Projects!Scope(r) : k = r \/ Projects!Reviewable(data[k]) \/ data[k].type = "task"}
  BY <1>2, BasisDomain
<1>10. /\ outstanding.missing = data[r].criteria
              \ UNION {data[p].evidence.criteria : p \in {p \in proofs : data[p].evidence.passed}}
       /\ \A k \in outstanding.unaccepted : k \in Projects!Scope(r) \ {r} /\ Projects!Reviewable(data[k])
  BY <1>2, OutstandingTells
<1>11. outstanding.open =
          {k \in DOMAIN basis \ {r} :
              basis[k].mandatory /\ basis[k].type = "task" /\ basis[k].status # "done"}
  BY <1>2, OutstandingTells
<1>12. \A k \in outstanding.unaccepted :
          /\ k \in DOMAIN basis \ {r}
          /\ basis[k].type \in {"requirement", "use_case"}
          /\ basis[k].review \in Nat /\ basis[k].review < new
  <2> TAKE k \in outstanding.unaccepted
  <2>1. k \in DOMAIN basis /\ k # r /\ Projects!Reviewable(data[k])
    BY <1>9, <1>10
  <2>2. basis[k].type = data[k].type /\ basis[k].review = Projects!LastAnyReview(k)
    BY <1>2, <2>1, BasisTells
  <2>3. Len(events) \in Nat /\ Projects!LastAnyReview(k) \in 0..Len(events)
    BY ReviewsAreEvents
  <2>4. QED
    BY <1>5, <2>1, <2>2, <2>3 DEF Projects!Reviewable
<1>13. outstanding.missing = Missing(e)'
  <2>1. {q[1] : q \in e.proofs} = proofs
    <3>1. e.proofs = {<<p, version[p]>> : p \in proofs}
      BY <1>4 DEF Projects!Versions
    <3>2. \A q \in e.proofs : q[1] \in proofs
      BY <3>1
    <3>3. \A p \in proofs : \E q \in e.proofs : q[1] = p
      <4> TAKE p \in proofs
      <4>1. <<p, version[p]>> \in e.proofs /\ <<p, version[p]>>[1] = p
        BY <3>1
      <4>2. QED
        BY <4>1, Zenon
    <3>4. QED
      BY <3>2, <3>3
  <2>2. Missing(e)' = data[r].criteria \ UNION {data[p].evidence.criteria :
                        p \in {p \in {q[1] : q \in e.proofs} : data[p].evidence.passed}}
    BY <1>4, <1>7 DEF Missing
  <2>3. QED
    BY <1>10, <2>1, <2>2
<1>14. SameContent(e)'
  <2>1. history'[r][e.version].content = Projects!Content(data[r])
    BY <1>4, <1>7 DEF LastVersion
  <2>2. QED
    BY <1>4, <1>7, <2>1 DEF SameContent, Projects!Content
<1>15. e.version \in 1..version'[r] /\ e.revision \in 1..revision'[r]
  BY <1>4, <1>7
<1>16. ReviewSound(e, new)'
  BY <1>4, <1>8, <1>11, <1>12, <1>13, <1>14, <1>15 DEF ReviewSound
<1>17. QED
  BY <1>1, <1>4, <1>5, <1>6, <1>16, TellingKeeps
-----------------------------------------------------------------------------
(* The steps of a sync.                                                       *)
LEMMA NoSaveKeeps ==
    ASSUME ProjectInv, data' = data, version' = version, revision' = revision, history' = history,
           events' = events, project' = project, old' \in 0..Len(events), SyncSound'
    PROVE  ProjectInv'
<1>1. RowsSound'
  BY DEF ProjectInv, RowsSound
<1>2. HistorySound'
  <2>1. \A k \in Projects!Records : Projects!Replay(k)' = Projects!Replay(k) /\ LastVersion(data[k])' = LastVersion(data[k])
    BY DEF Projects!Replay, Projects!Renewals, LastVersion, Projects!Content
  <2>2. \A k \in Projects!Records :
          /\ history'[k] \in Seq(Versioned) /\ Len(history'[k]) = version'[k]
          /\ history'[k][version'[k]] = LastVersion(data[k])'
          /\ Projects!Replay(k)'[version'[k]] = revision'[k]
    BY <2>1 DEF ProjectInv, HistorySound
  <2>3. history' = [k \in Projects!Records |-> history'[k]]
    BY DEF ProjectInv, HistorySound
  <2>4. QED
    BY <2>2, <2>3 DEF HistorySound
<1>3. \A k \in Projects!Records : Projects!Valid(data, k)'
  <2> TAKE k \in Projects!Records
  <2>1. Projects!Valid(data, k)
    BY DEF ProjectInv, GraphSound
  <2>2. Projects!Valid(data, k)' <=> Projects!Valid(data, k)
    BY DEF Projects!Valid, Projects!WellFormed, Projects!Endpoints, Projects!Acyclic,
           Projects!CriteriaAt, Projects!Replay, Projects!Renewals
  <2>3. QED
    BY <2>1, <2>2
<1>4. \A i \in 1..Len(events) : \A e : ReviewSound(e, i) => ReviewSound(e, i)'
  BY DEF ReviewSound, ProofsUnchanged, Missing, SameContent, Projects!Content
<1>5. \A e : ReadingSound(e) => ReadingSound(e)'
  BY DEF ReadingSound
<1>6. \A i \in 1..Len(events') : /\ events'[i].kind = "assess" => ReviewSound(events[i], i)'
                                 /\ events'[i].kind = "sync_github" => ReadingSound(events[i])'
  <2> TAKE i \in 1..Len(events')
  <2>1. PICK e : e = events[i]
    OBVIOUS
  <2>2. /\ e.kind = "assess" => ReviewSound(e, i)
        /\ e.kind = "sync_github" => ReadingSound(e)
    BY <2>1 DEF ProjectInv, EventsSound
  <2>3. e.kind = "assess" => ReviewSound(e, i)'
    BY <1>4, <2>2
  <2>4. e.kind = "sync_github" => ReadingSound(e)'
    BY <1>5, <2>2
  <2>5. events'[i].kind = "assess" => ReviewSound(events[i], i)'
    BY <2>1, <2>3
  <2>6. events'[i].kind = "sync_github" => ReadingSound(events[i])'
    BY <2>1, <2>4
  <2>7. QED
    BY <2>5, <2>6
<1>7. EventsSound'
  BY <1>6 DEF ProjectInv, EventsSound
<1>8. QED
  BY <1>1, <1>2, <1>3, <1>7 DEF ProjectInv, GraphSound

(* Nothing is read yet.                                                       *)
LEMMA PreflightKeeps ==
    ASSUME ProjectInv, NEW r \in Projects!Records, Projects!Preflight(r)
    PROVE  ProjectInv'
<1>1. /\ data' = data /\ version' = version /\ revision' = revision /\ history' = history
      /\ events' = events /\ project' = project /\ old' = old
      /\ data[r].leading # Nobody
      /\ sync' = [pc |-> "prepared", record |-> r, project |-> project, version |-> version[r],
                  leading |-> data[r].leading, seen |-> 0, target |-> 0, observed |-> "failed",
                  source |-> 0]
  BY DEF Projects!Preflight, Projects!recordVars
<1>2. data[r].leading \in Repositories
  <2>1. data[r] \in Projects!Fields
    BY DEF ProjectInv, RowsSound
  <2>2. data[r].leading \in Repositories \cup {Nobody}
    BY <2>1 DEF Projects!Fields
  <2>3. QED
    BY <1>1, <2>2
<1>3. version[data[r].leading] \in Nat \ {0}
  BY <1>2, ProjectConstants DEF ProjectInv, RowsSound
<1>4. SyncSound'
  BY <1>1, <1>2, <1>3 DEF SyncSound, ReadingSound
<1>5. QED
  BY <1>1, <1>4, NoSaveKeeps DEF ProjectInv, EventsSound

(* The repository is read with its version.                                   *)
LEMMA ReadRepositoryKeeps ==
    ASSUME ProjectInv, Projects!ReadRepository
    PROVE  ProjectInv'
<1>1. /\ data' = data /\ version' = version /\ revision' = revision /\ history' = history
      /\ events' = events /\ project' = project /\ old' = old /\ sync.pc = "prepared"
      /\ \/ sync' = [sync EXCEPT !.pc = "read", !.seen = version[sync.leading],
                                 !.target = data[sync.leading].target]
         \/ sync' = Projects!Idle
  BY DEF Projects!ReadRepository, Projects!recordVars, Projects!GiveUp
<1>2. CASE sync' = Projects!Idle
  <2>1. SyncSound'
    BY <1>2 DEF SyncSound, Projects!Idle
  <2>2. QED
    BY <1>1, <2>1, NoSaveKeeps DEF ProjectInv, EventsSound
<1>3. CASE sync' = [sync EXCEPT !.pc = "read", !.seen = version[sync.leading],
                                !.target = data[sync.leading].target]
  <2>1. /\ sync = [pc |-> sync.pc, record |-> sync.record, project |-> sync.project,
                   version |-> sync.version, leading |-> sync.leading, seen |-> sync.seen,
                   target |-> sync.target, observed |-> sync.observed, source |-> sync.source]
        /\ sync.record \in Projects!Records /\ sync.leading \in Repositories
    BY <1>1 DEF ProjectInv, SyncSound, ReadingSound
  <2>2. version[sync.leading] \in Nat
    BY <2>1, ProjectConstants DEF ProjectInv, RowsSound
  <2>3. sync' = [pc |-> "read", record |-> sync.record, project |-> sync.project,
                   version |-> sync.version, leading |-> sync.leading,
                   seen |-> version[sync.leading], target |-> data[sync.leading].target,
                   observed |-> sync.observed, source |-> sync.source]
    BY <1>3, <2>1
  <2>4. SyncSound'
    BY <1>1, <2>1, <2>2, <2>3 DEF SyncSound, ReadingSound
  <2>5. QED
    BY <1>1, <2>4, NoSaveKeeps DEF ProjectInv, EventsSound
<1>4. QED
  BY <1>1, <1>2, <1>3

(* What is observed of the issue changes nothing stored.                      *)
LEMMA ObserveKeeps ==
    ASSUME ProjectInv, Projects!Observe \/ Projects!SourceRead
    PROVE  ProjectInv'
<1>1. /\ data' = data /\ version' = version /\ revision' = revision /\ history' = history
      /\ events' = events /\ project' = project /\ old' = old /\ sync.pc \in {"read", "observed"}
      /\ \/ \E o \in {"open", "closed", "failed"} : sync' = [sync EXCEPT !.pc = "observed", !.observed = o]
         \/ sync' = [sync EXCEPT !.pc = "completing", !.source = project]
         \/ sync' = Projects!Idle
  <2>1. CASE Projects!Observe
    BY <2>1 DEF Projects!Observe, Projects!recordVars, Projects!GiveUp
  <2>2. CASE Projects!SourceRead
    BY <2>2 DEF Projects!SourceRead, Projects!recordVars
  <2>3. QED
    BY <2>1, <2>2
<1>2. /\ sync = [pc |-> sync.pc, record |-> sync.record, project |-> sync.project,
                 version |-> sync.version, leading |-> sync.leading, seen |-> sync.seen,
                 target |-> sync.target, observed |-> sync.observed, source |-> sync.source]
      /\ sync.record \in Projects!Records /\ ReadingSound(sync)
  BY <1>1 DEF ProjectInv, SyncSound
<1>3. SyncSound'
  <2>1. CASE sync' = Projects!Idle
    BY <2>1 DEF SyncSound, Projects!Idle
  <2>2. CASE \E o \in {"open", "closed", "failed"} : sync' = [sync EXCEPT !.pc = "observed", !.observed = o]
    <3>1. PICK o \in {"open", "closed", "failed"} : sync' = [sync EXCEPT !.pc = "observed", !.observed = o]
      BY <2>2
    <3>2. sync' = [pc |-> "observed", record |-> sync.record, project |-> sync.project,
                   version |-> sync.version, leading |-> sync.leading, seen |-> sync.seen,
                   target |-> sync.target, observed |-> o, source |-> sync.source]
      BY <1>2, <3>1
    <3>3. QED
      BY <1>1, <1>2, <3>2 DEF SyncSound, ReadingSound
  <2>3. CASE sync' = [sync EXCEPT !.pc = "completing", !.source = project]
    <3>1. sync' = [pc |-> "completing", record |-> sync.record, project |-> sync.project,
                   version |-> sync.version, leading |-> sync.leading, seen |-> sync.seen,
                   target |-> sync.target, observed |-> sync.observed, source |-> project]
      BY <1>2, <2>3
    <3>2. QED
      BY <1>1, <1>2, <3>1 DEF SyncSound, ReadingSound
  <2>4. QED
    BY <1>1, <2>1, <2>2, <2>3
<1>4. QED
  BY <1>1, <1>3, NoSaveKeeps DEF ProjectInv, EventsSound

(* The observation is stored with the version that it was read of.            *)
LEMMA CompleteKeeps ==
    ASSUME ProjectInv, Projects!Complete
    PROVE  ProjectInv'
<1>1. sync.pc = "completing" /\ sync' = Projects!Idle /\ old' = old
  BY DEF Projects!Complete, Projects!GiveUp
<1>2. sync.record \in Projects!Records /\ ReadingSound(sync)
  BY <1>1 DEF ProjectInv, SyncSound
<1>3. CASE data' = data /\ version' = version /\ revision' = revision /\ history' = history
           /\ events' = events /\ project' = project
  <2>1. SyncSound'
    BY <1>1 DEF SyncSound, Projects!Idle
  <2>2. QED
    BY <1>1, <1>3, <2>1, NoSaveKeeps DEF ProjectInv, EventsSound
<1>4. CASE /\ Projects!Save(sync.record, data[sync.record])
           /\ Projects!Tell([kind |-> "sync_github", record |-> sync.record, leading |-> sync.leading,
                             seen |-> sync.seen, target |-> sync.target, observed |-> sync.observed])
  <2>1. PICK e : e = [kind |-> "sync_github", record |-> sync.record, leading |-> sync.leading,
                      seen |-> sync.seen, target |-> sync.target, observed |-> sync.observed]
    OBVIOUS
  <2>2. PICK r \in Projects!Records : r = sync.record
    BY <1>2
  <2>3. /\ events' = Append(events, e) /\ e.kind = "sync_github" /\ e.leading = sync.leading
        /\ e.seen = sync.seen /\ e.target = sync.target
    BY <1>4, <2>1 DEF Projects!Tell
  <2>4. ReadingSound(e)
    BY <1>2, <2>3 DEF ReadingSound
  <2>5. Projects!Save(r, data[r])
    BY <1>4, <2>2
  <2>6. ReadingSound(e)'
    BY <2>4, <2>5, PlainSave, SaveKeepsReadings
  <2>7. PICK new : new = Len(events) + 1
    OBVIOUS
  <2>8. QED
    BY <1>1, <2>3, <2>5, <2>6, <2>7, TellingKeeps
<1>5. QED
  BY <1>3, <1>4 DEF Projects!Complete, Projects!recordVars

(* Time passes.                                                               *)
LEMMA AgeKeeps ==
    ASSUME ProjectInv, Projects!Age
    PROVE  ProjectInv'
<1>1. /\ data' = data /\ version' = version /\ revision' = revision /\ history' = history
      /\ events' = events /\ project' = project /\ old' = Len(events) /\ sync' = sync
  BY DEF Projects!Age, Projects!recordVars
<1>2. SyncSound'
  BY <1>1 DEF ProjectInv, SyncSound, ReadingSound
<1>3. old' \in 0..Len(events)
  BY <1>1 DEF ProjectInv, EventsSound
<1>4. QED
  BY <1>1, <1>2, <1>3, NoSaveKeeps

(* The invariant is inductive.                                                *)
LEMMA ProjectKeeps == ProjectInv /\ [Projects!Next]_projectVars => ProjectInv'
<1> SUFFICES ASSUME ProjectInv, [Projects!Next]_projectVars PROVE ProjectInv'
  OBVIOUS
<1>1. CASE Projects!Next
  BY <1>1, PatchKeeps, CommentKeeps, AssessKeeps, ReuseKeeps, PreflightKeeps, ReadRepositoryKeeps,
     ObserveKeeps, CompleteKeeps, AgeKeeps DEF Projects!Next
<1>2. CASE UNCHANGED projectVars
  <2>1. /\ data' = data /\ version' = version /\ revision' = revision /\ history' = history
        /\ events' = events /\ project' = project /\ old' = old /\ sync' = sync
    BY <1>2 DEF projectVars
  <2>2. SyncSound'
    BY <2>1 DEF ProjectInv, SyncSound, ReadingSound
  <2>3. QED
    BY <2>1, <2>2, NoSaveKeeps DEF ProjectInv, EventsSound
<1>3. QED
  BY <1>1, <1>2
-----------------------------------------------------------------------------
(* The project that a behaviour starts with.                                     *)
LEMMA InitialRecords ==
    ASSUME NEW u, NEW q, u = Projects!First(UseCases), q = Projects!First(Requirements)
    PROVE  /\ u \in UseCases /\ q \in Requirements
           /\ \A k \in Projects!Records : \E b :
                 /\ b = Projects!InitialData(k) /\ b \in Projects!Fields /\ Projects!WellFormed(b)
                 /\ b.parent \in {u, Nobody}
                 /\ k \in UseCases <=> b.type = "use_case"
                 /\ k \in Requirements <=> b.type = "requirement"
                 /\ k \in Tasks <=> b.type = "task"
                 /\ k \in Proofs <=> b.type = "evidence"
                 /\ k = q => b.criteria = Criteria
                 /\ b.relations \in {{}, {<<"implements", q>>}}
                 /\ b.relations # {} => k \in Tasks
                 /\ b.evidence # Nobody =>
                       b.evidence = [requirement |-> q, revision |-> 1, criteria |-> Criteria, passed |-> TRUE]
<1>1. u \in UseCases /\ q \in Requirements
  BY ProjectConstants DEF Projects!First
<1>2. \A k \in Projects!Records :
         Projects!InitialData(k) =
           IF k \in UseCases THEN Projects!Blank("use_case")
           ELSE IF k \in Requirements
           THEN IF k = q THEN [Projects!Blank("requirement") EXCEPT !.criteria = Criteria, !.parent = u]
                ELSE [Projects!Blank("requirement") EXCEPT !.parent = u]
           ELSE IF k \in Tasks THEN [Projects!Blank("task") EXCEPT !.relations = {<<"implements", q>>}]
           ELSE IF k \in Proofs
           THEN [Projects!Blank("evidence") EXCEPT !.evidence =
                    [requirement |-> q, revision |-> 1, criteria |-> Criteria, passed |-> TRUE]]
           ELSE Projects!Blank("repository")
  <2> TAKE k \in Projects!Records
  <2>1. CASE k \in UseCases
    BY <1>1, <2>1, ProjectConstants DEF Projects!InitialData
  <2>2. CASE k \in Requirements /\ k = q
    BY <1>1, <2>2, ProjectConstants DEF Projects!InitialData
  <2>3. CASE k \in Requirements /\ k # q
    BY <1>1, <2>3, ProjectConstants DEF Projects!InitialData
  <2>4. CASE k \in Tasks
    BY <1>1, <2>4, ProjectConstants DEF Projects!InitialData
  <2>5. CASE k \in Proofs
    BY <1>1, <2>5, ProjectConstants DEF Projects!InitialData
  <2>6. CASE k \in Repositories
    BY <1>1, <2>6, ProjectConstants DEF Projects!InitialData
  <2>7. QED
    BY <2>1, <2>2, <2>3, <2>4, <2>5, <2>6, ProjectConstants
<1>3. \A t \in Kinds : Projects!Blank(t) =
         [type |-> t, parent |-> Nobody, relations |-> {}, done |-> FALSE, mandatory |-> TRUE,
          wording |-> 1, reason |-> FALSE, criteria |-> {}, evidence |-> Nobody, leading |-> Nobody,
          target |-> 1]
  BY DEF Projects!Blank
<1>4. \A t \in Kinds : Projects!Blank(t) \in Projects!Fields
  <2> TAKE t \in Kinds
  <2>1. /\ t \in {"use_case", "requirement", "task", "evidence", "repository"}
        /\ Nobody \in UseCases \cup {Nobody} /\ Nobody \in Projects!Evidence \cup {Nobody}
        /\ Nobody \in Repositories \cup {Nobody}
        /\ {} \in SUBSET ({"implements", "depends_on"} \X (Requirements \cup Tasks))
        /\ {} \in SUBSET Criteria
    BY DEF Kinds
  <2>2. QED
    BY <2>1 DEF Projects!Blank, Projects!Fields
<1>5. ASSUME NEW k \in Projects!Records, NEW b, b = Projects!InitialData(k)
      PROVE  /\ b \in Projects!Fields /\ Projects!WellFormed(b)
             /\ b.parent \in {u, Nobody}
             /\ k \in UseCases <=> b.type = "use_case"
             /\ k \in Requirements <=> b.type = "requirement"
             /\ k \in Tasks <=> b.type = "task"
             /\ k \in Proofs <=> b.type = "evidence"
             /\ k = q => b.criteria = Criteria
             /\ b.relations \in {{}, {<<"implements", q>>}}
             /\ b.relations # {} => k \in Tasks
             /\ b.evidence # Nobody =>
                   b.evidence = [requirement |-> q, revision |-> 1, criteria |-> Criteria, passed |-> TRUE]
  <2>1. CASE k \in UseCases
    <3>1. b = Projects!Blank("use_case")
      BY <1>2, <1>5, <2>1
    <3>2. QED
      BY <1>1, <1>3, <1>4, <2>1, <3>1, ProjectConstants DEF Kinds, Projects!WellFormed
  <2>2. CASE k \in Requirements /\ k = q
    <3>1. b = [Projects!Blank("requirement") EXCEPT !.criteria = Criteria, !.parent = u]
      BY <1>2, <1>5, <2>2, ProjectConstants
    <3>2. b = [type |-> "requirement", parent |-> u, relations |-> {}, done |-> FALSE, mandatory |-> TRUE,
               wording |-> 1, reason |-> FALSE, criteria |-> Criteria, evidence |-> Nobody,
               leading |-> Nobody, target |-> 1]
      BY <3>1 DEF Projects!Blank
    <3>3. b \in Projects!Fields
      BY <1>1, <3>2 DEF Projects!Fields
    <3>4. QED
      BY <1>1, <2>2, <3>2, <3>3, ProjectConstants DEF Projects!WellFormed
  <2>3. CASE k \in Requirements /\ k # q
    <3>1. b = [Projects!Blank("requirement") EXCEPT !.parent = u]
      BY <1>2, <1>5, <2>3, ProjectConstants
    <3>2. b = [type |-> "requirement", parent |-> u, relations |-> {}, done |-> FALSE, mandatory |-> TRUE,
               wording |-> 1, reason |-> FALSE, criteria |-> {}, evidence |-> Nobody,
               leading |-> Nobody, target |-> 1]
      BY <3>1 DEF Projects!Blank
    <3>3. b \in Projects!Fields
      BY <1>1, <3>2 DEF Projects!Fields
    <3>4. QED
      BY <1>1, <2>3, <3>2, <3>3, ProjectConstants DEF Projects!WellFormed
  <2>4. CASE k \in Tasks
    <3>1. b = [Projects!Blank("task") EXCEPT !.relations = {<<"implements", q>>}]
      BY <1>2, <1>5, <2>4, ProjectConstants
    <3>2. b = [type |-> "task", parent |-> Nobody, relations |-> {<<"implements", q>>}, done |-> FALSE,
               mandatory |-> TRUE, wording |-> 1, reason |-> FALSE, criteria |-> {}, evidence |-> Nobody,
               leading |-> Nobody, target |-> 1]
      BY <3>1 DEF Projects!Blank
    <3>3. b \in Projects!Fields
      BY <1>1, <3>2 DEF Projects!Fields
    <3>4. QED
      BY <1>1, <2>4, <3>2, <3>3, ProjectConstants DEF Projects!WellFormed
  <2>5. CASE k \in Proofs
    <3>1. b = [Projects!Blank("evidence") EXCEPT !.evidence =
                  [requirement |-> q, revision |-> 1, criteria |-> Criteria, passed |-> TRUE]]
      BY <1>2, <1>5, <2>5, ProjectConstants
    <3>2. b = [type |-> "evidence", parent |-> Nobody, relations |-> {}, done |-> FALSE,
               mandatory |-> TRUE, wording |-> 1, reason |-> FALSE, criteria |-> {},
               evidence |-> [requirement |-> q, revision |-> 1, criteria |-> Criteria, passed |-> TRUE],
               leading |-> Nobody, target |-> 1]
      BY <3>1 DEF Projects!Blank
    <3>3. [requirement |-> q, revision |-> 1, criteria |-> Criteria, passed |-> TRUE] \in Projects!Evidence
      BY <1>1 DEF Projects!Evidence
    <3>4. b \in Projects!Fields
      BY <3>2, <3>3 DEF Projects!Fields
    <3>5. b.evidence # Nobody
      BY <3>2, <3>3, ProjectConstants
    <3>6. QED
      BY <1>1, <2>5, <3>2, <3>4, <3>5, ProjectConstants DEF Projects!WellFormed
  <2>6. CASE k \in Repositories
    <3>1. b = Projects!Blank("repository")
      BY <1>2, <1>5, <2>6, ProjectConstants
    <3>2. QED
      BY <1>1, <1>3, <1>4, <2>6, <3>1, ProjectConstants DEF Kinds, Projects!WellFormed
  <2>7. QED
    BY <2>1, <2>2, <2>3, <2>4, <2>5, <2>6, ProjectConstants
<1>6. \A k \in Projects!Records : \E b : b = Projects!InitialData(k)
  OBVIOUS
<1>7. QED
  BY <1>1, <1>5, <1>6

(* The first versions of all records are sound.                               *)
LEMMA ProjectStarts == Projects!Init => ProjectInv
<1> SUFFICES ASSUME Projects!Init PROVE ProjectInv
  OBVIOUS
<1> PICK u, q : u = Projects!First(UseCases) /\ q = Projects!First(Requirements)
  OBVIOUS
<1>1. /\ data = [k \in Projects!Records |-> Projects!InitialData(k)]
      /\ version = [k \in Projects!Records |-> 1] /\ revision = [k \in Projects!Records |-> 1]
      /\ history = [k \in Projects!Records |-> <<LastVersion(data[k])>>]
      /\ events = <<>> /\ old = 0 /\ project = 1 /\ sync.pc = "idle"
  BY DEF Projects!Init, LastVersion, Projects!Idle
<1>2. /\ u \in UseCases /\ q \in Requirements
      /\ \A k \in Projects!Records :
            /\ data[k] \in Projects!Fields /\ Projects!WellFormed(data[k])
            /\ data[k].parent \in {u, Nobody}
            /\ k \in UseCases <=> data[k].type = "use_case"
            /\ k \in Requirements <=> data[k].type = "requirement"
            /\ k \in Tasks <=> data[k].type = "task"
            /\ k \in Proofs <=> data[k].type = "evidence"
            /\ k = q => data[k].criteria = Criteria
            /\ data[k].relations \in {{}, {<<"implements", q>>}}
            /\ data[k].relations # {} => k \in Tasks
            /\ data[k].evidence # Nobody =>
                  data[k].evidence = [requirement |-> q, revision |-> 1, criteria |-> Criteria, passed |-> TRUE]
  BY <1>1, InitialRecords
<1>3. RowsSound
  <2>1. data \in [Projects!Records -> Projects!Fields]
    BY <1>1, <1>2
  <2>2. \A k \in Projects!Records : version[k] \in 1..project /\ revision[k] \in 1..version[k]
    BY <1>1
  <2>3. \A p \in Proofs : data[p].type = "evidence"
    BY <1>2, ProjectConstants
  <2>4. project \in 1..(MaxSaves + 1)
    BY <1>1, ProjectConstants
  <2>5. version \in [Projects!Records -> Nat] /\ revision \in [Projects!Records -> Nat]
    BY <1>1
  <2>6. QED
    BY <2>1, <2>2, <2>3, <2>4, <2>5 DEF RowsSound
<1>4. \A k \in Projects!Records : /\ history[k] \in Seq(Versioned) /\ Len(history[k]) = 1
                                  /\ history[k][1] = LastVersion(data[k]) /\ Projects!Replay(k)[1] = 1
  <2> TAKE k \in Projects!Records
  <2>1. history[k] = <<LastVersion(data[k])>>
    BY <1>1
  <2>2. LastVersion(data[k]) \in Versioned
    BY <1>2 DEF LastVersion, Versioned, Projects!Content, Projects!Fields, Kinds
  <2>3. history[k] \in Seq(Versioned) /\ Len(history[k]) = 1 /\ history[k][1] = LastVersion(data[k])
    BY <2>1, <2>2
  <2>4. Projects!Renewals(k, 1) = {}
    BY DEF Projects!Renewals
  <2>5. Projects!Replay(k)[1] = 1 + Cardinality(Projects!Renewals(k, 1))
    BY <2>3, ProjectCardinality DEF Projects!Replay
  <2>6. Cardinality({}) = 0
    BY FS_EmptySet
  <2>7. Cardinality(Projects!Renewals(k, 1)) = 0
    BY <2>4, <2>6
  <2>8. Projects!Replay(k)[1] = 1
    BY <2>5, <2>7
  <2>9. QED
    BY <2>3, <2>8
<1>5. HistorySound
  BY <1>1, <1>4 DEF HistorySound
<1>6. Graph(data)
  <2>1. \A k \in Projects!Records : \A edge \in data[k].relations :
            edge = <<"implements", q>> /\ k \in Tasks
    BY <1>2
  <2>2. q \in Projects!Records /\ data[q].type = "requirement" /\ u \in Projects!Records
        /\ data[u].type = "use_case" /\ q \notin Tasks
    BY <1>2, ProjectConstants
  <2>3. \A k \in Projects!Records : \A edge \in data[k].relations : Projects!Endpoints(data, k, edge)
    <3> TAKE k \in Projects!Records
    <3> TAKE edge \in data[k].relations
    <3>1. edge[1] = "implements" /\ edge[2] = q /\ k \in Tasks
      BY <2>1
    <3>2. data[k].type = "task" /\ q # k
      BY <1>2, <2>2, <3>1
    <3>3. QED
      BY <2>2, <3>1, <3>2 DEF Projects!Endpoints
  <2>4. \A k \in Projects!Records : data[k].parent # Nobody => data[data[k].parent].type = "use_case"
    BY <1>2, <2>2
  <2>5. \A k \in Projects!Records :
            data[k].evidence # Nobody => data[data[k].evidence.requirement].type = "requirement"
    BY <1>2, <2>2
  <2>6. Projects!Acyclic(data)
    <3>1. SUFFICES ASSUME NEW S \in (SUBSET {k \in Projects!Records : data[k].relations # {}}) \ {{}}
                   PROVE  \E k \in S : \A edge \in data[k].relations : edge[1] = "depends_on" => edge[2] \notin S
      BY DEF Projects!Acyclic
    <3>2. PICK k \in S : k \in Projects!Records
      OBVIOUS
    <3>3. \A edge \in data[k].relations : edge[1] # "depends_on"
      BY <2>1, <3>2
    <3>4. QED
      BY <3>2, <3>3
  <2>7. QED
    BY <2>3, <2>4, <2>5, <2>6 DEF Graph
<1>7. \A k \in Projects!Records : Provable(data[k].evidence)
  <2> TAKE k \in Projects!Records
  <2>1. CASE data[k].evidence = Nobody
    BY <2>1 DEF Provable
  <2>2. CASE data[k].evidence # Nobody
    <3>1. /\ data[k].evidence.requirement = q /\ data[k].evidence.revision = 1
          /\ data[k].evidence.criteria = Criteria
      BY <1>2, <2>2
    <3>2. q \in Projects!Records /\ revision[q] = 1
      BY <1>1, <1>2, ProjectConstants
    <3>3. Named(q, 1) = {1}
      <4>1. Len(history[q]) = 1 /\ history[q][1].type = "requirement" /\ Projects!Replay(q)[1] = 1
        <5>1. LastVersion(data[q]).type = data[q].type
          BY DEF LastVersion
        <5>2. QED
          BY <1>2, <1>4, <3>2, <5>1
      <4>2. QED
        BY <4>1 DEF Named
    <3>4. Projects!Min(Named(q, 1)) = 1
      BY <3>3, MinIsFirst
    <3>5. Projects!CriteriaAt(q, 1) = history[q][1].content.criteria
      BY <3>3, <3>4 DEF Projects!CriteriaAt, Named
    <3>6. history[q][1].content.criteria = data[q].criteria
      <4>1. LastVersion(data[q]).content.criteria = data[q].criteria
        BY DEF LastVersion, Projects!Content
      <4>2. QED
        BY <1>4, <3>2, <4>1
    <3>7. data[q].criteria = Criteria
      BY <1>2, <3>2
    <3>8. QED
      BY <3>1, <3>2, <3>5, <3>6, <3>7 DEF Provable
  <2>3. QED
    BY <2>1, <2>2
<1>8. GraphSound
  BY <1>2, <1>6, <1>7, ValidParts DEF GraphSound
<1>9. EventsSound /\ SyncSound
  <2>1. events \in Seq({})
    BY <1>1
  <2>2. QED
    BY <1>1, <2>1 DEF EventsSound, SyncSound
<1>10. QED
  BY <1>3, <1>5, <1>8, <1>9 DEF ProjectInv
-----------------------------------------------------------------------------
(* What the invariant says of the properties.                                    *)
LEMMA ProjectTyped == ProjectInv => Projects!TypeOK
<1> SUFFICES ASSUME ProjectInv PROVE Projects!TypeOK
  OBVIOUS
<1>1. /\ data \in [Projects!Records -> Projects!Fields] /\ project \in 1..(MaxSaves + 1)
      /\ version \in [Projects!Records -> Nat] /\ revision \in [Projects!Records -> Nat]
      /\ \A k \in Projects!Records : version[k] \in 1..project /\ revision[k] \in 1..version[k]
  BY DEF ProjectInv, RowsSound
<1>2. MaxSaves \in Nat
  BY ProjectConstants
<1>3. \A k \in Projects!Records : version[k] \in 1..(MaxSaves + 1) /\ revision[k] \in 1..(MaxSaves + 1)
  <2> TAKE k \in Projects!Records
  <2>1. version[k] \in 1..project /\ revision[k] \in 1..version[k]
    BY <1>1
  <2>2. QED
    BY <1>1, <1>2, <2>1
<1>4. /\ version \in [Projects!Records -> 1..(MaxSaves + 1)]
      /\ revision \in [Projects!Records -> 1..(MaxSaves + 1)]
  BY <1>1, <1>3
<1>5. old \in 0..Len(events) /\ \A k \in Projects!Records : Projects!Valid(data, k) /\ Len(history[k]) = version[k]
  BY DEF ProjectInv, EventsSound, GraphSound, HistorySound
<1>6. QED
  BY <1>1, <1>4, <1>5 DEF Projects!TypeOK

(* A review that is current is on a basis that is the present one, and all that it      *)
(* waits for is accepted and current: otherwise what hangs together would be stuck.    *)
LEMMA CurrentIsBased ==
    ASSUME NEW r \in Projects!ReviewCurrent
    PROVE  /\ r \in Projects!Records /\ Projects!Based(r)
           /\ \A k \in Projects!WaitsFor(r) : Projects!Accepted(k) /\ k \in Projects!ReviewCurrent
<1> DEFINE Stuck(S, B) == \A m \in S : \E k \in Projects!WaitsFor(m) : ~Projects!Accepted(k) \/ k \notin B \ S
<1> PICK B : B = {m \in Projects!Records : Projects!Based(m)}
  OBVIOUS
<1>1. Projects!ReviewCurrent = B \ UNION {S \in SUBSET B : Stuck(S, B)}
  BY DEF Projects!ReviewCurrent
<1>2. r \in B /\ \A S \in SUBSET B : Stuck(S, B) => r \notin S
  BY <1>1
<1>3. ASSUME NEW k \in Projects!WaitsFor(r)
      PROVE  Projects!Accepted(k) /\ k \in Projects!ReviewCurrent
  <2>1. Projects!Accepted(k) /\ k \in B
    <3>1. ASSUME ~(Projects!Accepted(k) /\ k \in B) PROVE FALSE
      <4>1. Stuck({r}, B)
        BY <3>1
      <4>2. {r} \in SUBSET B
        BY <1>2
      <4>3. QED
        BY <1>2, <4>1, <4>2
    <3>2. QED
      BY <3>1
  <2>2. ASSUME NEW S \in SUBSET B, Stuck(S, B), k \in S PROVE FALSE
    <3>1. Stuck(S \cup {r}, B)
      <4>1. \A m \in S : \E n \in Projects!WaitsFor(m) : ~Projects!Accepted(n) \/ n \notin B \ (S \cup {r})
        BY <2>2
      <4>2. k \notin B \ (S \cup {r})
        BY <2>2
      <4>3. QED
        BY <4>1, <4>2
    <3>2. S \cup {r} \in SUBSET B
      BY <1>2
    <3>3. QED
      BY <1>2, <3>1, <3>2
  <2>3. k \in Projects!ReviewCurrent
    BY <1>1, <2>1, <2>2
  <2>4. QED
    BY <2>1, <2>3
<1>4. QED
  BY <1>2, <1>3

(* What the invariant says of a review, said of one that is current.          *)
LEMMA ReviewsHoldFollows == ProjectInv => Projects!ReviewsHold
<1> SUFFICES ASSUME ProjectInv PROVE Projects!ReviewsHold
  OBVIOUS
<1>1. Projects!HistoryNamesRevisions
  BY DEF ProjectInv, HistorySound, Projects!HistoryNamesRevisions
<1>2. ASSUME NEW r \in Projects!ReviewCurrent, NEW i, i = Projects!LastReview(r), NEW e, e = events[i]
      PROVE  /\ r \in Projects!Records /\ i \in 1..Len(events) /\ e.record = r /\ e.revision = revision[r]
             /\ ReviewSound(e, i) /\ e.basis = Projects!Basis(r) /\ ProofsUnchanged(e)
  <2>1. /\ r \in Projects!Records /\ i # 0 /\ e.basis = Projects!Basis(r)
        /\ \A q \in e.proofs : version[q[1]] = q[2]
    BY <1>2, CurrentIsBased DEF Projects!Based
  <2>2. /\ i \in 1..Len(events) /\ e.kind = "assess" /\ e.record = r /\ e.revision = revision[r]
    BY <1>2, <2>1, ReviewsAreEvents
  <2>3. ReviewSound(e, i)
    BY <1>2, <2>2 DEF ProjectInv, EventsSound
  <2>4. QED
    BY <2>1, <2>2, <2>3 DEF ProofsUnchanged
<1>3. Projects!CurrentReviewsAreOfThisContent
  <2>1. SUFFICES ASSUME NEW r \in Projects!ReviewCurrent, NEW i, i = Projects!LastReview(r)
                 PROVE  \/ history[r][events[i].version].content = Projects!Content(data[r])
                        \/ \E n \in events[i].version..version[r] : history[r][n].type # "requirement"
    BY DEF Projects!CurrentReviewsAreOfThisContent
  <2>2. PICK e : e = events[i]
    OBVIOUS
  <2>3. e.record = r /\ SameContent(e)
    BY <1>2, <2>1, <2>2 DEF ReviewSound
  <2>4. QED
    BY <2>2, <2>3 DEF SameContent
<1>4. Projects!CurrentReviewsHold
  <2>1. SUFFICES ASSUME NEW r \in Projects!ReviewCurrent, NEW i, i = Projects!LastReview(r),
                        NEW e, e = events[i],
                        NEW now, now = Projects!Outstanding(r, Projects!ReviewProofs(i))
                 PROVE  /\ now.missing = e.outstanding.missing /\ now.open = e.outstanding.open
                        /\ now.unaccepted \subseteq e.outstanding.unaccepted
                        /\ \A k \in e.outstanding.unaccepted \ now.unaccepted : Projects!LastReview(k) < i
    BY DEF Projects!CurrentReviewsHold
  <2>2. /\ r \in Projects!Records /\ i \in 1..Len(events) /\ e.record = r /\ e.revision = revision[r]
        /\ ReviewSound(e, i) /\ e.basis = Projects!Basis(r) /\ ProofsUnchanged(e)
    BY <1>2, <2>1
  <2> PICK P : P = {q[1] : q \in e.proofs}
    OBVIOUS
  <2> PICK basis : basis = e.basis
    OBVIOUS
  <2>3. Projects!ReviewProofs(i) = P
    BY <2>1, <2>2 DEF Projects!ReviewProofs
  <2>4. /\ now.missing = data[r].criteria
              \ UNION {data[p].evidence.criteria : p \in {p \in P : data[p].evidence.passed}}
        /\ now.open = {k \in DOMAIN basis \ {r} :
                 basis[k].mandatory /\ basis[k].type = "task" /\ basis[k].status # "done"}
        /\ \A k : k \in now.unaccepted <=>
                 /\ k \in Projects!Scope(r) \ {r} /\ data[k].mandatory /\ Projects!Reviewable(data[k])
                 /\ ~(Projects!Accepted(k) /\ k \in Projects!ReviewCurrent)
    BY <2>1, <2>2, <2>3, OutstandingTells
  <2>5. now.missing = e.outstanding.missing
    BY <2>2, <2>4 DEF ReviewSound, Missing
  <2>6. now.open = e.outstanding.open
    BY <2>2, <2>4 DEF ReviewSound
  <2>7. \A k \in now.unaccepted : k \in e.outstanding.unaccepted
    <3>1. SUFFICES ASSUME NEW k \in now.unaccepted, k \notin e.outstanding.unaccepted PROVE FALSE
      OBVIOUS
    <3>2. k \in Projects!WaitsFor(r)
      BY <2>1, <2>4, <3>1 DEF Projects!WaitsFor
    <3>3. QED
      BY <2>4, <3>2, CurrentIsBased
  <2>8. \A k \in e.outstanding.unaccepted : Projects!LastReview(k) < i
    <3> TAKE k \in e.outstanding.unaccepted
    <3>1. /\ k \in DOMAIN basis \ {r} /\ basis[k].type \in {"requirement", "use_case"}
          /\ basis[k].review \in Nat /\ basis[k].review < i
      BY <2>2 DEF ReviewSound
    <3>2. basis[k].type = data[k].type
          /\ (Projects!Reviewable(data[k]) => basis[k].review = Projects!LastAnyReview(k))
      <4>1. basis = Projects!Basis(r)
        BY <2>2
      <4>2. QED
        BY <3>1, <4>1, BasisTells
    <3>3. basis[k].review = Projects!LastAnyReview(k)
      BY <3>1, <3>2 DEF Projects!Reviewable
    <3>4. /\ Len(events) \in Nat /\ Projects!LastReview(k) <= Projects!LastAnyReview(k)
          /\ Projects!LastReview(k) \in 0..Len(events) /\ Projects!LastAnyReview(k) \in 0..Len(events)
      BY ReviewsAreEvents
    <3>5. QED
      BY <2>2, <3>1, <3>3, <3>4
  <2>9. QED
    BY <2>5, <2>6, <2>7, <2>8
<1>5. QED
  BY <1>1, <1>3, <1>4 DEF Projects!ReviewsHold

(* What counts as fresh was read of the repository as it is stored.                *)
LEMMA StatusWasObservedFollows == ProjectInv => Projects!StatusWasObserved
<1> SUFFICES ASSUME ProjectInv, NEW r \in Projects!Records, data[r].leading # Nobody,
                    Projects!WorkStatus(r) # "unknown"
             PROVE  events[Projects!LastSync(r)].target = data[data[r].leading].target
  BY DEF Projects!StatusWasObserved
<1> PICK i : i = Projects!LastSync(r)
  OBVIOUS
<1>1. Projects!Fresh(r)
  BY DEF Projects!WorkStatus
<1>2. i > old /\ events[i].leading = data[r].leading /\ events[i].seen = version[data[r].leading]
  BY <1>1 DEF Projects!Fresh
<1>3. Len(events) \in Nat /\ old \in 0..Len(events)
  BY DEF ProjectInv, EventsSound
<1>4. PICK S : S = {j \in 1..Len(events) : events[j].kind = "sync_github" /\ events[j].record = r}
  OBVIOUS
<1>5. i = Projects!Latest(S) /\ S \subseteq 1..Len(events)
  BY <1>4 DEF Projects!LastSync
<1>6. i \in S \cup {0}
  <2>1. S \subseteq 1..Len(events) /\ Len(events) \in Nat
    BY <1>3, <1>5
  <2>2. Projects!Latest(S) \in S \cup {0}
    BY <2>1, LatestIsLast
  <2>3. QED
    BY <1>5, <2>2
<1>7. i \in S
  BY <1>2, <1>3, <1>6
<1>8. i \in 1..Len(events) /\ events[i].kind = "sync_github"
  BY <1>4, <1>7
<1>9. ReadingSound(events[i])
  BY <1>8 DEF ProjectInv, EventsSound
<1>10. QED
  BY <1>2, <1>9 DEF ReadingSound
-----------------------------------------------------------------------------
(* Each part keeps the invariant of its component.                              *)
PartInv ==
    /\ part = "commands" => IInv
    /\ part \in {"reviews", "syncs"} => ProjectInv
    /\ part = "legacy" => LegacyInv

(* Every part starts in its invariant,                                        *)
LEMMA PartsStart == MCInit => PartInv
<1> SUFFICES ASSUME MCInit PROVE PartInv
  OBVIOUS
<1>1. CASE part = "commands" /\ Init
  BY <1>1, InitHolds DEF PartInv
<1>2. CASE part \in {"reviews", "syncs"} /\ Projects!Init
  BY <1>2, ProjectStarts DEF PartInv
<1>3. CASE part = "legacy" /\ Legacy!Init
  BY <1>3, LegacyStarts DEF PartInv
<1>4. QED
  BY <1>1, <1>2, <1>3 DEF MCInit

(* rests in it,                                                               *)
LEMMA LegacyStutters == LegacyInv /\ UNCHANGED legacyVars => LegacyInv'
  BY DEF LegacyInv, legacyVars, Sources, Legacy!Occurrences

(* keeps it,                                                                  *)
LEMMA PartsKeep == PartInv /\ [MCNext]_allVars => PartInv'
<1> SUFFICES ASSUME PartInv, [MCNext]_allVars PROVE PartInv'
  OBVIOUS
<1>1. part' = part
  BY DEF MCNext, allVars
<1>2. CASE part = "commands"
  <2>1. IInv
    BY <1>2 DEF PartInv
  <2>2. [Next]_vars
    BY <1>2 DEF MCNext, allVars
  <2>3. IInv'
    BY <2>1, <2>2, NextKeeps
  <2>4. QED
    BY <1>1, <1>2, <2>3 DEF PartInv
<1>3. CASE part \in {"reviews", "syncs"}
  <2>1. ProjectInv
    BY <1>3 DEF PartInv
  <2>2. [Projects!Next]_projectVars
    BY <1>3 DEF MCNext, allVars
  <2>3. ProjectInv'
    BY <2>1, <2>2, ProjectKeeps
  <2>4. QED
    BY <1>1, <1>3, <2>3 DEF PartInv
<1>4. CASE part = "legacy"
  <2>1. LegacyInv
    BY <1>4 DEF PartInv
  <2>2. Legacy!Next \/ UNCHANGED legacyVars
    BY <1>4 DEF MCNext, allVars
  <2>3. LegacyInv'
    BY <2>1, <2>2, LegacyKeeps, LegacyStutters
  <2>4. QED
    BY <1>1, <1>4, <2>3 DEF PartInv
<1>5. CASE part \notin {"commands", "reviews", "syncs", "legacy"}
  BY <1>1, <1>5 DEF PartInv
<1>6. QED
  BY <1>2, <1>3, <1>4, <1>5

(* and always has it.                                                         *)
LEMMA PartsAlways == MCSpec => []PartInv
<1>1. QED
  BY PartsStart, PartsKeep, PTL DEF MCSpec

(* The records of a project stay a valid graph whose history counts the revisions    *)
(* that evidence is held to; a review that is shown as current says what is missing   *)
(* and open now, of the content that is shown; no entry of a text list is adopted      *)
(* twice; and the rows of the commands keep their form (save_record, validate_record,  *)
(* _review_current, _assessment, _legacy_match).                               *)
THEOREM RecordsAreSound == MCSpec => []RecordsStaySound
<1>1. PartInv => RecordsStaySound
  <2> SUFFICES ASSUME PartInv PROVE RecordsStaySound
    OBVIOUS
  <2>1. part = "commands" => TypeOK
    BY DEF PartInv, IInv
  <2>2. part \in {"reviews", "syncs"} => Projects!TypeOK /\ Projects!ReviewsHold
    BY ProjectTyped, ReviewsHoldFollows DEF PartInv
  <2>3. part = "legacy" => Legacy!TypeOK /\ Legacy!AdoptedOnce
    BY AdoptedOnceFollows DEF PartInv
  <2>4. QED
    BY <2>1, <2>2, <2>3 DEF RecordsStaySound
<1>2. QED
  BY <1>1, PartsAlways, PTL

(* A status that GitHub leads is what was observed of the issue in the repository    *)
(* that leads now, whatever is saved between the reads of a sync and its write        *)
(* (sync_github, _external_for).                                              *)
THEOREM StatusesWereObserved == MCSpec => []StatusWasObserved
<1>1. PartInv => StatusWasObserved
  BY StatusWasObservedFollows DEF PartInv, StatusWasObserved
<1>2. QED
  BY <1>1, PartsAlways, PTL
=============================================================================
