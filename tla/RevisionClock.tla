---------------------------- MODULE RevisionClock ----------------------------
(***************************************************************************)
(* Catalog object revisions, the "rev-N" ETags built from them and the      *)
(* per-ID clock that the database triggers keep across delete and           *)
(* re-create (models/revision_clock.py), together with every way the        *)
(* services write a catalog_objects row: compare-and-swap commands,         *)
(* unconditional bumps, delayed ORM flushes that hold an old snapshot,      *)
(* imports, deletes and direct SQL.                                         *)
(*                                                                         *)
(* One action is what one transaction commits on a row, with the triggers:   *)
(* one statement, or the two that AttachUnassigned makes.  SQLite runs it in *)
(* its serialized writer transaction, PostgreSQL under the row lock and the  *)
(* clock UPSERT, so transactions on a row are ordered.                      *)
(***************************************************************************)
EXTENDS Naturals

CONSTANTS Ids,        \* object IDs
          Revisions,  \* revision numbers; a statement that would leave them is not taken
          Instances,  \* instance_id values (uuid4): every INSERT takes an unused one
          Contents,   \* all other columns of a row, as one value
          Unassigned, \* those in which the object is explicitly unassigned
          Absent,     \* no row
          NoAnswer    \* no command has answered yet

ASSUME RevisionsAssumption == Revisions \subseteq Nat \ {0}
ASSUME UnassignedAssumption == Unassigned \subseteq Contents
ASSUME AbsentAssumption ==
    LET reps == [instance: Instances, content: Contents]
    IN  /\ Absent \notin [revision: Revisions, representation: reps]
        /\ Absent \notin [id: Ids, revision: Revisions, representation: reps]

VARIABLES dialect,    \* the database in use
          rows,       \* Ids -> the stored row, or Absent
          clock,      \* object_revision_clocks: Ids -> revision, 0 where there is no clock row
          published,  \* history: every token a reader could have been given
          answer      \* the token in the latest command response

vars == <<dialect, rows, clock, published, answer>>

Dialects == {"sqlite", "postgresql"}

Representations == [instance: Instances, content: Contents]

Row == [revision: Revisions, representation: Representations]

Tokens == [id: Ids, revision: Revisions, representation: Representations]

TypeOK ==
    /\ dialect \in Dialects
    /\ rows \in [Ids -> Row \cup {Absent}]
    /\ clock \in [Ids -> Revisions \cup {0}]
    /\ published \subseteq Tokens
    /\ answer \in Tokens \cup {NoAnswer}

Live(i) == rows[i] # Absent

Token(i, row) ==
    [id |-> i, revision |-> row.revision, representation |-> row.representation]

Larger(m, n) == IF m < n THEN n ELSE m

-----------------------------------------------------------------------------
(* The triggers.                                                            *)

(* Seeded fault: the insert trigger forgets to step past the retained clock. *)
InsertReusesClock(i, n) == IF clock[i] = 0 THEN n ELSE Larger(clock[i], n)

(* catalog_revision_allocate, and the INSERT branch of the PostgreSQL       *)
(* function: the clock row is created at the inserted revision or moved     *)
(* strictly up, and the new row takes the clock.                            *)
ClockAfterInsert(i, n) ==
    IF clock[i] = 0 THEN n ELSE Larger(clock[i] + 1, n)

(* The revision an UPDATE asks for, corrected when it does not advance a     *)
(* row it changes.  SQLite compares the columns one by one, PostgreSQL the   *)
(* two records.                                                             *)
SqliteCorrected(i, j, old, new) ==
    IF /\ new.revision <= old.revision
       /\ \/ new.revision < old.revision
          \/ <<j, new.representation>> # <<i, old.representation>>
    THEN old.revision + 1
    ELSE new.revision

PostgresCorrected(i, j, old, new) ==
    IF new.revision <= old.revision /\ <<j, new>> # <<i, old>>
    THEN old.revision + 1
    ELSE new.revision

(* Seeded fault: only lowered revisions are corrected, equal ones are not.   *)
CorrectsOnlyLowered(i, j, old, new) ==
    IF new.revision < old.revision THEN old.revision + 1 ELSE new.revision

Corrected(i, j, old, new) ==
    IF dialect = "sqlite" THEN SqliteCorrected(i, j, old, new)
                          ELSE PostgresCorrected(i, j, old, new)

(* The clock of the (possibly new) ID j after an UPDATE of the row at i.     *)
ClockAfterUpdate(i, j, old, new) ==
    LET asked == Corrected(i, j, old, new)
        floor == clock[j] + (IF i # j THEN 1 ELSE 0)
    IN  IF clock[j] = 0 THEN asked ELSE Larger(floor, asked)

(* Seeded fault: the trigger advances the clock but leaves the row alone.    *)
RowKeepsAskedRevision(i, j, old, new) == new.revision

(* SQLite raises the row only when it is below the clock; PostgreSQL writes  *)
(* the clock value into NEW before the row is stored.                        *)
RevisionAfterUpdate(i, j, old, new) ==
    LET allocated == ClockAfterUpdate(i, j, old, new)
    IN  IF dialect = "sqlite" /\ new.revision >= allocated
        THEN new.revision
        ELSE allocated

(* catalog_revision_retain: the clock outlives the row.                      *)
ClockAfterDelete(i) == Larger(clock[i], rows[i].revision)

-----------------------------------------------------------------------------
(* The row statements with their trigger.                                   *)

Publishes(i, row) == published' = published \cup {Token(i, row)}

InsertRow(i, n, r) ==
    LET row == [revision |-> ClockAfterInsert(i, n), representation |-> r]
    IN  /\ ~Live(i)
        /\ row.revision \in Revisions
        /\ rows' = [rows EXCEPT ![i] = row]
        /\ clock' = [clock EXCEPT ![i] = row.revision]
        /\ Publishes(i, row)

UpdateRow(i, j, n, r) ==
    LET asked == [revision |-> n, representation |-> r]
        row == [revision |-> RevisionAfterUpdate(i, j, rows[i], asked), representation |-> r]
    IN  /\ Live(i)
        /\ i = j \/ ~Live(j)
        /\ row.revision \in Revisions
        /\ rows' = [rows EXCEPT ![i] = Absent, ![j] = row]
        /\ clock' = [clock EXCEPT ![j] = ClockAfterUpdate(i, j, rows[i], asked)]
        /\ Publishes(j, row)

(* Seeded fault: the clock row goes with the object, as a cascading foreign  *)
(* key would have it.                                                        *)
DeleteCascades(i) ==
    /\ Live(i)
    /\ rows' = [rows EXCEPT ![i] = Absent]
    /\ clock' = [clock EXCEPT ![i] = 0]
    /\ UNCHANGED published

(* Seeded fault: the clock is rebuilt from the objects that are left.        *)
DeleteRebuildsClock(i) ==
    /\ Live(i)
    /\ rows' = [rows EXCEPT ![i] = Absent]
    /\ clock' = [j \in {k \in Ids : Live(k)} \ {i} |-> clock[j]]
    /\ UNCHANGED published

DeleteRow(i) ==
    /\ Live(i)
    /\ rows' = [rows EXCEPT ![i] = Absent]
    /\ clock' = [clock EXCEPT ![i] = ClockAfterDelete(i)]
    /\ UNCHANGED published

IsUnassigned(i) == rows[i].representation.content \in Unassigned

-----------------------------------------------------------------------------
(* What the services do with the row.                                       *)

UnusedInstances == Instances \ {t.representation.instance : t \in published}

(* Seeded fault: the response carries the revision that was asked for, without *)
(* the refresh.                                                             *)
CreateAnswersAsked(i, n, c) ==
    \E id \in UnusedInstances :
        LET r == [instance |-> id, content |-> c]
        IN  /\ InsertRow(i, n, r)
            /\ answer' = Token(i, [revision |-> n, representation |-> r])

(* Create an object.  The ORM inserts revision 1 and refreshes the row, so   *)
(* the response carries the stored revision; an import may insert any n.     *)
CreateObject(i, n, c) ==
    /\ ~Live(i)
    /\ \E id \in UnusedInstances :
           /\ InsertRow(i, n, [instance |-> id, content |-> c])
           /\ answer' = Token(i, rows'[i])

(* Full update with If-Match t: UPDATE ... WHERE revision = t.revision, then *)
(* a refresh.  A token that is not current matches no row: 412, no step.     *)
UpdateObject(t, c) ==
    LET i == t.id
    IN  /\ Live(i)
        /\ rows[i].revision = t.revision
        /\ UpdateRow(i, i, rows[i].revision + 1, [rows[i].representation EXCEPT !.content = c])
        /\ answer' = Token(i, rows'[i])

(* Seeded fault: after the claim the ORM row, assigned the new revision as a  *)
(* plain attribute, is flushed once more (docs/object-concurrency.md).        *)
ClaimThenFlush(t, c) ==
    LET i == t.id
        r == [rows[i].representation EXCEPT !.content = c]
    IN  /\ Live(i)
        /\ rows[i].revision = t.revision
        /\ IsUnassigned(i) <=> c \in Unassigned
        /\ UpdateRow(i, i, rows[i].revision + 2, r)
        /\ answer' = [id |-> i, revision |-> t.revision + 1, representation |-> r]

(* _claim_object_revision: the same compare-and-swap for relationship, grant *)
(* and delete commands, whose response token is computed as t.revision + 1   *)
(* and not read back.  The claim leaves the stated placement alone.          *)
ClaimRevision(t, c) ==
    LET i == t.id
        r == [rows[i].representation EXCEPT !.content = c]
    IN  /\ Live(i)
        /\ rows[i].revision = t.revision
        /\ IsUnassigned(i) <=> c \in Unassigned
        /\ UpdateRow(i, i, rows[i].revision + 1, r)
        /\ answer' = [id |-> i, revision |-> t.revision + 1, representation |-> r]

(* create_object_relationship for the explicitly unassigned child of a new      *)
(* "hosts" edge: the claim, and in the same transaction the flush with which    *)
(* _clear_explicit_unassigned_state takes the placement out of the data.  The   *)
(* flush writes data_json and updated_at and no revision, so the trigger        *)
(* corrects what the claim left; the response token is still the claimed one.  *)
AttachUnassigned(t, c) ==
    LET i == t.id
        r == [rows[i].representation EXCEPT !.content = c]
        claimed == [rows[i] EXCEPT !.revision = @ + 1]
    IN  /\ Live(i)
        /\ rows[i].revision = t.revision
        /\ IsUnassigned(i) /\ c \notin Unassigned
        /\ claimed.revision \in Revisions
        /\ UpdateRow(i, i, Corrected(i, i, claimed, [claimed EXCEPT !.representation = r]), r)
        /\ answer' = [id |-> i, revision |-> t.revision + 1, representation |-> r]

(* _bump_object_revision, for the parent or the peer of a changed object.    *)
BumpRevision(i, c) ==
    /\ Live(i)
    /\ UpdateRow(i, i, rows[i].revision + 1, [rows[i].representation EXCEPT !.content = c])
    /\ UNCHANGED answer

(* A flush of an ORM row that was read as t (an import, a seed, a reference  *)
(* touch, a data migration): row.revision += 1 on the snapshot, written by   *)
(* primary key over whatever the row is by then.                             *)
DelayedFlush(t, c) ==
    LET i == t.id
    IN  /\ Live(i)
        /\ UpdateRow(i, i, t.revision + 1, [rows[i].representation EXCEPT !.content = c])
        /\ UNCHANGED answer

(* Direct SQL: any revision, any content, also under a new ID.               *)
SqlUpdate(i, j, n, c) ==
    /\ Live(i)
    /\ UpdateRow(i, j, n, [rows[i].representation EXCEPT !.content = c])
    /\ UNCHANGED answer

DeleteObject(i) ==
    /\ DeleteRow(i)
    /\ UNCHANGED answer

-----------------------------------------------------------------------------
(* Migration 20261022_0028 starts the clocks at the revisions of the rows    *)
(* that exist; each row has an instance_id of its own (unique constraint).   *)
Init ==
    /\ dialect \in Dialects
    /\ rows \in [Ids -> Row \cup {Absent}]
    /\ \A i, j \in Ids : i # j /\ Live(i) /\ Live(j) =>
          rows[i].representation.instance # rows[j].representation.instance
    /\ clock = [i \in Ids |-> IF Live(i) THEN rows[i].revision ELSE 0]
    /\ published = {Token(i, rows[i]) : i \in {j \in Ids : Live(j)}}
    /\ answer = NoAnswer

Next ==
    /\ \/ \E i \in Ids, n \in Revisions, c \in Contents : CreateObject(i, n, c)
       \/ \E t \in published, c \in Contents :
             \/ UpdateObject(t, c) \/ ClaimRevision(t, c)
             \/ AttachUnassigned(t, c) \/ DelayedFlush(t, c)
       \/ \E i \in Ids, c \in Contents : BumpRevision(i, c)
       \/ \E i, j \in Ids, n \in Revisions, c \in Contents : SqlUpdate(i, j, n, c)
       \/ \E i \in Ids : DeleteObject(i)
    /\ UNCHANGED dialect

Spec == Init /\ [][Next]_vars

-----------------------------------------------------------------------------
(* A token that still matches the stored revision names the stored           *)
(* representation: no incarnation and no intermediate write shares it.  This *)
(* is what makes If-Match on the bare revision a safe compare-and-swap.      *)
TokenBinding ==
    \A t \in published :
        Live(t.id) /\ rows[t.id].revision = t.revision
            => rows[t.id].representation = t.representation

(* No revision of an ID was ever published for two representations.          *)
TokensAreUnambiguous ==
    \A t, u \in published :
        t.id = u.id /\ t.revision = u.revision => t = u

(* The clock is a high-water mark of every published token, and a live row   *)
(* stands exactly on it.                                                     *)
ClockIsHighWaterMark ==
    /\ \A t \in published : t.revision <= clock[t.id]
    /\ \A i \in Ids : Live(i) => rows[i].revision = clock[i]

(* "Retaining one revision increment and the same response ETag": the token    *)
(* of a response is the one that was stored (docs/object-concurrency.md).      *)
(* AttachUnassigned breaks it.                                              *)
AnswersAreStored == answer # NoAnswer => answer \in published

(* The token of a response, computed or read back, is never taken for another  *)
(* representation: it was stored, or its revision is one that was skipped,      *)
(* which the clock has left behind and nothing will ever be stored at.          *)
AnswersNeverMislead ==
    answer # NoAnswer =>
        \/ answer \in published
        \/ /\ answer.revision < clock[answer.id]
           /\ \A t \in published : t.id = answer.id => t.revision # answer.revision

(* Only the command that attaches an explicitly unassigned object may answer    *)
(* with a token that was not stored; every other computed answer is the stored  *)
(* one (commands.py returns expected_revision + 1).                          *)
OnlyAttachingSkips ==
    [][answer' # answer /\ answer' \notin published' =>
          \E i \in Ids : i = answer'.id /\ IsUnassigned(i) /\ ~IsUnassigned(i)']_vars

(* Migration 0028 and the triggers implement the contract of the ETags.       *)
Current == [i \in Ids |-> IF Live(i) THEN Token(i, rows[i]) ELSE Absent]

Contract == INSTANCE ETagContract WITH current <- Current

ImplementsContract == Contract!Spec
=============================================================================
