----------------------- MODULE RevisionsAndCatalogProofs -----------------------
(***************************************************************************)
(* Machine-checked facts about the components that MCRevisionsAndCatalog puts    *)
(* side by side: any IDs, any set of positive revisions, any incarnations and     *)
(* contents; any documents, workers, clients, policies and forms.              *)
(*                                                                         *)
(* RevisionClock: a live row stands exactly on the clock of its ID and every     *)
(* published token of an ID is at or below its clock (ClockIsHighWaterMark).     *)
(* Every row statement either leaves the row as it was or allocates a revision    *)
(* strictly above the clock (LEMMA UpdateAllocates), so a new token meets no      *)
(* old one, and a revision that was skipped stays skipped (LEMMA                *)
(* GrowthKeepsAnswers).                                                       *)
(*                                                                         *)
(* ObjectEditing: the stored document stays one that validation admits, and       *)
(* moves with its revision (EditingInv); that answers and previews tell neither    *)
(* too much nor too little is a fact about the operators that plan an update       *)
(* (LEMMA ContentStaysHidden, LEMMA DiffTells).                                *)
(*                                                                         *)
(* CatalogReferences: the facts of CatalogReferencesProofs, for the four kinds of  *)
(* graphs that are run.                                                       *)
(***************************************************************************)
EXTENDS MCRevisionsAndCatalog, TLAPS

AttachmentsP == INSTANCE CatalogReferencesProofs WITH
    Ids <- CatalogIds, Workers <- Instances, None <- Absent,
    Documents <- Devices, Relations <- {"attached_to"}, Primaries <- BOOLEAN
UplinksP == INSTANCE CatalogReferencesProofs WITH
    Ids <- CatalogIds, Workers <- Instances, None <- Absent,
    Documents <- Networks, Relations <- {"uplinks_to"}, Primaries <- {FALSE}
PlacementsP == INSTANCE CatalogReferencesProofs WITH
    Ids <- CatalogIds, Workers <- Instances, None <- Absent,
    Documents <- Placeables, Relations <- {"hosts"}, Primaries <- {FALSE}
SuccessorsP == INSTANCE CatalogReferencesProofs WITH
    Ids <- CatalogIds, Workers <- Instances, None <- Absent,
    Documents <- Decisions, Relations <- {}, Primaries <- {FALSE}

-----------------------------------------------------------------------------
(* RevisionClock.                                                            *)
(* The stored row is itself a published token: without it the binding of     *)
(* the tokens says nothing about an unchanged row.                           *)
LiveIsPublished == \A i \in Ids : Live(i) => Token(i, rows[i]) \in published

IInv ==
    /\ TypeOK
    /\ TokenBinding
    /\ TokensAreUnambiguous
    /\ ClockIsHighWaterMark
    /\ AnswersNeverMislead
    /\ LiveIsPublished

-----------------------------------------------------------------------------
(* What the types say of numbers and rows, in the form the provers use.      *)
LEMMA ClockIsNat ==
    ASSUME TypeOK, NEW i \in Ids
    PROVE  clock[i] \in Nat
<1>1. clock[i] \in Revisions \cup {0}
  BY DEF TypeOK
<1>2. Revisions \subseteq Nat
  BY RevisionsAssumption
<1>3. 0 \in Nat
  OBVIOUS
<1>4. QED
  BY <1>1, <1>2, <1>3

LEMMA TokenRevisionIsNat ==
    ASSUME NEW t \in Tokens
    PROVE  t.id \in Ids /\ t.revision \in Nat \ {0} /\ t.representation \in Representations
BY RevisionsAssumption DEF Tokens

LEMMA RowRevisionIsNat ==
    ASSUME NEW row \in Row
    PROVE  /\ row.revision \in Revisions /\ row.revision \in Nat \ {0}
           /\ row.representation \in Representations
           /\ row = [revision |-> row.revision, representation |-> row.representation]
           /\ row # Absent
BY RevisionsAssumption, AbsentAssumption DEF Row, Representations

LEMMA LiveRow ==
    ASSUME TypeOK, NEW i \in Ids, Live(i)
    PROVE  rows[i] \in Row
BY DEF TypeOK, Live

(* The SQLite and the PostgreSQL trigger correct an UPDATE alike.            *)
LEMMA DialectsAgree ==
    ASSUME NEW i \in Ids, NEW j \in Ids,
           NEW old \in Row, NEW new \in [revision: Nat, representation: Representations]
    PROVE  SqliteCorrected(i, j, old, new) = PostgresCorrected(i, j, old, new)
<1>1. old.revision \in Nat /\ new.revision \in Nat
  BY RowRevisionIsNat
<1>2. <<j, new>> # <<i, old>> <=>
        (j # i \/ new.revision # old.revision \/ new.representation # old.representation)
  BY RowRevisionIsNat
<1>3. <<j, new.representation>> # <<i, old.representation>> <=>
        (j # i \/ new.representation # old.representation)
  OBVIOUS
<1>4. QED
  BY <1>1, <1>2, <1>3 DEF SqliteCorrected, PostgresCorrected

(* What an UPDATE of a live row allocates: the clock value, which is either   *)
(* strictly above the clock or, for an exact no-op, the revision that is      *)
(* there.                                                                     *)
LEMMA UpdateAllocates ==
    ASSUME TypeOK, ClockIsHighWaterMark,
           NEW i \in Ids, NEW j \in Ids, NEW n \in Nat \ {0}, NEW r \in Representations,
           Live(i), i = j \/ ~Live(j)
    PROVE  LET asked == [revision |-> n, representation |-> r]
               a == ClockAfterUpdate(i, j, rows[i], asked)
           IN  /\ a \in Nat
               /\ RevisionAfterUpdate(i, j, rows[i], asked) = a
               /\ \/ a > clock[j]
                  \/ i = j /\ a = clock[j] /\ rows[i] = [revision |-> a, representation |-> r]
<1> DEFINE asked == [revision |-> n, representation |-> r]
           c == Corrected(i, j, rows[i], asked)
           a == ClockAfterUpdate(i, j, rows[i], asked)
<1>1. rows[i] \in Row /\ rows[i].revision = clock[i]
  BY LiveRow DEF ClockIsHighWaterMark
<1>2. clock[i] \in Nat \ {0} /\ clock[j] \in Nat
  BY <1>1, ClockIsNat, RowRevisionIsNat
<1>3. c = SqliteCorrected(i, j, rows[i], asked)
  BY <1>1, DialectsAgree DEF Corrected
<1>4. \/ c > clock[i] /\ c >= n
      \/ i = j /\ c = clock[i] /\ c = n /\ r = rows[i].representation
  BY <1>1, <1>2, <1>3 DEF SqliteCorrected
<1>5. c \in Nat \ {0} /\ c >= n
  BY <1>1, <1>2, <1>3 DEF SqliteCorrected
<1>6. a = IF clock[j] = 0 THEN c ELSE Larger(clock[j] + (IF i # j THEN 1 ELSE 0), c)
  BY DEF ClockAfterUpdate
<1>7. a \in Nat /\ a >= c
  BY <1>2, <1>5, <1>6 DEF Larger
<1>8. RevisionAfterUpdate(i, j, rows[i], asked) = a
  BY <1>5, <1>7 DEF RevisionAfterUpdate
<1>9. CASE i # j
  <2>1. a > clock[j]
    BY <1>2, <1>5, <1>6, <1>9 DEF Larger
  <2>2. QED
    BY <1>7, <1>8, <2>1
<1>10. CASE i = j
  <2>1. a = Larger(clock[i], c)
    BY <1>2, <1>6, <1>10
  <2>2. CASE c > clock[i]
    BY <1>2, <1>5, <1>7, <1>8, <1>10, <2>1, <2>2 DEF Larger
  <2>3. CASE c = clock[i] /\ c = n /\ r = rows[i].representation
    <3>1. a = clock[i]
      BY <1>2, <2>1, <2>3 DEF Larger
    <3>2. rows[i] = [revision |-> a, representation |-> r]
      BY <1>1, <2>3, <3>1, RowRevisionIsNat
    <3>3. QED
      BY <1>7, <1>8, <1>10, <3>1, <3>2
  <2>4. QED
    BY <1>4, <2>2, <2>3
<1>11. QED
  BY <1>9, <1>10

-----------------------------------------------------------------------------
(* The part of the invariant that speaks of the stored state.               *)
StoredInv ==
    /\ rows \in [Ids -> Row \cup {Absent}]
    /\ clock \in [Ids -> Revisions \cup {0}]
    /\ published \subseteq Tokens
    /\ TokenBinding
    /\ TokensAreUnambiguous
    /\ ClockIsHighWaterMark
    /\ LiveIsPublished

(* What every row statement does to the history: clocks do not go back, tokens    *)
(* stay, and a token that is new lies above the clock of its ID.                 *)
Grows ==
    /\ \A k \in Ids : clock[k] <= clock'[k]
    /\ published \subseteq published'
    /\ \A t \in published' : t \in published \/ t.revision > clock[t.id]

(* Every statement that stores a row at a revision above the clock of its ID, *)
(* and at most empties other IDs, preserves the stored part.                  *)
LEMMA AllocationPreserves ==
    ASSUME TypeOK, StoredInv,
           NEW j \in Ids, NEW row \in Row, row.revision > clock[j],
           rows' \in [Ids -> Row \cup {Absent}], rows'[j] = row,
           clock' \in [Ids -> Revisions \cup {0}], clock'[j] = row.revision,
           published' = published \cup {Token(j, row)},
           \A k \in Ids \ {j} : clock'[k] = clock[k] /\ rows'[k] \in {rows[k], Absent}
    PROVE  StoredInv' /\ Grows
<1> DEFINE new == Token(j, row)
<1>1. new \in Tokens /\ new.id = j /\ new.revision = row.revision
      /\ new.representation = row.representation
  BY RowRevisionIsNat DEF Token, Tokens
<1>2. published' \subseteq Tokens
  BY <1>1 DEF StoredInv
<1>3. clock[j] \in Nat /\ row.revision \in Nat
  BY ClockIsNat, RowRevisionIsNat
<1>4. ASSUME NEW t \in published, t.id = j
      PROVE  t.revision < row.revision
  <2>1. t \in Tokens /\ t.revision <= clock[j]
    BY <1>4 DEF StoredInv, ClockIsHighWaterMark
  <2>2. QED
    BY <2>1, <1>3, TokenRevisionIsNat
<1>5. TokenBinding'
  <2> SUFFICES ASSUME NEW t \in published', Live(t.id)', rows'[t.id].revision = t.revision
               PROVE  rows'[t.id].representation = t.representation
    BY DEF TokenBinding, Live
  <2>1. CASE t = new
    BY <2>1, <1>1
  <2>2. CASE t \in published /\ t.id = j
    <3>1. t.revision < row.revision /\ t.revision = row.revision /\ t \in Tokens
      BY <2>2, <1>4 DEF StoredInv
    <3>2. QED
      BY <3>1, <1>3, TokenRevisionIsNat
  <2>3. CASE t \in published /\ t.id # j
    <3>1. t.id \in Ids \ {j}
      BY <2>3, TokenRevisionIsNat DEF StoredInv
    <3>2. rows'[t.id] = rows[t.id]
      BY <3>1 DEF Live
    <3>3. QED
      BY <2>3, <3>2 DEF StoredInv, TokenBinding, Live
  <2>4. QED
    BY <2>1, <2>2, <2>3
<1>6. TokensAreUnambiguous'
  <2> SUFFICES ASSUME NEW t \in published', NEW u \in published',
                      t.id = u.id, t.revision = u.revision
               PROVE  t = u
    BY DEF TokensAreUnambiguous
  <2>1. ASSUME NEW v \in published, v.id = new.id, v.revision = new.revision
        PROVE  FALSE
    <3>1. v.revision < row.revision /\ v.revision = row.revision
      BY <2>1, <1>1, <1>4
    <3>2. QED
      BY <3>1, <1>3
  <2>2. CASE t \in published /\ u \in published
    BY <2>2 DEF StoredInv, TokensAreUnambiguous
  <2>3. QED
    BY <2>1, <2>2
<1>7. ClockIsHighWaterMark'
  <2>1. ASSUME NEW t \in published'
        PROVE  t.revision <= clock'[t.id]
    <3>1. CASE t = new
      BY <3>1, <1>1, <1>3
    <3>2. CASE t \in published /\ t.id = j
      <4>1. t.revision < row.revision /\ t \in Tokens
        BY <3>2, <1>4 DEF StoredInv
      <4>2. QED
        BY <4>1, <3>2, <1>3, TokenRevisionIsNat
    <3>3. CASE t \in published /\ t.id # j
      <4>1. t.id \in Ids \ {j}
        BY <3>3, TokenRevisionIsNat DEF StoredInv
      <4>2. QED
        BY <4>1, <3>3 DEF StoredInv, ClockIsHighWaterMark
    <3>4. QED
      BY <3>1, <3>2, <3>3
  <2>2. ASSUME NEW k \in Ids, Live(k)'
        PROVE  rows'[k].revision = clock'[k]
    <3>1. CASE k = j
      BY <3>1
    <3>2. CASE k # j
      <4>1. rows'[k] = rows[k] /\ clock'[k] = clock[k]
        BY <3>2, <2>2 DEF Live
      <4>2. QED
        BY <4>1, <2>2 DEF StoredInv, ClockIsHighWaterMark, Live
    <3>3. QED
      BY <3>1, <3>2
  <2>3. QED
    BY <2>1, <2>2 DEF ClockIsHighWaterMark
<1>8. LiveIsPublished'
  <2> SUFFICES ASSUME NEW k \in Ids, Live(k)'
               PROVE  Token(k, rows'[k]) \in published'
    BY DEF LiveIsPublished, Token
  <2>1. CASE k = j
    BY <2>1
  <2>2. CASE k # j
    <3>1. rows'[k] = rows[k] /\ Live(k)
      BY <2>2 DEF Live
    <3>2. QED
      BY <3>1 DEF StoredInv, LiveIsPublished
  <2>3. QED
    BY <2>1, <2>2
<1>9. Grows
  <2>1. ASSUME NEW k \in Ids
        PROVE  clock[k] <= clock'[k]
    <3>1. CASE k = j
      BY <3>1, <1>3
    <3>2. CASE k # j
      BY <3>2, ClockIsNat
    <3>3. QED
      BY <3>1, <3>2
  <2>2. new.revision > clock[new.id]
    BY <1>1
  <2>3. QED
    BY <2>1, <2>2 DEF Grows
<1>10. QED
  BY <1>2, <1>5, <1>6, <1>7, <1>8, <1>9 DEF StoredInv

LEMMA InsertPreserves ==
    ASSUME TypeOK, StoredInv,
           NEW i \in Ids, NEW n \in Nat \ {0}, NEW r \in Representations, InsertRow(i, n, r)
    PROVE  StoredInv' /\ Grows /\ rows'[i] \in Row /\ Token(i, rows'[i]) \in published'
<1> DEFINE row == [revision |-> ClockAfterInsert(i, n), representation |-> r]
<1>1. /\ row.revision \in Revisions
      /\ rows' = [rows EXCEPT ![i] = row]
      /\ clock' = [clock EXCEPT ![i] = row.revision]
      /\ published' = published \cup {Token(i, row)}
  BY DEF InsertRow, Publishes
<1>2. row \in Row
  BY <1>1 DEF Row
<1>3. row.revision > clock[i]
  BY ClockIsNat DEF ClockAfterInsert, Larger
<1>4. rows' \in [Ids -> Row \cup {Absent}] /\ rows'[i] = row
  BY <1>1, <1>2 DEF TypeOK
<1>5. clock' \in [Ids -> Revisions \cup {0}] /\ clock'[i] = row.revision
  BY <1>1 DEF TypeOK
<1>6. \A k \in Ids \ {i} : clock'[k] = clock[k] /\ rows'[k] \in {rows[k], Absent}
  BY <1>1 DEF TypeOK
<1>7. StoredInv' /\ Grows
  BY <1>1, <1>2, <1>3, <1>4, <1>5, <1>6, AllocationPreserves
<1>8. QED
  BY <1>1, <1>2, <1>4, <1>7

LEMMA UpdatePreserves ==
    ASSUME TypeOK, StoredInv,
           NEW i \in Ids, NEW j \in Ids, NEW n \in Nat \ {0}, NEW r \in Representations,
           UpdateRow(i, j, n, r)
    PROVE  /\ StoredInv' /\ Grows /\ rows'[j] \in Row
           /\ published' = published \cup {Token(j, rows'[j])}
<1> DEFINE asked == [revision |-> n, representation |-> r]
           a == ClockAfterUpdate(i, j, rows[i], asked)
           row == [revision |-> RevisionAfterUpdate(i, j, rows[i], asked), representation |-> r]
<1>1. /\ Live(i)
      /\ i = j \/ ~Live(j)
      /\ row.revision \in Revisions
      /\ rows' = [rows EXCEPT ![i] = Absent, ![j] = row]
      /\ clock' = [clock EXCEPT ![j] = a]
      /\ published' = published \cup {Token(j, row)}
  BY DEF UpdateRow, Publishes
<1>2. /\ row.revision = a
      /\ \/ a > clock[j]
         \/ i = j /\ a = clock[j] /\ rows[i] = [revision |-> a, representation |-> r]
  BY <1>1, UpdateAllocates DEF StoredInv
<1>3. row \in Row
  BY <1>1 DEF Row
<1>4. rows' \in [Ids -> Row \cup {Absent}] /\ rows'[j] = row
  BY <1>1, <1>3 DEF TypeOK
<1>5. clock' \in [Ids -> Revisions \cup {0}] /\ clock'[j] = row.revision
  BY <1>1, <1>2 DEF TypeOK
<1>6. CASE a > clock[j]
  <2>1. \A k \in Ids \ {j} : clock'[k] = clock[k] /\ rows'[k] \in {rows[k], Absent}
    BY <1>1 DEF TypeOK
  <2>2. StoredInv' /\ Grows
    BY <1>1, <1>2, <1>3, <1>4, <1>5, <1>6, <2>1, AllocationPreserves
  <2>3. QED
    BY <1>1, <1>3, <1>4, <2>2
<1>7. CASE i = j /\ a = clock[j] /\ rows[i] = [revision |-> a, representation |-> r]
  <2>1. row = rows[i]
    BY <1>2, <1>7
  <2>2. rows' = rows /\ clock' = clock
    BY <1>1, <1>7, <2>1 DEF TypeOK
  <2>3. published' = published
    BY <1>1, <1>7, <2>1 DEF StoredInv, LiveIsPublished
  <2>4. StoredInv'
    BY <2>2, <2>3 DEF StoredInv, TokenBinding, TokensAreUnambiguous, ClockIsHighWaterMark,
                      LiveIsPublished, Live, Token
  <2>5. Grows
    BY <2>2, <2>3, ClockIsNat DEF Grows
  <2>6. QED
    BY <1>1, <1>3, <1>4, <2>4, <2>5
<1>8. QED
  BY <1>2, <1>6, <1>7

(* An update that asks for a later revision than the stored one gets exactly it. *)
LEMMA UpdateStoresClaim ==
    ASSUME TypeOK, StoredInv, NEW i \in Ids, NEW n \in Nat, NEW r \in Representations, Live(i),
           n > rows[i].revision, UpdateRow(i, i, n, r)
    PROVE  rows'[i] = [revision |-> n, representation |-> r]
<1> DEFINE asked == [revision |-> n, representation |-> r]
           a == ClockAfterUpdate(i, i, rows[i], asked)
<1>1. rows[i].revision = clock[i] /\ clock[i] \in Nat \ {0}
  BY LiveRow, RowRevisionIsNat DEF StoredInv, ClockIsHighWaterMark
<1>2. Corrected(i, i, rows[i], asked) = n
  BY <1>1 DEF Corrected, SqliteCorrected, PostgresCorrected
<1>3. a = n
  BY <1>1, <1>2 DEF ClockAfterUpdate, Larger
<1>4. RevisionAfterUpdate(i, i, rows[i], asked) = n
  BY <1>1, <1>3, UpdateAllocates DEF StoredInv
<1>5. rows' = [rows EXCEPT ![i] = Absent,
                           ![i] = [revision |-> RevisionAfterUpdate(i, i, rows[i], asked),
                                   representation |-> r]]
  BY DEF UpdateRow
<1>6. QED
  BY <1>4, <1>5 DEF TypeOK

(* The flush that clears the stated placement lands one above the claim.        *)
LEMMA FlushFollowsClaim ==
    ASSUME NEW i \in Ids, NEW row \in Row, NEW r \in Representations, r # row.representation
    PROVE  LET claimed == [row EXCEPT !.revision = @ + 1]
           IN  Corrected(i, i, claimed, [claimed EXCEPT !.representation = r]) = row.revision + 2
<1> DEFINE claimed == [row EXCEPT !.revision = @ + 1]
           new == [claimed EXCEPT !.representation = r]
<1>1. row.revision \in Nat /\ row = [revision |-> row.revision, representation |-> row.representation]
  BY RowRevisionIsNat
<1>2. /\ claimed.revision = row.revision + 1 /\ claimed.representation = row.representation
      /\ new.revision = row.revision + 1 /\ new.representation = r
  BY <1>1
<1>3. new # claimed /\ <<i, new>> # <<i, claimed>>
      /\ <<i, new.representation>> # <<i, claimed.representation>>
  BY <1>2
<1>4. QED
  BY <1>1, <1>2, <1>3 DEF Corrected, SqliteCorrected, PostgresCorrected

LEMMA DeletePreserves ==
    ASSUME TypeOK, StoredInv, NEW i \in Ids, DeleteRow(i)
    PROVE  StoredInv' /\ Grows
<1>1. /\ Live(i)
      /\ rows' = [rows EXCEPT ![i] = Absent]
      /\ clock' = [clock EXCEPT ![i] = ClockAfterDelete(i)]
      /\ published' = published
  BY DEF DeleteRow
<1>2. ClockAfterDelete(i) = clock[i]
  <2>1. rows[i].revision = clock[i]
    BY <1>1 DEF StoredInv, ClockIsHighWaterMark
  <2>2. QED
    BY <2>1, ClockIsNat DEF ClockAfterDelete, Larger
<1>3. clock' = clock
  BY <1>1, <1>2 DEF TypeOK
<1>4. \A k \in Ids : Live(k)' => rows'[k] = rows[k] /\ Live(k)
  BY <1>1 DEF TypeOK, Live
<1>5. rows' \in [Ids -> Row \cup {Absent}]
  BY <1>1 DEF TypeOK
<1>6. TokenBinding' /\ LiveIsPublished' /\ ClockIsHighWaterMark' /\ TokensAreUnambiguous'
  <2>1. TokenBinding'
    <3> SUFFICES ASSUME NEW t \in published, Live(t.id)', rows'[t.id].revision = t.revision
                 PROVE  rows'[t.id].representation = t.representation
      BY <1>1 DEF TokenBinding, Live
    <3>1. t.id \in Ids
      BY TokenRevisionIsNat DEF StoredInv
    <3>2. QED
      BY <1>4, <3>1 DEF StoredInv, TokenBinding
  <2>2. LiveIsPublished'
    BY <1>1, <1>4 DEF StoredInv, LiveIsPublished, Token
  <2>3. ClockIsHighWaterMark'
    BY <1>1, <1>3, <1>4 DEF StoredInv, ClockIsHighWaterMark
  <2>4. TokensAreUnambiguous'
    BY <1>1 DEF StoredInv, TokensAreUnambiguous
  <2>5. QED
    BY <2>1, <2>2, <2>3, <2>4
<1>7. Grows
  BY <1>1, <1>3, ClockIsNat DEF Grows
<1>8. QED
  BY <1>1, <1>3, <1>5, <1>6, <1>7 DEF StoredInv

-----------------------------------------------------------------------------
(* The invariant of the whole specification.                                 *)
LEMMA InitEstablishes ==
    ASSUME Init
    PROVE  IInv
<1>1. TypeOK
  <2>1. published \subseteq Tokens
    BY DEF Init, Token, Tokens, Row, Live
  <2>2. clock \in [Ids -> Revisions \cup {0}]
    BY DEF Init, Row, Live
  <2>3. QED
    BY <2>1, <2>2 DEF Init, TypeOK
<1>2. \A t \in published : t.id \in Ids /\ Live(t.id) /\ t = Token(t.id, rows[t.id])
  BY DEF Init, Token
<1>3. TokenBinding
  BY <1>2 DEF TokenBinding, Token
<1>4. TokensAreUnambiguous
  BY <1>2 DEF TokensAreUnambiguous
<1>5. ClockIsHighWaterMark
  <2>1. \A i \in Ids : Live(i) => rows[i].revision = clock[i]
    BY DEF Init
  <2>2. ASSUME NEW t \in published
        PROVE  t.revision <= clock[t.id]
    <3>1. t.revision = clock[t.id]
      BY <1>2, <2>1 DEF Token
    <3>2. QED
      BY <3>1, <1>1, <1>2, ClockIsNat
  <2>3. QED
    BY <2>1, <2>2 DEF ClockIsHighWaterMark
<1>6. AnswersNeverMislead /\ LiveIsPublished
  BY DEF Init, AnswersNeverMislead, LiveIsPublished
<1>7. QED
  BY <1>1, <1>3, <1>4, <1>5, <1>6 DEF IInv

(* The content of a stored row can be replaced within its incarnation.        *)
LEMMA RewrittenRepresentation ==
    ASSUME TypeOK, NEW i \in Ids, Live(i), NEW c \in Contents
    PROVE  [rows[i].representation EXCEPT !.content = c] \in Representations
BY LiveRow, RowRevisionIsNat DEF Representations

(* The command that attaches an explicitly unassigned object steps the clock by two *)
(* and answers with the revision between.                                     *)
LEMMA AttachSkips ==
    ASSUME TypeOK, StoredInv, NEW t \in published, NEW c \in Contents, AttachUnassigned(t, c)
    PROVE  /\ StoredInv' /\ answer' \in Tokens
           /\ answer'.id \in Ids /\ answer'.revision < clock'[answer'.id]
           /\ \A u \in published' : u.id = answer'.id => u.revision # answer'.revision
<1> DEFINE i == t.id
           r == [rows[i].representation EXCEPT !.content = c]
           claimed == [rows[i] EXCEPT !.revision = @ + 1]
           n == Corrected(i, i, claimed, [claimed EXCEPT !.representation = r])
<1>1. /\ Live(i) /\ rows[i].revision = t.revision /\ IsUnassigned(i) /\ c \notin Unassigned
      /\ claimed.revision \in Revisions
      /\ UpdateRow(i, i, n, r)
      /\ answer' = [id |-> i, revision |-> t.revision + 1, representation |-> r]
  BY DEF AttachUnassigned
<1>2. i \in Ids /\ t.revision \in Nat \ {0}
  BY TokenRevisionIsNat DEF TypeOK
<1>3. rows[i] \in Row /\ rows[i].representation \in Representations /\ r \in Representations
  BY <1>1, <1>2, LiveRow, RowRevisionIsNat, RewrittenRepresentation
<1>4. r # rows[i].representation
  <2>1. r.content = c
    BY <1>3 DEF Representations
  <2>2. QED
    BY <1>1, <2>1 DEF IsUnassigned
<1>5. n = t.revision + 2
  <2>1. n = rows[i].revision + 2
    BY <1>2, <1>3, <1>4, FlushFollowsClaim
  <2>2. QED
    BY <1>1, <2>1
<1>6. /\ StoredInv' /\ published' = published \cup {Token(i, rows'[i])}
      /\ rows'[i] = [revision |-> n, representation |-> r]
  BY <1>1, <1>2, <1>3, <1>5, UpdatePreserves, UpdateStoresClaim
<1>7. clock[i] = t.revision /\ clock'[i] = n
  <2>1. rows'[i] # Absent
    BY <1>1, <1>2, <1>3, UpdatePreserves, <1>5, RowRevisionIsNat
  <2>2. QED
    BY <1>1, <1>2, <1>6, <2>1 DEF StoredInv, ClockIsHighWaterMark, Live
<1>8. claimed.revision = t.revision + 1
  BY <1>1, <1>3, RowRevisionIsNat
<1>9. answer' \in Tokens
  BY <1>1, <1>2, <1>3, <1>8 DEF Tokens
<1>10. ASSUME NEW u \in published', u.id = i, u.revision = t.revision + 1
       PROVE  FALSE
  <2>1. CASE u \in published
    BY <2>1, <1>2, <1>7, <1>10, TokenRevisionIsNat DEF StoredInv, ClockIsHighWaterMark
  <2>2. CASE u = Token(i, rows'[i])
    BY <2>2, <1>2, <1>5, <1>6, <1>10 DEF Token
  <2>3. QED
    BY <2>1, <2>2, <1>6
<1>11. QED
  BY <1>1, <1>2, <1>5, <1>6, <1>7, <1>9, <1>10

(* A skipped revision stays skipped: the clock has passed it.                   *)
LEMMA GrowthKeepsAnswers ==
    ASSUME TypeOK, TypeOK', AnswersNeverMislead, Grows, UNCHANGED answer
    PROVE  AnswersNeverMislead'
<1> SUFFICES ASSUME answer # NoAnswer, answer \notin published
             PROVE  /\ answer.revision < clock'[answer.id]
                    /\ \A t \in published' : t.id = answer.id => t.revision # answer.revision
  BY DEF AnswersNeverMislead, Grows
<1>1. answer.id \in Ids /\ answer.revision \in Nat
  BY TokenRevisionIsNat DEF TypeOK
<1>2. clock[answer.id] \in Nat /\ clock'[answer.id] \in Nat
  <2>1. clock[answer.id] \in Revisions \cup {0} /\ clock'[answer.id] \in Revisions \cup {0}
    BY <1>1 DEF TypeOK
  <2>2. Revisions \subseteq Nat /\ 0 \in Nat
    BY RevisionsAssumption
  <2>3. QED
    BY <2>1, <2>2
<1>3. /\ answer.revision < clock[answer.id]
      /\ \A t \in published : t.id = answer.id => t.revision # answer.revision
  BY DEF AnswersNeverMislead
<1>4. answer.revision < clock'[answer.id]
  BY <1>1, <1>2, <1>3 DEF Grows
<1>5. ASSUME NEW t \in published', t.id = answer.id, t.revision = answer.revision
      PROVE  FALSE
  <2>1. CASE t \in published
    BY <2>1, <1>3, <1>5
  <2>2. CASE t.revision > clock[t.id]
    BY <2>2, <1>1, <1>2, <1>3, <1>5
  <2>3. QED
    BY <2>1, <2>2 DEF Grows
<1>6. QED
  BY <1>4, <1>5

LEMMA NextPreserves ==
    ASSUME IInv, [Next]_vars
    PROVE  IInv'
<1> USE DEF IInv
<1>1. StoredInv
  BY DEF StoredInv, TypeOK
<1>2. SUFFICES ASSUME Next
               PROVE  IInv'
  <2>1. CASE UNCHANGED vars
    BY <2>1 DEF vars, TypeOK, TokenBinding, TokensAreUnambiguous, ClockIsHighWaterMark,
                AnswersNeverMislead, LiveIsPublished, Live, Token
  <2>2. QED
    BY <2>1
<1>3. dialect' \in Dialects
  BY <1>2 DEF Next, TypeOK
<1>4. ASSUME StoredInv', answer' \in Tokens \cup {NoAnswer}, AnswersNeverMislead'
      PROVE  IInv'
  BY <1>3, <1>4 DEF StoredInv, TypeOK
<1>5. ASSUME StoredInv', Grows, UNCHANGED answer
      PROVE  IInv'
  <2>1. TypeOK'
    BY <1>3, <1>5 DEF StoredInv, TypeOK
  <2>2. QED
    BY <1>4, <1>5, <2>1, GrowthKeepsAnswers DEF TypeOK
<1>6. ASSUME NEW t \in published', answer' = t, StoredInv'
      PROVE  IInv'
  BY <1>4, <1>6 DEF AnswersNeverMislead, StoredInv
<1>7. ASSUME NEW i \in Ids, NEW n \in Revisions, NEW c \in Contents, CreateObject(i, n, c)
      PROVE  IInv'
  <2>1. PICK id \in UnusedInstances :
          /\ InsertRow(i, n, [instance |-> id, content |-> c])
          /\ answer' = Token(i, rows'[i])
    BY <1>7 DEF CreateObject
  <2>2. [instance |-> id, content |-> c] \in Representations
    BY DEF UnusedInstances, Representations
  <2>3. StoredInv' /\ Token(i, rows'[i]) \in published'
    BY <1>1, <2>1, <2>2, InsertPreserves, RevisionsAssumption
  <2>4. QED
    BY <1>6, <2>1, <2>3
<1>8. ASSUME NEW t \in published, NEW c \in Contents, UpdateObject(t, c)
      PROVE  IInv'
  <2> DEFINE r == [rows[t.id].representation EXCEPT !.content = c]
             n == rows[t.id].revision + 1
  <2>1. Live(t.id) /\ UpdateRow(t.id, t.id, n, r) /\ answer' = Token(t.id, rows'[t.id])
    BY <1>8 DEF UpdateObject
  <2>2. t.id \in Ids /\ r \in Representations /\ n \in Nat \ {0}
    BY <2>1, TokenRevisionIsNat, RewrittenRepresentation, LiveRow, RowRevisionIsNat DEF TypeOK
  <2>3. StoredInv' /\ Token(t.id, rows'[t.id]) \in published'
    BY <1>1, <2>1, <2>2, UpdatePreserves
  <2>4. QED
    BY <1>6, <2>1, <2>3
<1>9. ASSUME NEW t \in published, NEW c \in Contents, ClaimRevision(t, c)
      PROVE  IInv'
  <2> DEFINE r == [rows[t.id].representation EXCEPT !.content = c]
             n == rows[t.id].revision + 1
  <2>1. /\ Live(t.id) /\ UpdateRow(t.id, t.id, n, r)
        /\ rows[t.id].revision = t.revision
        /\ answer' = [id |-> t.id, revision |-> t.revision + 1, representation |-> r]
    BY <1>9 DEF ClaimRevision
  <2>2. t.id \in Ids /\ r \in Representations /\ n \in Nat \ {0}
    BY <2>1, TokenRevisionIsNat, RewrittenRepresentation, LiveRow, RowRevisionIsNat DEF TypeOK
  <2>3. StoredInv' /\ Token(t.id, rows'[t.id]) \in published'
    BY <1>1, <2>1, <2>2, UpdatePreserves
  <2>4. rows'[t.id] = [revision |-> n, representation |-> r]
    BY <1>1, <2>1, <2>2, LiveRow, RowRevisionIsNat, UpdateStoresClaim
  <2>5. answer' = Token(t.id, rows'[t.id])
    BY <2>1, <2>4 DEF Token
  <2>6. QED
    BY <1>6, <2>3, <2>5
<1>10. ASSUME NEW t \in published, NEW c \in Contents, DelayedFlush(t, c)
       PROVE  IInv'
  <2> DEFINE r == [rows[t.id].representation EXCEPT !.content = c]
  <2>1. Live(t.id) /\ UpdateRow(t.id, t.id, t.revision + 1, r) /\ UNCHANGED answer
    BY <1>10 DEF DelayedFlush
  <2>2. t.id \in Ids /\ r \in Representations /\ t.revision + 1 \in Nat \ {0}
    BY <2>1, TokenRevisionIsNat, RewrittenRepresentation DEF TypeOK
  <2>3. StoredInv' /\ Grows
    BY <1>1, <2>1, <2>2, UpdatePreserves
  <2>4. QED
    BY <1>5, <2>1, <2>3
<1>11. ASSUME NEW i \in Ids, NEW c \in Contents, BumpRevision(i, c)
       PROVE  IInv'
  <2> DEFINE r == [rows[i].representation EXCEPT !.content = c]
             n == rows[i].revision + 1
  <2>1. Live(i) /\ UpdateRow(i, i, n, r) /\ UNCHANGED answer
    BY <1>11 DEF BumpRevision
  <2>2. r \in Representations /\ n \in Nat \ {0}
    BY <2>1, RewrittenRepresentation, LiveRow, RowRevisionIsNat
  <2>3. StoredInv' /\ Grows
    BY <1>1, <2>1, <2>2, UpdatePreserves
  <2>4. QED
    BY <1>5, <2>1, <2>3
<1>12. ASSUME NEW i \in Ids, NEW j \in Ids, NEW n \in Revisions, NEW c \in Contents,
              SqlUpdate(i, j, n, c)
       PROVE  IInv'
  <2> DEFINE r == [rows[i].representation EXCEPT !.content = c]
  <2>1. Live(i) /\ UpdateRow(i, j, n, r) /\ UNCHANGED answer
    BY <1>12 DEF SqlUpdate
  <2>2. r \in Representations /\ n \in Nat \ {0}
    BY <2>1, RewrittenRepresentation, RevisionsAssumption
  <2>3. StoredInv' /\ Grows
    BY <1>1, <2>1, <2>2, UpdatePreserves
  <2>4. QED
    BY <1>5, <2>1, <2>3
<1>13. ASSUME NEW i \in Ids, DeleteObject(i)
       PROVE  IInv'
  <2>1. DeleteRow(i) /\ UNCHANGED answer
    BY <1>13 DEF DeleteObject
  <2>2. StoredInv' /\ Grows
    BY <1>1, <2>1, DeletePreserves
  <2>3. QED
    BY <1>5, <2>1, <2>2
<1>14. ASSUME NEW t \in published, NEW c \in Contents, AttachUnassigned(t, c)
       PROVE  IInv'
  BY <1>14, <1>1, <1>4, AttachSkips DEF StoredInv, TypeOK, AnswersNeverMislead
<1>15. QED
  BY <1>2, <1>7, <1>8, <1>9, <1>10, <1>11, <1>12, <1>13, <1>14 DEF Next

(* Every published ETag stays bound to one representation, the clocks are     *)
(* high-water marks and no response token is one that means something else     *)
(* (models/revision_clock.py with the writers of catalog_objects).            *)
THEOREM Invariance == Spec => []IInv
<1>1. Init => IInv
  BY InitEstablishes
<1>2. IInv /\ [Next]_vars => IInv'
  BY NextPreserves
<1>3. QED
  BY <1>1, <1>2, PTL DEF Spec

(* The rows, clocks and tokens keep their types.                              *)
THEOREM TypeCorrect == Spec => []TypeOK
<1>1. IInv => TypeOK
  BY DEF IInv
<1>2. QED
  BY <1>1, Invariance, PTL

(* If-Match on the bare revision never accepts a token for another            *)
(* incarnation or an overwritten content of the object.                       *)
THEOREM TokenBindingHolds == Spec => []TokenBinding
<1>1. IInv => TokenBinding
  BY DEF IInv
<1>2. QED
  BY <1>1, Invariance, PTL

(* The token of a response, stored or skipped, is never taken for another        *)
(* representation.                                                          *)
THEOREM AnswersNeverMisleadHolds == Spec => []AnswersNeverMislead
<1>1. IInv => AnswersNeverMislead
  BY DEF IInv
<1>2. QED
  BY <1>1, Invariance, PTL

(* Every computed answer but that of the command that attaches an explicitly      *)
(* unassigned object is the token that was stored.                            *)
THEOREM OnlyAttachingSkipsHolds == Spec => OnlyAttachingSkips
<1> DEFINE Attaches ==
        answer' # answer /\ answer' \notin published' =>
            \E i \in Ids : i = answer'.id /\ IsUnassigned(i) /\ ~IsUnassigned(i)'
<1>1. ASSUME IInv, [Next]_vars
      PROVE  [Attaches]_vars
  <2> USE <1>1 DEF IInv
  <2> SUFFICES ASSUME Next, answer' # answer, answer' \notin published'
               PROVE  \E i \in Ids : i = answer'.id /\ IsUnassigned(i) /\ ~IsUnassigned(i)'
    BY DEF vars
  <2>1. StoredInv
    BY DEF StoredInv, TypeOK
  <2>2. ASSUME NEW i \in Ids, NEW n \in Revisions, NEW c \in Contents, CreateObject(i, n, c)
        PROVE  FALSE
    <3>1. PICK id \in UnusedInstances :
            /\ InsertRow(i, n, [instance |-> id, content |-> c])
            /\ answer' = Token(i, rows'[i])
      BY <2>2 DEF CreateObject
    <3>2. [instance |-> id, content |-> c] \in Representations
      BY DEF UnusedInstances, Representations
    <3>3. QED
      BY <2>1, <3>1, <3>2, InsertPreserves, RevisionsAssumption
  <2>3. ASSUME NEW t \in published, NEW c \in Contents, UpdateObject(t, c) \/ ClaimRevision(t, c)
        PROVE  FALSE
    <3> DEFINE r == [rows[t.id].representation EXCEPT !.content = c]
               n == rows[t.id].revision + 1
    <3>1. Live(t.id) /\ UpdateRow(t.id, t.id, n, r) /\ rows[t.id].revision = t.revision
      BY <2>3 DEF UpdateObject, ClaimRevision
    <3>2. t.id \in Ids /\ r \in Representations /\ n \in Nat \ {0} /\ n > rows[t.id].revision
      BY <3>1, TokenRevisionIsNat, RewrittenRepresentation, LiveRow, RowRevisionIsNat DEF TypeOK
    <3>3. /\ Token(t.id, rows'[t.id]) \in published'
          /\ rows'[t.id] = [revision |-> n, representation |-> r]
      BY <2>1, <3>1, <3>2, UpdatePreserves, UpdateStoresClaim
    <3>4. answer' = Token(t.id, rows'[t.id])
      BY <2>3, <3>1, <3>3 DEF UpdateObject, ClaimRevision, Token
    <3>5. QED
      BY <3>3, <3>4
  <2>4. ASSUME NEW t \in published, NEW c \in Contents, AttachUnassigned(t, c)
        PROVE  \E i \in Ids : i = answer'.id /\ IsUnassigned(i) /\ ~IsUnassigned(i)'
    <3> DEFINE r == [rows[t.id].representation EXCEPT !.content = c]
    <3>1. PICK n : /\ UpdateRow(t.id, t.id, n, r)
                   /\ answer'.id = t.id /\ IsUnassigned(t.id) /\ c \notin Unassigned /\ Live(t.id)
      BY <2>4 DEF AttachUnassigned
    <3>2. t.id \in Ids
      BY TokenRevisionIsNat DEF TypeOK
    <3>3. rows'[t.id].representation = r
      BY <3>1, <3>2 DEF UpdateRow, TypeOK
    <3>4. r.content = c
      BY <3>1, <3>2, LiveRow, RowRevisionIsNat DEF Representations
    <3>5. QED
      BY <3>1, <3>2, <3>3, <3>4 DEF IsUnassigned
  <2>5. ASSUME NEW t \in published, NEW c \in Contents, DelayedFlush(t, c)
        PROVE  FALSE
    BY <2>5 DEF DelayedFlush
  <2>6. QED
    BY <2>2, <2>3, <2>4, <2>5 DEF Next, BumpRevision, SqlUpdate, DeleteObject
<1>2. QED
  BY <1>1, Invariance, PTL DEF Spec, OnlyAttachingSkips

-----------------------------------------------------------------------------
(* The refinement of the ETag contract.                                      *)

LEMMA CurrentTokens ==
    ASSUME TypeOK, NEW i \in Ids
    PROVE  /\ Live(i) => /\ Token(i, rows[i]) \in Tokens
                         /\ Token(i, rows[i]) # Absent
                         /\ Current[i] = Token(i, rows[i])
           /\ ~Live(i) => Current[i] = Absent
<1>1. ASSUME Live(i)
      PROVE  Token(i, rows[i]) \in Tokens
  BY <1>1, LiveRow, RowRevisionIsNat DEF Token, Tokens
<1>2. Absent \notin Tokens
  BY AbsentAssumption DEF Tokens, Representations
<1>3. QED
  BY <1>1, <1>2 DEF Current

LEMMA InitRefines ==
    ASSUME Init
    PROVE  Contract!Init
<1>1. TypeOK
  BY InitEstablishes DEF IInv
<1>2. Current \in [Ids -> Tokens \cup {Absent}]
  BY <1>1, CurrentTokens DEF Current
<1>3. published \subseteq Tokens
  BY <1>1 DEF TypeOK
<1>4. \A i \in Ids : Current[i] # Absent <=> Live(i)
  BY <1>1, CurrentTokens
<1>5. \A i \in Ids : Live(i) => Current[i].id = i /\ Current[i] = Token(i, rows[i])
  BY <1>1, CurrentTokens DEF Token
<1>6. published = {Current[i] : i \in {j \in Ids : Current[j] # Absent}}
  BY <1>4, <1>5 DEF Init
<1>7. QED
  BY <1>2, <1>3, <1>4, <1>5, <1>6
     DEF Contract!Init, Contract!TypeOK, Contract!Tokens, Tokens

(* A row stored above the clock is a fresh publication.                      *)
LEMMA AboveClockIsFresh ==
    ASSUME TypeOK, ClockIsHighWaterMark, NEW j \in Ids, NEW n \in Nat, n > clock[j]
    PROVE  Contract!Fresh(j, n)
<1> SUFFICES ASSUME NEW t \in published, t.id = j
             PROVE  t.revision < n
  BY DEF Contract!Fresh
<1>1. t.revision <= clock[j] /\ t \in Tokens
  BY DEF ClockIsHighWaterMark, TypeOK
<1>2. QED
  BY <1>1, ClockIsNat, TokenRevisionIsNat

LEMMA InsertRefines ==
    ASSUME TypeOK, StoredInv, TypeOK',
           NEW i \in Ids, NEW n \in Nat \ {0}, NEW r \in Representations, InsertRow(i, n, r)
    PROVE  Contract!Next
<1> DEFINE m == ClockAfterInsert(i, n)
           row == [revision |-> m, representation |-> r]
<1>1. /\ m \in Revisions
      /\ rows' = [rows EXCEPT ![i] = row]
      /\ published' = published \cup {Token(i, row)}
  BY DEF InsertRow, Publishes
<1>2. m > clock[i] /\ m \in Nat
  BY <1>1, ClockIsNat, RevisionsAssumption DEF ClockAfterInsert, Larger
<1>3. Contract!Fresh(i, m)
  BY <1>2, AboveClockIsFresh DEF StoredInv
<1>4. row \in Row /\ row # Absent
  BY <1>1, RowRevisionIsNat DEF Row
<1>5. Current' = [Current EXCEPT ![i] = Token(i, row)]
  BY <1>1, <1>4 DEF Current, Live, TypeOK, Token
<1>6. PICK token \in Contract!Tokens : token = Token(i, row)
  BY <1>1 DEF Token, Contract!Tokens
<1>7. token.id = i /\ token.revision = m
  BY <1>6 DEF Token
<1>8. Contract!Publish(token) /\ Contract!Store(token)
  BY <1>1, <1>3, <1>5, <1>6, <1>7 DEF Contract!Publish, Contract!Store
<1>9. QED
  BY <1>8 DEF Contract!Next

LEMMA UpdateRefines ==
    ASSUME TypeOK, StoredInv, TypeOK',
           NEW i \in Ids, NEW j \in Ids, NEW n \in Nat \ {0}, NEW r \in Representations,
           UpdateRow(i, j, n, r)
    PROVE  Contract!Next \/ UNCHANGED <<Current, published>>
<1> DEFINE asked == [revision |-> n, representation |-> r]
           a == ClockAfterUpdate(i, j, rows[i], asked)
           m == RevisionAfterUpdate(i, j, rows[i], asked)
           row == [revision |-> m, representation |-> r]
<1>1. /\ Live(i)
      /\ i = j \/ ~Live(j)
      /\ m \in Revisions
      /\ rows' = [rows EXCEPT ![i] = Absent, ![j] = row]
      /\ published' = published \cup {Token(j, row)}
  BY DEF UpdateRow, Publishes
<1>2. /\ m = a
      /\ \/ a > clock[j]
         \/ i = j /\ a = clock[j] /\ rows[i] = [revision |-> a, representation |-> r]
  BY <1>1, UpdateAllocates DEF StoredInv
<1>3. row \in Row /\ row # Absent
  BY <1>1, RowRevisionIsNat DEF Row
<1>4. CASE a > clock[j]
  <2>1. m \in Nat
    BY <1>1, RevisionsAssumption
  <2>2. Contract!Fresh(j, m)
    BY <1>2, <1>4, <2>1, AboveClockIsFresh DEF StoredInv
  <2>3. PICK token \in Contract!Tokens : token = Token(j, row)
    BY <1>1 DEF Token, Contract!Tokens
  <2>4. token.id = j /\ token.revision = m
    BY <2>3 DEF Token
  <2>5. Contract!Publish(token)
    BY <1>1, <2>2, <2>3, <2>4 DEF Contract!Publish
  <2>6. CASE i = j
    <3>1. Current' = [Current EXCEPT ![j] = Token(j, row)]
      BY <1>1, <1>3, <2>6 DEF Current, Live, TypeOK, Token
    <3>2. QED
      BY <2>3, <2>4, <2>5, <3>1 DEF Contract!Store, Contract!Next
  <2>7. CASE i # j
    <3>1. Current' = [Current EXCEPT ![i] = Absent, ![j] = Token(j, row)]
      BY <1>1, <1>3, <2>7 DEF Current, Live, TypeOK, Token
    <3>2. Current[i] # Absent /\ Current[j] = Absent
      BY <1>1, <2>7, CurrentTokens
    <3>3. Contract!Rekey(i, token)
      BY <2>3, <2>4, <2>7, <3>1, <3>2 DEF Contract!Rekey
    <3>4. QED
      BY <2>5, <3>3 DEF Contract!Next
  <2>8. QED
    BY <2>6, <2>7
<1>5. CASE i = j /\ a = clock[j] /\ rows[i] = [revision |-> a, representation |-> r]
  <2>1. row = rows[i]
    BY <1>2, <1>5
  <2>2. rows' = rows
    BY <1>1, <1>5, <2>1 DEF TypeOK
  <2>3. published' = published
    BY <1>1, <1>5, <2>1 DEF StoredInv, LiveIsPublished
  <2>4. QED
    BY <2>2, <2>3 DEF Current, Live, Token
<1>6. QED
  BY <1>2, <1>4, <1>5

LEMMA DeleteRefines ==
    ASSUME TypeOK, NEW i \in Ids, DeleteRow(i)
    PROVE  Contract!Next
<1>1. Live(i) /\ rows' = [rows EXCEPT ![i] = Absent] /\ published' = published
  BY DEF DeleteRow
<1>2. Current' = [Current EXCEPT ![i] = Absent]
  BY <1>1 DEF Current, Live, TypeOK, Token
<1>3. Current[i] # Absent
  BY <1>1, CurrentTokens
<1>4. QED
  BY <1>1, <1>2, <1>3 DEF Contract!Next, Contract!Remove

LEMMA StepRefines ==
    ASSUME IInv, IInv', [Next]_vars
    PROVE  [Contract!Next]_<<Current, published>>
<1>1. TypeOK /\ TypeOK' /\ StoredInv
  BY DEF IInv, StoredInv, TypeOK
<1>2. CASE UNCHANGED vars
  BY <1>2 DEF vars, Current, Live, Token
<1>3. ASSUME NEW i \in Ids, NEW n \in Revisions, NEW c \in Contents, CreateObject(i, n, c)
      PROVE  Contract!Next
  <2>1. PICK id \in UnusedInstances : InsertRow(i, n, [instance |-> id, content |-> c])
    BY <1>3 DEF CreateObject
  <2>2. [instance |-> id, content |-> c] \in Representations
    BY DEF UnusedInstances, Representations
  <2>3. QED
    BY <1>1, <2>1, <2>2, InsertRefines, RevisionsAssumption
<1>4. ASSUME NEW i \in Ids, NEW j \in Ids, NEW n \in Nat \ {0}, NEW c \in Contents, Live(i),
             UpdateRow(i, j, n, [rows[i].representation EXCEPT !.content = c])
      PROVE  [Contract!Next]_<<Current, published>>
  BY <1>1, <1>4, RewrittenRepresentation, UpdateRefines
<1>5. \A i \in Ids : Live(i) => rows[i].revision + 1 \in Nat \ {0}
  BY <1>1, LiveRow, RowRevisionIsNat
<1>6. \A t \in published : t.id \in Ids /\ t.revision + 1 \in Nat \ {0}
  BY <1>1, TokenRevisionIsNat DEF TypeOK
<1>7. ASSUME NEW t \in published, NEW c \in Contents,
             UpdateObject(t, c) \/ ClaimRevision(t, c) \/ DelayedFlush(t, c)
      PROVE  [Contract!Next]_<<Current, published>>
  BY <1>4, <1>5, <1>6, <1>7 DEF UpdateObject, ClaimRevision, DelayedFlush
<1>8. ASSUME NEW t \in published, NEW c \in Contents, AttachUnassigned(t, c)
       PROVE  [Contract!Next]_<<Current, published>>
  <2> DEFINE r == [rows[t.id].representation EXCEPT !.content = c]
             claimed == [rows[t.id] EXCEPT !.revision = @ + 1]
             n == Corrected(t.id, t.id, claimed, [claimed EXCEPT !.representation = r])
  <2>1. UpdateRow(t.id, t.id, n, r) /\ Live(t.id) /\ IsUnassigned(t.id) /\ c \notin Unassigned
    BY <1>8 DEF AttachUnassigned
  <2>2. t.id \in Ids /\ rows[t.id] \in Row /\ r \in Representations
    BY <1>1, <1>6, <2>1, LiveRow, RewrittenRepresentation
  <2>3. r # rows[t.id].representation
    BY <2>1, <2>2, RowRevisionIsNat DEF IsUnassigned, Representations
  <2>4. n = rows[t.id].revision + 2
    BY <2>2, <2>3, FlushFollowsClaim
  <2>5. n \in Nat \ {0}
    BY <2>2, <2>4, RowRevisionIsNat
  <2>6. QED
    BY <1>4, <2>1, <2>2, <2>5
<1>9. ASSUME NEW i \in Ids, NEW c \in Contents, BumpRevision(i, c)
      PROVE  [Contract!Next]_<<Current, published>>
  BY <1>4, <1>5, <1>9 DEF BumpRevision
<1>10. ASSUME NEW i \in Ids, NEW j \in Ids, NEW n \in Revisions, NEW c \in Contents,
             SqlUpdate(i, j, n, c)
      PROVE  [Contract!Next]_<<Current, published>>
  BY <1>4, <1>10, RevisionsAssumption DEF SqlUpdate
<1>11. ASSUME NEW i \in Ids, DeleteObject(i)
       PROVE  Contract!Next
  BY <1>1, <1>11, DeleteRefines DEF DeleteObject
<1>12. QED
  BY <1>2, <1>3, <1>7, <1>8, <1>9, <1>10, <1>11 DEF Next

(* No revision of an ID is ever published for two representations.               *)
THEOREM TokensAreUnambiguousHolds == Spec => []TokensAreUnambiguous
<1>1. IInv => TokensAreUnambiguous
  BY DEF IInv
<1>2. QED
  BY <1>1, Invariance, PTL

(* The triggers and the writers of catalog_objects implement the contract of   *)
(* docs/object-concurrency.md.                                                  *)
THEOREM ContractImplemented == Spec => ImplementsContract
<1>1. Init => Contract!Init
  BY InitRefines
<1>2. IInv /\ IInv' /\ [Next]_vars => [Contract!Next]_<<Current, published>>
  BY StepRefines
<1>3. QED
  BY <1>1, <1>2, Invariance, PTL DEF Spec, ImplementsContract, Contract!Spec, Contract!contractVars

-----------------------------------------------------------------------------
(* ObjectEditing: a client's view has an ETag of the past, and while it is the      *)
(* current one the document is what the client was shown.                        *)
EditingInv ==
    /\ Editing!Sound(doc)
    /\ saves \in 0..MaxSaves /\ regrants \in 0..MaxRegrants
    /\ policy \in [Clients -> Policies]
    /\ revision \in 1..(1 + saves)
    /\ view = [c \in Clients |-> view[c]]
    /\ \A c \in Clients : view[c] # Absent =>
          /\ view[c].etag \in 1..revision /\ Editing!Shaped(view[c].shown)
          /\ view[c].etag = revision => view[c].stored = doc

LEMMA ShownShaped ==
    ASSUME NEW d, NEW p, Editing!Shaped(d)
    PROVE  Editing!Shaped(Editing!Shown(d, p))
  BY DEF Editing!Shaped, Editing!Shown, Editing!Fields

LEMMA EditsShaped ==
    ASSUME NEW d, Editing!Shaped(d), NEW e \in Editing!Edits(d)
    PROVE  Editing!Shaped(e)
  <1>1. CASE e = d
    BY <1>1
  <1>2. ASSUME NEW l \in Labels, e = [d EXCEPT !.label = l]
        PROVE  Editing!Shaped(e)
    BY <1>2 DEF Editing!Shaped, Editing!Fields
  <1>3. ASSUME NEW r \in SUBSET Targets, e = [d EXCEPT !.refs = r]
        PROVE  Editing!Shaped(e)
    BY <1>3 DEF Editing!Shaped, Editing!Fields
  <1>4. CASE e = [d EXCEPT !.state.status = "inactive"]
    BY <1>4 DEF Editing!Shaped, Editing!Fields
  <1>5. CASE e = [d EXCEPT !.provenance = "manual"]
    BY <1>5 DEF Editing!Shaped, Editing!Fields
  <1>6. ASSUME NEW k, e = [d EXCEPT !.kind = k, !.content = Absent]
        PROVE  Editing!Shaped(e)
    BY <1>6 DEF Editing!Shaped, Editing!Fields
  <1>7. QED
    BY <1>1, <1>2, <1>3, <1>4, <1>5, <1>6 DEF Editing!Edits

LEMMA ProposalsShaped ==
    ASSUME NEW d, Editing!Shaped(d), NEW payload \in Editing!Proposals(d)
    PROVE  /\ Editing!Shaped(payload.doc)
           /\ payload.contentGiven \in BOOLEAN /\ payload.stateGiven = FALSE
  <1>1. ASSUME NEW e \in Editing!Edits(d), payload = Editing!Payload(e, FALSE, FALSE)
        PROVE  /\ Editing!Shaped(payload.doc)
               /\ payload.contentGiven \in BOOLEAN /\ payload.stateGiven = FALSE
    BY <1>1, EditsShaped DEF Editing!Payload
  <1>2. ASSUME NEW e \in Editing!Edits(d), NEW c \in Locators,
               payload = Editing!Payload([e EXCEPT !.content = c], FALSE, TRUE)
        PROVE  /\ Editing!Shaped(payload.doc)
               /\ payload.contentGiven \in BOOLEAN /\ payload.stateGiven = FALSE
    <2>1. Editing!Shaped(e)
      BY EditsShaped
    <2>2. Editing!Shaped([e EXCEPT !.content = c])
      BY <2>1 DEF Editing!Shaped, Editing!Fields
    <2>3. QED
      BY <1>2, <2>2 DEF Editing!Payload
  <1>3. \/ \E e \in Editing!Edits(d) : payload = Editing!Payload(e, FALSE, FALSE)
        \/ \E e \in Editing!Edits(d), c \in Locators :
              payload = Editing!Payload([e EXCEPT !.content = c], FALSE, TRUE)
    BY DEF Editing!Proposals, Editing!Payload
  <1>4. QED
    BY <1>1, <1>2, <1>3

(* Whatever the payload: the target is a document like others.                    *)
LEMMA TargetShaped ==
    ASSUME NEW d, NEW payload, Editing!Shaped(d), Editing!Shaped(payload.doc)
    PROVE  /\ Editing!Shaped(Editing!Target(d, payload))
           /\ Editing!Target(d, payload).content = Editing!ContentAfter(d, payload)
           /\ Editing!Target(d, payload).state = Editing!ResolvedState(d.state, payload)
           /\ \A f \in Editing!Fields \ {"content", "state"} :
                 Editing!Target(d, payload)[f] = payload.doc[f]
  <1>1. /\ Editing!ContentAfter(d, payload) \in Locators \cup {Absent}
    BY DEF Editing!ContentAfter, Editing!Shaped
  <1>2. Editing!ResolvedState(d.state, payload)
          = [f \in {"status", "life", "health"} |-> Editing!ResolvedState(d.state, payload)[f]]
    BY DEF Editing!ResolvedState, Editing!Shaped, Editing!StateFromStatus
  <1>3. QED
    BY <1>1, <1>2 DEF Editing!Target, Editing!Shaped, Editing!Fields

LEMMA TargetSound ==
    ASSUME NEW d, NEW payload, Editing!Sound(d), Editing!Shaped(payload.doc),
           Editing!NamedBy(Editing!ContentAfter(d, payload)) \subseteq Existing
    PROVE  Editing!Sound(Editing!Target(d, payload))
  <1> DEFINE t == Editing!Target(d, payload)
  <1>1. /\ Editing!Shaped(t) /\ t.content = Editing!ContentAfter(d, payload)
        /\ t.state = Editing!ResolvedState(d.state, payload) /\ t.kind = payload.doc.kind
    BY TargetShaped DEF Editing!Sound, Editing!Fields
  <1>2. t.content # Absent => t.kind = Editing!Reference
    BY <1>1 DEF Editing!ContentAfter
  <1>3. t.state.life # Absent => t.state.status = Editing!StatusOf(t.state.life, t.state.health)
    <2>1. CASE payload.doc.kind \notin Editing!AssetKinds
      BY <1>1, <2>1 DEF Editing!ResolvedState
    <2>2. CASE payload.doc.kind \in Editing!AssetKinds /\ payload.stateGiven
      BY <1>1, <2>2 DEF Editing!ResolvedState, Editing!Shaped
    <2>3. CASE payload.doc.kind \in Editing!AssetKinds /\ ~payload.stateGiven
      BY <1>1, <2>3 DEF Editing!ResolvedState, Editing!Sound, Editing!StateFromStatus, Editing!StatusOf
    <2>4. QED
      BY <2>1, <2>2, <2>3
  <1>4. QED
    BY <1>1, <1>2, <1>3 DEF Editing!Sound

-----------------------------------------------------------------------------
(* What is stored and its revision move together.                               *)
LEMMA EditingStarts == ASSUME Editing!Init PROVE EditingInv
  BY EditingAssumption DEF Editing!Init, EditingInv, Editing!ConstantsSound

(* A command keeps the document sound, and counts it when it changes.             *)
LEMMA ApplyKeeps ==
    ASSUME EditingInv, NEW c \in Clients, NEW via, NEW payload, NEW etag,
           Editing!Shaped(payload.doc), saves < MaxSaves, Editing!Apply(c, via, payload, etag)
    PROVE  EditingInv'
  <1> DEFINE told == Editing!Answer(doc, revision, policy[c], payload, etag)
  <1>1. /\ saves' = saves + 1 /\ revision' = told.revision
        /\ doc' = IF told.outcome = "ok" THEN Editing!Target(doc, payload) ELSE doc
        /\ UNCHANGED <<policy, view, regrants>>
    BY DEF Editing!Apply
  <1>2. saves' \in 0..MaxSaves /\ revision \in Nat
    BY <1>1, EditingAssumption DEF EditingInv, Editing!ConstantsSound
  <1>3. CASE told.outcome = "ok" /\ told.changed
    <2>1. revision' = revision + 1 /\ doc' = Editing!Target(doc, payload)
      BY <1>1, <1>3 DEF Editing!Answer, Editing!Told
    <2>2. Editing!NamedBy(Editing!ContentAfter(doc, payload)) \subseteq Existing
      BY <1>3 DEF Editing!Answer, Editing!Told, Editing!Refusal
    <2>3. Editing!Sound(doc')
      BY <2>1, <2>2, TargetSound DEF EditingInv
    <2>4. QED
      BY <1>1, <1>2, <2>1, <2>3 DEF EditingInv
  <1>4. CASE ~(told.outcome = "ok" /\ told.changed)
    <2>1. revision' = revision
      BY <1>1, <1>4 DEF Editing!Answer, Editing!Told
    <2>2. doc' = doc
      BY <1>1, <1>4 DEF Editing!Answer, Editing!Told, Editing!Changes
    <2>3. QED
      BY <1>1, <1>2, <2>1, <2>2 DEF EditingInv
  <1>5. QED
    BY <1>3, <1>4

(* Forms change fields of the stored document.                                   *)
LEMMA FormsShaped ==
    ASSUME NEW d, Editing!Shaped(d)
    PROVE  /\ Editing!Shaped(Editing!Own(d))
           /\ \A s : Editing!Shaped(Editing!NetworkForm(d, s).doc)
           /\ \A s : Editing!Shaped(Editing!AccessForm(d, s).doc)
           /\ \A v : Editing!Shaped(Editing!SoftwareForm(d, v).doc)
           /\ \A v : Editing!Shaped(Editing!ComponentsForm(d, v).doc)
           /\ \A v : Editing!Shaped(Editing!ReleaseForm(d, v).doc)
           /\ \A on, s, v : Editing!Shaped(Editing!MonitoringForm(d, on, s, v).doc)
           /\ \A v \in Locators : Editing!Shaped(Editing!ContentForm(d, v).doc)
           /\ \A p, l, status : \A refs \in SUBSET Targets :
                  Editing!Shaped(Editing!OverviewForm(d, p, l, status, refs).doc)
  <1>1. Editing!Shaped(Editing!Own(d))
    BY DEF Editing!Shaped, Editing!Fields, Editing!Own
  <1>2. ASSUME NEW o, Editing!Shaped(o), NEW x
        PROVE  /\ Editing!Shaped([o EXCEPT !.network = x]) /\ Editing!Shaped([o EXCEPT !.access = x])
               /\ Editing!Shaped([o EXCEPT !.software = x]) /\ Editing!Shaped([o EXCEPT !.components = x])
               /\ Editing!Shaped([o EXCEPT !.release = x])
    BY <1>2 DEF Editing!Shaped, Editing!Fields
  <1>3. ASSUME NEW on, NEW s, NEW v PROVE Editing!Shaped(Editing!MonitoringForm(d, on, s, v).doc)
    BY <1>1 DEF Editing!MonitoringForm, Editing!Payload, Editing!GatusAfter, Editing!Shaped, Editing!Fields
  <1>4. ASSUME NEW v \in Locators PROVE Editing!Shaped(Editing!ContentForm(d, v).doc)
    BY DEF Editing!ContentForm, Editing!Payload, Editing!Shaped, Editing!Fields
  <1>5. ASSUME NEW p, NEW l, NEW status, NEW refs \in SUBSET Targets
        PROVE  Editing!Shaped(Editing!OverviewForm(d, p, l, status, refs).doc)
    <2>1. refs \cup Editing!Concealed(d, p) \subseteq Targets
      BY DEF Editing!Concealed, Editing!Shaped
    <2>2. QED
      BY <1>1, <2>1 DEF Editing!OverviewForm, Editing!Payload, Editing!Shaped, Editing!Fields
  <1>6. ASSUME NEW x
        PROVE  /\ Editing!Shaped(Editing!NetworkForm(d, x).doc) /\ Editing!Shaped(Editing!AccessForm(d, x).doc)
               /\ Editing!Shaped(Editing!SoftwareForm(d, x).doc) /\ Editing!Shaped(Editing!ComponentsForm(d, x).doc)
               /\ Editing!Shaped(Editing!ReleaseForm(d, x).doc)
    BY <1>1, <1>2 DEF Editing!NetworkForm, Editing!AccessForm, Editing!SoftwareForm,
       Editing!ComponentsForm, Editing!ReleaseForm, Editing!Payload
  <1>7. QED
    BY <1>1, <1>3, <1>4, <1>5, <1>6

LEMMA EditingStep == ASSUME EditingInv, [Editing!Next]_editVars PROVE EditingInv'
  <1>1. CASE UNCHANGED editVars
    BY <1>1 DEF editVars, EditingInv
  <1>2. CASE Editing!Next
    <2>1. PICK c \in Clients : Editing!Open(c) \/ Editing!Save(c) \/ Editing!Regrant(c)
      BY <1>2 DEF Editing!Next
    <2>2. saves < MaxSaves /\ Editing!Shaped(doc)
      BY <1>2 DEF Editing!Next, EditingInv, Editing!Sound
    <2>3. CASE Editing!Open(c)
      <3>1. Editing!Shaped(Editing!Shown(doc, policy[c]))
        BY <2>2, ShownShaped
      <3>2. QED
        BY <2>3, <3>1 DEF Editing!Open, EditingInv
    <2>4. CASE Editing!Regrant(c)
      BY <2>4, EditingAssumption DEF Editing!Regrant, EditingInv, Editing!ConstantsSound
    <2>5. CASE Editing!Update(c)
      <3>1. PICK payload \in Editing!Proposals(view[c].shown) :
                view[c] # Absent /\ Editing!Apply(c, "update", payload, view[c].etag)
        BY <2>5 DEF Editing!Update
      <3>2. Editing!Shaped(payload.doc)
        BY <3>1, ProposalsShaped DEF EditingInv
      <3>3. QED
        BY <2>2, <3>1, <3>2, ApplyKeeps
    <2>6. CASE Editing!Rename(c)
      <3>1. PICK l \in Labels :
               LET changed == Editing!RenameRefusal(revision, policy[c], view[c].etag) = "ok" /\ l # doc.label
               IN  /\ doc' = IF changed THEN [doc EXCEPT !.label = l] ELSE doc
                   /\ revision' = IF changed THEN revision + 1 ELSE revision
        BY <2>6 DEF Editing!Rename
      <3>2. saves' = saves + 1 /\ saves' \in 0..MaxSaves /\ UNCHANGED <<policy, view, regrants>>
        BY <2>2, <2>6, EditingAssumption DEF Editing!Rename, EditingInv, Editing!ConstantsSound
      <3>3. Editing!Sound([doc EXCEPT !.label = l])
        <4>1. Editing!Shaped([doc EXCEPT !.label = l])
          BY <2>2 DEF Editing!Shaped, Editing!Fields
        <4>2. QED
          BY <2>2, <4>1 DEF EditingInv, Editing!Sound, Editing!Shaped, Editing!Fields
      <3>4. revision \in Nat
        BY DEF EditingInv
      <3>5. \/ doc' = [doc EXCEPT !.label = l] /\ revision' = revision + 1
            \/ doc' = doc /\ revision' = revision
        BY <3>1
      <3>6. CASE doc' = [doc EXCEPT !.label = l] /\ revision' = revision + 1
        BY <3>2, <3>3, <3>4, <3>6 DEF EditingInv
      <3>7. CASE doc' = doc /\ revision' = revision
        BY <3>2, <3>4, <3>7 DEF EditingInv
      <3>8. QED
        BY <3>5, <3>6, <3>7
    <2>7. ASSUME NEW via, NEW payload, NEW etag, Editing!Shaped(payload.doc), Editing!Apply(c, via, payload, etag)
          PROVE  EditingInv'
      BY <2>2, <2>7, ApplyKeeps
    <2>8. CASE \/ Editing!SaveNetwork(c) \/ Editing!SaveAccess(c) \/ Editing!SaveSoftware(c)
               \/ Editing!SaveComponents(c) \/ Editing!SaveRelease(c) \/ Editing!SaveMonitoring(c)
      BY <2>2, <2>7, <2>8, FormsShaped DEF Editing!SaveNetwork, Editing!SaveAccess, Editing!SaveSoftware,
         Editing!SaveComponents, Editing!SaveRelease, Editing!SaveMonitoring, Editing!SaveForm
    <2>9. CASE Editing!SaveOverview(c)
      <3>1. PICK label \in Labels, status \in {"active", "inactive"}, refs \in SUBSET view[c].shown.refs :
               /\ view[c] # Absent
               /\ Editing!Apply(c, "overview", Editing!OverviewForm(doc, policy[c], label, status, refs), view[c].etag)
        BY <2>9 DEF Editing!SaveOverview, Editing!SaveForm
      <3>2. refs \subseteq Targets
        BY <3>1 DEF EditingInv, Editing!Shaped
      <3>3. QED
        BY <2>2, <2>7, <3>1, <3>2, FormsShaped
    <2>10. CASE Editing!SaveContent(c)
      BY <2>2, <2>7, <2>10, FormsShaped DEF Editing!SaveContent, Editing!SaveForm
    <2>11. QED
      BY <2>1, <2>3, <2>4, <2>5, <2>6, <2>8, <2>9, <2>10 DEF Editing!Save
  <1>3. QED
    BY <1>1, <1>2

-----------------------------------------------------------------------------
(* What answers and previews tell.                                              *)

(* An update that is not refused changes the document or replaces it blindly if and  *)
(* only if its preview shows something.                                        *)
LEMMA DiffTells ==
    ASSUME NEW d, NEW at, NEW p, NEW payload, NEW etag, Editing!Sound(d), Editing!Shaped(payload.doc),
           payload.contentGiven \in BOOLEAN, Editing!Refusal(d, at, p, payload, etag) = "ok"
    PROVE  Editing!Changes(d, p, payload) <=> Editing!Diff(d, p, payload) # {}
  <1> DEFINE t == Editing!Target(d, payload)
             fields == {f \in DOMAIN d : t[f] # d[f]}
             hides == Editing!ReferenceInvolved(d, payload) /\ ~Editing!Can(p, "read content")
             opaque == payload.contentGiven \/ d.kind # payload.doc.kind
  <1>1. Editing!Shaped(t) /\ Editing!Shaped(d) /\ t.content = Editing!ContentAfter(d, payload)
    BY TargetShaped DEF Editing!Sound
  <1>2. t # d <=> fields # {}
    BY <1>1 DEF Editing!Shaped
  <1>3. CASE ~hides
    <2>1. ~Editing!Blind(d, p, payload)
      BY <1>3 DEF Editing!Blind
    <2>2. Editing!Diff(d, p, payload) = fields
      BY <1>3 DEF Editing!Diff
    <2>3. QED
      BY <1>2, <2>1, <2>2 DEF Editing!Changes
  <1>4. CASE hides /\ opaque
    <2>1. "content" \in Editing!Diff(d, p, payload)
      BY <1>4 DEF Editing!Diff
    <2>2. Editing!Can(p, "write content")
      BY <1>4 DEF Editing!Refusal, Editing!MayPropose, Editing!ReferenceInvolved
    <2>3. QED
      BY <1>4, <2>1, <2>2 DEF Editing!Changes, Editing!Blind
  <1>5. CASE hides /\ ~opaque
    <2>1. "content" \notin fields
      BY <1>1, <1>5 DEF Editing!ContentAfter, Editing!ReferenceInvolved
    <2>2. Editing!Diff(d, p, payload) = fields
      BY <1>5, <2>1 DEF Editing!Diff
    <2>3. QED
      BY <1>2, <1>5, <2>2 DEF Editing!Changes, Editing!Blind
  <1>6. QED
    BY <1>3, <1>4, <1>5

(* Two credential references that differ in their content only are answered alike,   *)
(* to a client who may not read it.                                           *)
LEMMA ContentStaysHidden ==
    ASSUME NEW d, NEW at, NEW p, NEW payload, NEW content \in Locators \cup {Absent},
           Editing!Sound(d), d.kind = Editing!Reference, ~Editing!Can(p, "read content"),
           Editing!Shaped(payload.doc), payload.contentGiven \in BOOLEAN,
           Editing!NamedBy(content) \subseteq Existing
    PROVE  Editing!PreviewAnswer([d EXCEPT !.content = content], at, p, payload, at)
             = Editing!PreviewAnswer(d, at, p, payload, at)
  <1> DEFINE e == [d EXCEPT !.content = content]
             opaque == payload.contentGiven \/ d.kind # payload.doc.kind
             R(x) == Editing!Refusal(x, at, p, payload, at)
             t == Editing!Target(d, payload)
             u == Editing!Target(e, payload)
  <1>1. /\ Editing!Shaped(d) /\ Editing!Shaped(e) /\ e.content = content
        /\ \A f \in Editing!Fields \ {"content"} : e[f] = d[f]
    BY DEF Editing!Sound, Editing!Shaped, Editing!Fields
  <1>2. /\ e.kind = d.kind /\ e.state = d.state /\ e.refs = d.refs
    BY <1>1 DEF Editing!Fields
  <1> HIDE DEF e
  <1>3. /\ \A f \in Editing!Fields \ {"content"} : u[f] = t[f]
        /\ Editing!Shaped(t) /\ Editing!Shaped(u)
        /\ t.content = Editing!ContentAfter(d, payload) /\ u.content = Editing!ContentAfter(e, payload)
    <2>1. Editing!ResolvedState(e.state, payload) = Editing!ResolvedState(d.state, payload)
      BY <1>2
    <2>2. /\ Editing!Shaped(t) /\ t.content = Editing!ContentAfter(d, payload)
          /\ t.state = Editing!ResolvedState(d.state, payload)
          /\ \A f \in Editing!Fields \ {"content", "state"} : t[f] = payload.doc[f]
      <3>1. Editing!Shaped(d) /\ Editing!Shaped(payload.doc)
        BY <1>1
      <3>2. QED
        BY <3>1, TargetShaped, Zenon
    <2>3. /\ Editing!Shaped(u) /\ u.content = Editing!ContentAfter(e, payload)
          /\ u.state = Editing!ResolvedState(e.state, payload)
          /\ \A f \in Editing!Fields \ {"content", "state"} : u[f] = payload.doc[f]
      <3>1. Editing!Shaped(e) /\ Editing!Shaped(payload.doc)
        BY <1>1
      <3>2. QED
        BY <3>1, TargetShaped, Zenon
    <2> HIDE DEF t, u
    <2>4. QED
      BY <2>1, <2>2, <2>3
  <1>4. /\ opaque => Editing!ContentAfter(e, payload) = Editing!ContentAfter(d, payload)
        /\ ~opaque => /\ Editing!ContentAfter(d, payload) = d.content
                      /\ Editing!ContentAfter(e, payload) = content
    BY <1>1 DEF Editing!ContentAfter
  <1>5. Editing!ReferencesToRead(e, p, payload) = Editing!ReferencesToRead(d, p, payload)
    <2>1. Editing!ReferenceInvolved(e, payload) /\ Editing!ReferenceInvolved(d, payload)
      BY <1>2 DEF Editing!ReferenceInvolved
    <2>2. CASE payload.contentGiven
      BY <1>2, <1>4, <2>1, <2>2 DEF Editing!ReferencesToRead, Editing!Explicit
    <2>3. CASE ~payload.contentGiven /\ payload.doc.kind # Editing!Reference
      BY <1>2, <2>1, <2>3 DEF Editing!ReferencesToRead, Editing!Explicit, Editing!ContentAfter, Editing!NamedBy
    <2>4. CASE ~payload.contentGiven /\ payload.doc.kind = Editing!Reference
      BY <1>2, <1>1, <2>1, <2>4 DEF Editing!ReferencesToRead, Editing!Explicit, Editing!ContentAfter
    <2>5. QED
      BY <2>2, <2>3, <2>4
  <1>6. (payload.doc.refs \cup Editing!NamedBy(Editing!ContentAfter(e, payload))) \subseteq Existing
          <=> (payload.doc.refs \cup Editing!NamedBy(Editing!ContentAfter(d, payload))) \subseteq Existing
    BY <1>4 DEF Editing!Sound
  <1>7. Editing!WithoutContent(u) # Editing!WithoutContent(e)
          <=> Editing!WithoutContent(t) # Editing!WithoutContent(d)
    <2>1. Editing!WithoutContent(u) = Editing!WithoutContent(t)
      BY <1>3 DEF Editing!WithoutContent, Editing!Shaped, Editing!Fields
    <2>2. Editing!WithoutContent(e) = Editing!WithoutContent(d)
      BY <1>1 DEF Editing!WithoutContent, Editing!Shaped, Editing!Fields
    <2>3. QED
      BY <2>1, <2>2
  <1>8. Editing!MayPropose(e, p, payload) <=> Editing!MayPropose(d, p, payload)
    BY DEF Editing!MayPropose
  <1>9. R(e) = R(d)
    BY <1>2, <1>5, <1>6, <1>7, <1>8 DEF Editing!Refusal, Editing!ReferenceInvolved
  <1>10. ASSUME R(d) = "ok" PROVE Editing!Changes(e, p, payload) <=> Editing!Changes(d, p, payload)
    <2>1. CASE opaque
      <3>1. Editing!Can(p, "write content")
        BY <1>10, <2>1 DEF Editing!Refusal, Editing!MayPropose, Editing!ReferenceInvolved
      <3>2. QED
        BY <1>2, <2>1, <3>1 DEF Editing!Changes, Editing!Blind, Editing!ReferenceInvolved
    <2>2. CASE ~opaque
      <3>1. /\ t = d <=> \A f \in Editing!Fields : t[f] = d[f]
            /\ u = e <=> \A f \in Editing!Fields : u[f] = e[f]
        <4> HIDE DEF t, u
        <4>1. QED
          BY <1>1, <1>3 DEF Editing!Shaped
      <3>2. t.content = d.content /\ u.content = e.content
        BY <1>1, <1>3, <1>4, <2>2
      <3>3. t = d <=> u = e
        <4> HIDE DEF t, u
        <4>1. QED
          BY <1>1, <1>3, <3>1, <3>2
      <3>4. QED
        BY <1>2, <2>2, <3>3 DEF Editing!Changes, Editing!Blind
    <2>3. QED
      BY <2>1, <2>2
  <1>11. Editing!Diff(e, p, payload) = Editing!Diff(d, p, payload)
    <2>1. {f \in DOMAIN e : u[f] # e[f]} \ {"content"} = {f \in DOMAIN d : t[f] # d[f]} \ {"content"}
      BY <1>1, <1>3 DEF Editing!Shaped, Editing!Fields
    <2>2. QED
      BY <1>2, <2>1 DEF Editing!Diff, Editing!ReferenceInvolved
  <1>12. Editing!Answer(e, at, p, payload, at) = Editing!Answer(d, at, p, payload, at)
    BY <1>9, <1>10 DEF Editing!Answer
  <1>13. Editing!PreviewAnswer(e, at, p, payload, at) = Editing!PreviewAnswer(d, at, p, payload, at)
    BY <1>9, <1>11, <1>12 DEF Editing!PreviewAnswer
  <1>14. QED
    BY <1>13 DEF e

LEMMA EditingSafe ==
    ASSUME EditingInv
    PROVE  Editing!TypeOK /\ Editing!HiddenContentShowsNothing /\ Editing!PreviewsTellUpdates
  <1>1. Editing!TypeOK
    <2>1. revision \in 1..(1 + MaxSaves)
      BY EditingAssumption DEF EditingInv, Editing!ConstantsSound
    <2>2. QED
      BY <2>1 DEF EditingInv, Editing!TypeOK
  <1>2. Editing!HiddenContentShowsNothing
    <2>1. SUFFICES ASSUME doc.kind = Editing!Reference, NEW c \in Clients,
                          ~Editing!Can(policy[c], "read content"),
                          NEW payload \in Editing!Proposals(Editing!Shown(doc, policy[c])),
                          NEW content \in Locators \cup {Absent}, Editing!NamedBy(content) \subseteq Existing
                   PROVE  Editing!PreviewAnswer([doc EXCEPT !.content = content], revision, policy[c], payload, revision)
                            = Editing!PreviewAnswer(doc, revision, policy[c], payload, revision)
      BY DEF Editing!HiddenContentShowsNothing
    <2>2. Editing!Sound(doc) /\ Editing!Shaped(Editing!Shown(doc, policy[c]))
      BY ShownShaped DEF EditingInv, Editing!Sound
    <2>3. Editing!Shaped(payload.doc) /\ payload.contentGiven \in BOOLEAN
      BY <2>2, ProposalsShaped
    <2>4. QED
      BY <2>1, <2>2, <2>3, ContentStaysHidden
  <1>3. Editing!PreviewsTellUpdates
    <2>1. SUFFICES ASSUME NEW c \in Clients, view[c] # Absent, view[c].etag = revision,
                          NEW payload \in Editing!Proposals(view[c].shown)
                   PROVE  LET preview == Editing!PreviewAnswer(doc, revision, policy[c], payload, view[c].etag)
                          IN  preview.told.changed <=> preview.diff # {}
      BY DEF Editing!PreviewsTellUpdates, EditingInv
    <2>2. Editing!Sound(doc) /\ Editing!Shaped(view[c].shown)
      BY <2>1 DEF EditingInv
    <2>3. Editing!Shaped(payload.doc) /\ payload.contentGiven \in BOOLEAN
      BY <2>2, ProposalsShaped
    <2>4. CASE Editing!Refusal(doc, revision, policy[c], payload, view[c].etag) = "ok"
      <3>1. Editing!Changes(doc, policy[c], payload) <=> Editing!Diff(doc, policy[c], payload) # {}
        BY <2>2, <2>3, <2>4, DiffTells
      <3>2. QED
        BY <2>4, <3>1 DEF Editing!PreviewAnswer, Editing!Answer, Editing!Told
    <2>5. CASE Editing!Refusal(doc, revision, policy[c], payload, view[c].etag) # "ok"
      BY <2>5 DEF Editing!PreviewAnswer, Editing!Answer, Editing!Told
    <2>6. QED
      BY <2>4, <2>5
  <1>4. QED
    BY <1>1, <1>2, <1>3

(* A command, answered as it is, changes the document within what its client may write. *)
WithinBounds(p, changed) ==
    /\ doc'.content # doc.content => Editing!Can(p, "write content")
    /\ [doc EXCEPT !.content = doc'.content, !.label = doc'.label] # doc' => Editing!Can(p, "write")
    /\ doc'.label # doc.label => Editing!Can(p, "write") \/ Editing!Can(p, "rename")
    /\ doc' # doc => changed
    /\ revision' = IF changed THEN revision + 1 ELSE revision

LEMMA ApplyWithinBounds ==
    ASSUME EditingInv, NEW c \in Clients, NEW via, NEW payload, NEW etag,
           Editing!Shaped(payload.doc), payload.contentGiven \in BOOLEAN,
           Editing!Apply(c, via, payload, etag)
    PROVE  last'.by = c /\ WithinBounds(policy[c], last'.changed)
  <1> DEFINE p == policy[c]
             told == Editing!Answer(doc, revision, p, payload, etag)
             t == Editing!Target(doc, payload)
  <1>1. /\ last' = [by |-> c, via |-> via, changed |-> told.changed]
        /\ doc' = IF told.outcome = "ok" THEN t ELSE doc
        /\ revision' = told.revision
    BY DEF Editing!Apply
  <1>2. Editing!Shaped(doc) /\ (doc.content # Absent => doc.kind = Editing!Reference)
    BY DEF EditingInv, Editing!Sound
  <1>3. Editing!Shaped(t) /\ t.content = Editing!ContentAfter(doc, payload) /\ t.kind = payload.doc.kind
    BY <1>2, TargetShaped DEF Editing!Fields
  <1>4. revision' = IF last'.changed THEN revision + 1 ELSE revision
    BY <1>1 DEF Editing!Answer, Editing!Told
  <1>5. CASE told.outcome # "ok"
    <2>1. doc' = doc
      BY <1>1, <1>5
    <2>2. [doc EXCEPT !.content = doc.content, !.label = doc.label] = doc
      BY <1>2 DEF Editing!Shaped
    <2>3. QED
      BY <1>1, <1>4, <2>1, <2>2 DEF WithinBounds
  <1>6. CASE told.outcome = "ok"
    <2>1. doc' = t /\ Editing!Refusal(doc, revision, p, payload, etag) = "ok"
      BY <1>1, <1>6 DEF Editing!Answer, Editing!Told
    <2>2. doc' # doc => last'.changed
      BY <1>1, <2>1 DEF Editing!Answer, Editing!Told, Editing!Changes
    <2>3. t.content # doc.content => Editing!Can(p, "write content")
      <3>1. CASE payload.doc.kind # Editing!Reference
        BY <1>2, <1>3, <2>1, <3>1 DEF Editing!ContentAfter, Editing!Refusal, Editing!ReferenceInvolved
      <3>2. CASE payload.doc.kind = Editing!Reference
        <4>1. Editing!MayPropose(doc, p, payload)
          BY <2>1, <3>2 DEF Editing!Refusal
        <4>2. \/ t.content = doc.content
              \/ payload.contentGiven /\ t.content = payload.doc.content
          BY <1>3, <3>2 DEF Editing!ContentAfter
        <4>3. QED
          BY <4>1, <4>2, Zenon DEF Editing!MayPropose
      <3>3. QED
        BY <3>1, <3>2
    <2>4. CASE Editing!Can(p, "write")
      BY <1>1, <1>4, <2>1, <2>2, <2>3, <2>4 DEF WithinBounds
    <2>5. CASE ~Editing!Can(p, "write")
      <3>1. Editing!WithoutContent(t) = Editing!WithoutContent(doc)
        BY <2>1, <2>5 DEF Editing!Refusal
      <3>2. \A f \in Editing!Fields \ {"content"} : t[f] = doc[f]
        BY <1>2, <1>3, <3>1 DEF Editing!WithoutContent, Editing!Shaped, Editing!Fields
      <3>3. t.label = doc.label
        BY <3>2 DEF Editing!Fields
      <3>4. [doc EXCEPT !.content = t.content, !.label = t.label] = t
        <4> HIDE DEF t
        <4>1. QED
          BY <1>2, <1>3, <3>2, <3>3 DEF Editing!Shaped, Editing!Fields
      <3>5. QED
        BY <1>1, <1>4, <2>1, <2>2, <2>3, <3>3, <3>4 DEF WithinBounds
    <2>6. QED
      BY <2>4, <2>5
  <1>7. QED
    BY <1>5, <1>6

LEMMA WritersStay ==
    ASSUME EditingInv, [Editing!Next]_editVars
    PROVE  Editing!WritersStayInTheirField
  <1> SUFFICES ASSUME saves' # saves PROVE WithinBounds(policy[last'.by], last'.changed)
    BY DEF Editing!WritersStayInTheirField, WithinBounds
  <1>1. PICK c \in Clients : Editing!Open(c) \/ Editing!Save(c) \/ Editing!Regrant(c)
    BY DEF Editing!Next, editVars
  <1>2. Editing!Save(c) /\ Editing!Shaped(doc)
    BY <1>1 DEF Editing!Open, Editing!Regrant, EditingInv, Editing!Sound
  <1>3. ASSUME NEW via, NEW payload, NEW etag, Editing!Shaped(payload.doc),
               payload.contentGiven \in BOOLEAN, Editing!Apply(c, via, payload, etag)
        PROVE  WithinBounds(policy[last'.by], last'.changed)
    BY <1>3, ApplyWithinBounds
  <1>4. CASE Editing!Update(c)
    <2>1. PICK payload \in Editing!Proposals(view[c].shown) :
              view[c] # Absent /\ Editing!Apply(c, "update", payload, view[c].etag)
      BY <1>4 DEF Editing!Update
    <2>2. Editing!Shaped(payload.doc) /\ payload.contentGiven \in BOOLEAN
      BY <2>1, ProposalsShaped DEF EditingInv
    <2>3. QED
      BY <1>3, <2>1, <2>2
  <1>5. CASE Editing!Rename(c)
    <2>1. PICK l \in Labels :
             LET changed == Editing!RenameRefusal(revision, policy[c], view[c].etag) = "ok" /\ l # doc.label
             IN  /\ doc' = IF changed THEN [doc EXCEPT !.label = l] ELSE doc
                 /\ revision' = IF changed THEN revision + 1 ELSE revision
                 /\ last' = [by |-> c, via |-> "rename", changed |-> changed]
      BY <1>5 DEF Editing!Rename
    <2>2. PICK changed :
             /\ changed = (Editing!RenameRefusal(revision, policy[c], view[c].etag) = "ok" /\ l # doc.label)
             /\ doc' = IF changed THEN [doc EXCEPT !.label = l] ELSE doc
             /\ revision' = IF changed THEN revision + 1 ELSE revision
             /\ last'.by = c /\ last'.changed = changed
      BY <2>1
    <2>3. CASE changed
      <3>1. doc' = [doc EXCEPT !.label = l] /\ Editing!Can(policy[c], "rename")
        BY <2>2, <2>3 DEF Editing!RenameRefusal
      <3>2. doc'.content = doc.content /\ [doc EXCEPT !.content = doc'.content, !.label = doc'.label] = doc'
        BY <1>2, <3>1 DEF Editing!Shaped, Editing!Fields
      <3>3. QED
        BY <2>2, <2>3, <3>1, <3>2 DEF WithinBounds
    <2>4. CASE ~changed
      <3>1. doc' = doc /\ [doc EXCEPT !.content = doc.content, !.label = doc.label] = doc
        BY <1>2, <2>2, <2>4 DEF Editing!Shaped
      <3>2. QED
        BY <2>2, <2>4, <3>1 DEF WithinBounds
    <2>5. QED
      BY <2>2, <2>3, <2>4
  <1>6. CASE \/ Editing!SaveNetwork(c) \/ Editing!SaveAccess(c) \/ Editing!SaveSoftware(c)
             \/ Editing!SaveComponents(c) \/ Editing!SaveRelease(c) \/ Editing!SaveMonitoring(c)
    BY <1>2, <1>3, <1>6, FormsShaped DEF Editing!SaveNetwork, Editing!SaveAccess, Editing!SaveSoftware,
       Editing!SaveComponents, Editing!SaveRelease, Editing!SaveMonitoring, Editing!SaveForm,
       Editing!NetworkForm, Editing!AccessForm, Editing!SoftwareForm, Editing!ComponentsForm,
       Editing!ReleaseForm, Editing!MonitoringForm, Editing!Payload
  <1>7. CASE Editing!SaveOverview(c)
    <2>1. PICK label \in Labels, status \in {"active", "inactive"}, refs \in SUBSET view[c].shown.refs :
             /\ view[c] # Absent
             /\ Editing!Apply(c, "overview", Editing!OverviewForm(doc, policy[c], label, status, refs), view[c].etag)
      BY <1>7 DEF Editing!SaveOverview, Editing!SaveForm
    <2>2. refs \subseteq Targets
      BY <2>1 DEF EditingInv, Editing!Shaped
    <2>3. Editing!OverviewForm(doc, policy[c], label, status, refs).contentGiven \in BOOLEAN
      BY DEF Editing!OverviewForm, Editing!Payload
    <2>4. QED
      BY <1>2, <1>3, <2>1, <2>2, <2>3, FormsShaped
  <1>8. CASE Editing!SaveContent(c)
    <2>1. \A v \in Locators : Editing!ContentForm(doc, v).contentGiven \in BOOLEAN
      BY DEF Editing!ContentForm, Editing!Payload
    <2>2. QED
      BY <1>2, <1>3, <1>8, <2>1, FormsShaped DEF Editing!SaveContent, Editing!SaveForm
  <1>9. QED
    BY <1>2, <1>4, <1>5, <1>6, <1>7, <1>8 DEF Editing!Save

-----------------------------------------------------------------------------
(* CatalogReferences is the same in the module that is run and in the proofs about it. *)

LEMMA SameAttachments ==
    /\ Attachments!DocumentsAreRecords = AttachmentsP!DocumentsAreRecords
    /\ Attachments!Init = AttachmentsP!Init /\ Attachments!Next = AttachmentsP!Next
    /\ Attachments!TypeOK = AttachmentsP!TypeOK /\ Attachments!CatalogSound = AttachmentsP!CatalogSound
  <1>1. Attachments!DocumentsAreRecords = AttachmentsP!DocumentsAreRecords
    BY DEF Attachments!Refs, AttachmentsP!Refs, Attachments!Kinds, AttachmentsP!Kinds,
           Attachments!Stored, AttachmentsP!Stored, Attachments!DocumentsAreRecords,
           AttachmentsP!DocumentsAreRecords
  <1>2. Attachments!Init = AttachmentsP!Init
    BY DEF Attachments!Init, AttachmentsP!Init
  <1>3. Attachments!Next = AttachmentsP!Next
    BY DEF Attachments!Ends, AttachmentsP!Ends, Attachments!Same, AttachmentsP!Same,
           Attachments!Refs, AttachmentsP!Refs, Attachments!Edges, AttachmentsP!Edges,
           Attachments!Resolves, AttachmentsP!Resolves, Attachments!Start,
           AttachmentsP!Start, Attachments!StartLink, AttachmentsP!StartLink,
           Attachments!StartUnlink, AttachmentsP!StartUnlink, Attachments!Live,
           AttachmentsP!Live, Attachments!Ref, AttachmentsP!Ref, Attachments!Acyclic,
           AttachmentsP!Acyclic, Attachments!Switch, AttachmentsP!Switch,
           Attachments!EndpointsAllowed, AttachmentsP!EndpointsAllowed,
           Attachments!ValidEdge, AttachmentsP!ValidEdge, Attachments!Arcs,
           AttachmentsP!Arcs, Attachments!GraphRules, AttachmentsP!GraphRules,
           Attachments!ValidCollection, AttachmentsP!ValidCollection,
           Attachments!Successions, AttachmentsP!Successions,
           Attachments!ReferenceBlockers, AttachmentsP!ReferenceBlockers,
           Attachments!UpsertAllowed, AttachmentsP!UpsertAllowed, Attachments!StartUpdate,
           AttachmentsP!StartUpdate, Attachments!StartDelete, AttachmentsP!StartDelete,
           Attachments!StartCreate, AttachmentsP!StartCreate, Attachments!End,
           AttachmentsP!End, Attachments!Refuse, AttachmentsP!Refuse, Attachments!Claimed,
           AttachmentsP!Claimed, Attachments!View, AttachmentsP!View, Attachments!Placed,
           AttachmentsP!Placed, Attachments!FinishLink, AttachmentsP!FinishLink,
           Attachments!FinishUnlink, AttachmentsP!FinishUnlink, Attachments!FinishUpdate,
           AttachmentsP!FinishUpdate, Attachments!FinishDelete, AttachmentsP!FinishDelete,
           Attachments!FinishCreate, AttachmentsP!FinishCreate, Attachments!Next,
           AttachmentsP!Next
  <1>4. Attachments!TypeOK = AttachmentsP!TypeOK
    BY DEF Attachments!Refs, AttachmentsP!Refs, Attachments!Edges, AttachmentsP!Edges,
           Attachments!Kinds, AttachmentsP!Kinds, Attachments!Stored, AttachmentsP!Stored,
           Attachments!TypeOK, AttachmentsP!TypeOK
  <1>5. Attachments!CatalogSound = AttachmentsP!CatalogSound
    BY DEF Attachments!Same, AttachmentsP!Same, Attachments!Acyclic, AttachmentsP!Acyclic,
           Attachments!Arcs, AttachmentsP!Arcs, Attachments!GraphRules,
           AttachmentsP!GraphRules, Attachments!GraphRulesHold,
           AttachmentsP!GraphRulesHold, Attachments!Live, AttachmentsP!Live,
           Attachments!Resolves, AttachmentsP!Resolves, Attachments!Switch,
           AttachmentsP!Switch, Attachments!EndpointsAllowed,
           AttachmentsP!EndpointsAllowed, Attachments!ValidEdge, AttachmentsP!ValidEdge,
           Attachments!Successions, AttachmentsP!Successions, Attachments!ReferencesHold,
           AttachmentsP!ReferencesHold, Attachments!CatalogSound,
           AttachmentsP!CatalogSound
  <1>6. QED
    BY <1>1, <1>2, <1>3, <1>4, <1>5

LEMMA SameUplinks ==
    /\ Uplinks!DocumentsAreRecords = UplinksP!DocumentsAreRecords
    /\ Uplinks!Init = UplinksP!Init /\ Uplinks!Next = UplinksP!Next
    /\ Uplinks!TypeOK = UplinksP!TypeOK /\ Uplinks!CatalogSound = UplinksP!CatalogSound
  <1>1. Uplinks!DocumentsAreRecords = UplinksP!DocumentsAreRecords
    BY DEF Uplinks!Refs, UplinksP!Refs, Uplinks!Kinds, UplinksP!Kinds, Uplinks!Stored,
           UplinksP!Stored, Uplinks!DocumentsAreRecords, UplinksP!DocumentsAreRecords
  <1>2. Uplinks!Init = UplinksP!Init
    BY DEF Uplinks!Init, UplinksP!Init
  <1>3. Uplinks!Next = UplinksP!Next
    BY DEF Uplinks!Ends, UplinksP!Ends, Uplinks!Same, UplinksP!Same, Uplinks!Refs, UplinksP!Refs,
           Uplinks!Edges, UplinksP!Edges, Uplinks!Resolves, UplinksP!Resolves,
           Uplinks!Start, UplinksP!Start, Uplinks!StartLink, UplinksP!StartLink,
           Uplinks!StartUnlink, UplinksP!StartUnlink, Uplinks!Live, UplinksP!Live,
           Uplinks!Ref, UplinksP!Ref, Uplinks!Acyclic, UplinksP!Acyclic, Uplinks!Switch,
           UplinksP!Switch, Uplinks!EndpointsAllowed, UplinksP!EndpointsAllowed,
           Uplinks!ValidEdge, UplinksP!ValidEdge, Uplinks!Arcs, UplinksP!Arcs,
           Uplinks!GraphRules, UplinksP!GraphRules, Uplinks!ValidCollection,
           UplinksP!ValidCollection, Uplinks!Successions, UplinksP!Successions,
           Uplinks!ReferenceBlockers, UplinksP!ReferenceBlockers, Uplinks!UpsertAllowed,
           UplinksP!UpsertAllowed, Uplinks!StartUpdate, UplinksP!StartUpdate,
           Uplinks!StartDelete, UplinksP!StartDelete, Uplinks!StartCreate,
           UplinksP!StartCreate, Uplinks!End, UplinksP!End, Uplinks!Refuse,
           UplinksP!Refuse, Uplinks!Claimed, UplinksP!Claimed, Uplinks!View, UplinksP!View,
           Uplinks!Placed, UplinksP!Placed, Uplinks!FinishLink, UplinksP!FinishLink,
           Uplinks!FinishUnlink, UplinksP!FinishUnlink, Uplinks!FinishUpdate,
           UplinksP!FinishUpdate, Uplinks!FinishDelete, UplinksP!FinishDelete,
           Uplinks!FinishCreate, UplinksP!FinishCreate, Uplinks!Next, UplinksP!Next
  <1>4. Uplinks!TypeOK = UplinksP!TypeOK
    BY DEF Uplinks!Refs, UplinksP!Refs, Uplinks!Edges, UplinksP!Edges, Uplinks!Kinds,
           UplinksP!Kinds, Uplinks!Stored, UplinksP!Stored, Uplinks!TypeOK,
           UplinksP!TypeOK
  <1>5. Uplinks!CatalogSound = UplinksP!CatalogSound
    BY DEF Uplinks!Same, UplinksP!Same, Uplinks!Acyclic, UplinksP!Acyclic, Uplinks!Arcs,
           UplinksP!Arcs, Uplinks!GraphRules, UplinksP!GraphRules, Uplinks!GraphRulesHold,
           UplinksP!GraphRulesHold, Uplinks!Live, UplinksP!Live, Uplinks!Resolves,
           UplinksP!Resolves, Uplinks!Switch, UplinksP!Switch, Uplinks!EndpointsAllowed,
           UplinksP!EndpointsAllowed, Uplinks!ValidEdge, UplinksP!ValidEdge,
           Uplinks!Successions, UplinksP!Successions, Uplinks!ReferencesHold,
           UplinksP!ReferencesHold, Uplinks!CatalogSound, UplinksP!CatalogSound
  <1>6. QED
    BY <1>1, <1>2, <1>3, <1>4, <1>5

LEMMA SamePlacements ==
    /\ Placements!DocumentsAreRecords = PlacementsP!DocumentsAreRecords
    /\ Placements!Init = PlacementsP!Init /\ Placements!Next = PlacementsP!Next
    /\ Placements!TypeOK = PlacementsP!TypeOK /\ Placements!CatalogSound = PlacementsP!CatalogSound
  <1>1. Placements!DocumentsAreRecords = PlacementsP!DocumentsAreRecords
    BY DEF Placements!Refs, PlacementsP!Refs, Placements!Kinds, PlacementsP!Kinds,
           Placements!Stored, PlacementsP!Stored, Placements!DocumentsAreRecords,
           PlacementsP!DocumentsAreRecords
  <1>2. Placements!Init = PlacementsP!Init
    BY DEF Placements!Init, PlacementsP!Init
  <1>3. Placements!Next = PlacementsP!Next
    BY DEF Placements!Ends, PlacementsP!Ends, Placements!Same, PlacementsP!Same, Placements!Refs,
           PlacementsP!Refs, Placements!Edges, PlacementsP!Edges, Placements!Resolves,
           PlacementsP!Resolves, Placements!Start, PlacementsP!Start, Placements!StartLink,
           PlacementsP!StartLink, Placements!StartUnlink, PlacementsP!StartUnlink,
           Placements!Live, PlacementsP!Live, Placements!Ref, PlacementsP!Ref,
           Placements!Acyclic, PlacementsP!Acyclic, Placements!Switch, PlacementsP!Switch,
           Placements!EndpointsAllowed, PlacementsP!EndpointsAllowed, Placements!ValidEdge,
           PlacementsP!ValidEdge, Placements!Arcs, PlacementsP!Arcs, Placements!GraphRules,
           PlacementsP!GraphRules, Placements!ValidCollection, PlacementsP!ValidCollection,
           Placements!Successions, PlacementsP!Successions, Placements!ReferenceBlockers,
           PlacementsP!ReferenceBlockers, Placements!UpsertAllowed,
           PlacementsP!UpsertAllowed, Placements!StartUpdate, PlacementsP!StartUpdate,
           Placements!StartDelete, PlacementsP!StartDelete, Placements!StartCreate,
           PlacementsP!StartCreate, Placements!End, PlacementsP!End, Placements!Refuse,
           PlacementsP!Refuse, Placements!Claimed, PlacementsP!Claimed, Placements!View,
           PlacementsP!View, Placements!Placed, PlacementsP!Placed, Placements!FinishLink,
           PlacementsP!FinishLink, Placements!FinishUnlink, PlacementsP!FinishUnlink,
           Placements!FinishUpdate, PlacementsP!FinishUpdate, Placements!FinishDelete,
           PlacementsP!FinishDelete, Placements!FinishCreate, PlacementsP!FinishCreate,
           Placements!Next, PlacementsP!Next
  <1>4. Placements!TypeOK = PlacementsP!TypeOK
    BY DEF Placements!Refs, PlacementsP!Refs, Placements!Edges, PlacementsP!Edges,
           Placements!Kinds, PlacementsP!Kinds, Placements!Stored, PlacementsP!Stored,
           Placements!TypeOK, PlacementsP!TypeOK
  <1>5. Placements!CatalogSound = PlacementsP!CatalogSound
    BY DEF Placements!Same, PlacementsP!Same, Placements!Acyclic, PlacementsP!Acyclic,
           Placements!Arcs, PlacementsP!Arcs, Placements!GraphRules,
           PlacementsP!GraphRules, Placements!GraphRulesHold, PlacementsP!GraphRulesHold,
           Placements!Live, PlacementsP!Live, Placements!Resolves, PlacementsP!Resolves,
           Placements!Switch, PlacementsP!Switch, Placements!EndpointsAllowed,
           PlacementsP!EndpointsAllowed, Placements!ValidEdge, PlacementsP!ValidEdge,
           Placements!Successions, PlacementsP!Successions, Placements!ReferencesHold,
           PlacementsP!ReferencesHold, Placements!CatalogSound, PlacementsP!CatalogSound
  <1>6. QED
    BY <1>1, <1>2, <1>3, <1>4, <1>5

LEMMA SameSuccessors ==
    /\ Successors!DocumentsAreRecords = SuccessorsP!DocumentsAreRecords
    /\ Successors!Init = SuccessorsP!Init /\ Successors!Next = SuccessorsP!Next
    /\ Successors!TypeOK = SuccessorsP!TypeOK /\ Successors!CatalogSound = SuccessorsP!CatalogSound
  <1>1. Successors!DocumentsAreRecords = SuccessorsP!DocumentsAreRecords
    BY DEF Successors!Refs, SuccessorsP!Refs, Successors!Kinds, SuccessorsP!Kinds,
           Successors!Stored, SuccessorsP!Stored, Successors!DocumentsAreRecords,
           SuccessorsP!DocumentsAreRecords
  <1>2. Successors!Init = SuccessorsP!Init
    BY DEF Successors!Init, SuccessorsP!Init
  <1>3. Successors!Next = SuccessorsP!Next
    BY DEF Successors!Ends, SuccessorsP!Ends, Successors!Same, SuccessorsP!Same, Successors!Refs,
           SuccessorsP!Refs, Successors!Edges, SuccessorsP!Edges, Successors!Resolves,
           SuccessorsP!Resolves, Successors!Start, SuccessorsP!Start, Successors!StartLink,
           SuccessorsP!StartLink, Successors!StartUnlink, SuccessorsP!StartUnlink,
           Successors!Live, SuccessorsP!Live, Successors!Ref, SuccessorsP!Ref,
           Successors!Acyclic, SuccessorsP!Acyclic, Successors!Switch, SuccessorsP!Switch,
           Successors!EndpointsAllowed, SuccessorsP!EndpointsAllowed, Successors!ValidEdge,
           SuccessorsP!ValidEdge, Successors!Arcs, SuccessorsP!Arcs, Successors!GraphRules,
           SuccessorsP!GraphRules, Successors!ValidCollection, SuccessorsP!ValidCollection,
           Successors!Successions, SuccessorsP!Successions, Successors!ReferenceBlockers,
           SuccessorsP!ReferenceBlockers, Successors!UpsertAllowed,
           SuccessorsP!UpsertAllowed, Successors!StartUpdate, SuccessorsP!StartUpdate,
           Successors!StartDelete, SuccessorsP!StartDelete, Successors!StartCreate,
           SuccessorsP!StartCreate, Successors!End, SuccessorsP!End, Successors!Refuse,
           SuccessorsP!Refuse, Successors!Claimed, SuccessorsP!Claimed, Successors!View,
           SuccessorsP!View, Successors!Placed, SuccessorsP!Placed, Successors!FinishLink,
           SuccessorsP!FinishLink, Successors!FinishUnlink, SuccessorsP!FinishUnlink,
           Successors!FinishUpdate, SuccessorsP!FinishUpdate, Successors!FinishDelete,
           SuccessorsP!FinishDelete, Successors!FinishCreate, SuccessorsP!FinishCreate,
           Successors!Next, SuccessorsP!Next
  <1>4. Successors!TypeOK = SuccessorsP!TypeOK
    BY DEF Successors!Refs, SuccessorsP!Refs, Successors!Edges, SuccessorsP!Edges,
           Successors!Kinds, SuccessorsP!Kinds, Successors!Stored, SuccessorsP!Stored,
           Successors!TypeOK, SuccessorsP!TypeOK
  <1>5. Successors!CatalogSound = SuccessorsP!CatalogSound
    BY DEF Successors!Same, SuccessorsP!Same, Successors!Acyclic, SuccessorsP!Acyclic,
           Successors!Arcs, SuccessorsP!Arcs, Successors!GraphRules,
           SuccessorsP!GraphRules, Successors!GraphRulesHold, SuccessorsP!GraphRulesHold,
           Successors!Live, SuccessorsP!Live, Successors!Resolves, SuccessorsP!Resolves,
           Successors!Switch, SuccessorsP!Switch, Successors!EndpointsAllowed,
           SuccessorsP!EndpointsAllowed, Successors!ValidEdge, SuccessorsP!ValidEdge,
           Successors!Successions, SuccessorsP!Successions, Successors!ReferencesHold,
           SuccessorsP!ReferencesHold, Successors!CatalogSound, SuccessorsP!CatalogSound
  <1>6. QED
    BY <1>1, <1>2, <1>3, <1>4, <1>5

-----------------------------------------------------------------------------
(* The component at work keeps its invariant; no token is published by the others.   *)
PartInv ==
    /\ part = "revisions" => IInv
    /\ part # "revisions" => published = {} /\ answer = NoAnswer
    /\ part = "editing" => EditingInv
    /\ part = "attachments" => AttachmentsP!IInv
    /\ part = "uplinks" => UplinksP!IInv
    /\ part = "placements" => PlacementsP!IInv
    /\ part = "decisions" => SuccessorsP!IInv

LEMMA PartInit == ASSUME MCInit PROVE PartInv
  <1>1. CASE part = "revisions" /\ Init
    BY <1>1, InitEstablishes DEF PartInv
  <1>2. CASE part = "editing" /\ Editing!Init /\ RestRevisions
    BY <1>2, EditingStarts DEF PartInv, RestRevisions
  <1>3. CASE part = "attachments" /\ Attachments!Init /\ RestRevisions
    BY <1>3, SameAttachments, AttachmentsP!InitIInv DEF PartInv, RestRevisions
  <1>4. CASE part = "uplinks" /\ Uplinks!Init /\ RestRevisions
    BY <1>4, SameUplinks, UplinksP!InitIInv DEF PartInv, RestRevisions
  <1>5. CASE part = "placements" /\ Placements!Init /\ RestRevisions
    BY <1>5, SamePlacements, PlacementsP!InitIInv DEF PartInv, RestRevisions
  <1>6. CASE part = "decisions" /\ Successors!Init /\ RestRevisions
    BY <1>6, SameSuccessors, SuccessorsP!InitIInv DEF PartInv, RestRevisions
  <1>7. QED
    BY <1>1, <1>2, <1>3, <1>4, <1>5, <1>6 DEF MCInit

LEMMA PartStep == ASSUME PartInv, [MCNext]_allVars PROVE PartInv'
  <1>1. CASE UNCHANGED allVars
    <2>1. UNCHANGED <<part, vars, catalogVars, editVars>> /\ UNCHANGED <<published, answer, dialect>>
      BY <1>1 DEF allVars, vars
    <2>2. part = "revisions" => IInv'
      BY <2>1, NextPreserves DEF PartInv
    <2>3. part = "editing" => EditingInv'
      BY <2>1, EditingStep DEF PartInv
    <2>4. part = "attachments" => AttachmentsP!IInv'
      BY <2>1, SameAttachments, DocumentsAssumption, AttachmentsP!NextIInv DEF PartInv, AttachmentsP!vars, catalogVars
    <2>5. part = "uplinks" => UplinksP!IInv'
      BY <2>1, SameUplinks, DocumentsAssumption, UplinksP!NextIInv DEF PartInv, UplinksP!vars, catalogVars
    <2>6. part = "placements" => PlacementsP!IInv'
      BY <2>1, SamePlacements, DocumentsAssumption, PlacementsP!NextIInv DEF PartInv, PlacementsP!vars, catalogVars
    <2>7. part = "decisions" => SuccessorsP!IInv'
      BY <2>1, SameSuccessors, DocumentsAssumption, SuccessorsP!NextIInv DEF PartInv, SuccessorsP!vars, catalogVars
    <2>8. QED
      BY <2>1, <2>2, <2>3, <2>4, <2>5, <2>6, <2>7 DEF PartInv
  <1>2. CASE MCNext
    <2>1. UNCHANGED part
      BY <1>2 DEF MCNext
    <2>2. CASE part = "revisions" /\ Next
      BY <2>1, <2>2, NextPreserves DEF PartInv
    <2>3. CASE part = "editing" /\ Editing!Next /\ UNCHANGED vars
      BY <2>1, <2>3, EditingStep DEF PartInv, vars
    <2>4. CASE part = "attachments" /\ Attachments!Next /\ RevisionsRest
      <3>1. AttachmentsP!IInv'
        BY <2>4, SameAttachments, DocumentsAssumption, AttachmentsP!NextIInv DEF PartInv
      <3>2. QED
        BY <2>1, <2>4, <3>1 DEF PartInv, RevisionsRest
    <2>5. CASE part = "uplinks" /\ Uplinks!Next /\ RevisionsRest
      <3>1. UplinksP!IInv'
        BY <2>5, SameUplinks, DocumentsAssumption, UplinksP!NextIInv DEF PartInv
      <3>2. QED
        BY <2>1, <2>5, <3>1 DEF PartInv, RevisionsRest
    <2>6. CASE part = "placements" /\ Placements!Next /\ RevisionsRest
      <3>1. PlacementsP!IInv'
        BY <2>6, SamePlacements, DocumentsAssumption, PlacementsP!NextIInv DEF PartInv
      <3>2. QED
        BY <2>1, <2>6, <3>1 DEF PartInv, RevisionsRest
    <2>7. CASE part = "decisions" /\ Successors!Next /\ RevisionsRest
      <3>1. SuccessorsP!IInv'
        BY <2>7, SameSuccessors, DocumentsAssumption, SuccessorsP!NextIInv DEF PartInv
      <3>2. QED
        BY <2>1, <2>7, <3>1 DEF PartInv, RevisionsRest
    <2>8. QED
      BY <1>2, <2>2, <2>3, <2>4, <2>5, <2>6, <2>7 DEF MCNext
  <1>3. QED
    BY <1>1, <1>2

LEMMA PartsAlways == MCSpec => []PartInv
  <1>1. MCInit => PartInv
    BY PartInit
  <1>2. PartInv /\ [MCNext]_allVars => PartInv'
    BY PartStep
  <1>3. QED
    BY <1>1, <1>2, PTL DEF MCSpec

(* The types of the revisions, and in every kind of catalog graph: the rules of the   *)
(* relationship graph on every database, and on PostgreSQL that relationships and     *)
(* references lead to what they name (validate_relationship_collection,             *)
(* plan_object_upsert, delete_object).                                         *)
THEOREM CatalogSoundHolds == MCSpec => []CatalogSound
  <1>1. PartInv => CatalogSound
    <2>1. IInv => TypeOK
      BY DEF IInv
    <2>2. QED
      BY <2>1, SameAttachments, SameUplinks, SamePlacements, SameSuccessors, AttachmentsP!SafeIInv,
         UplinksP!SafeIInv, PlacementsP!SafeIInv, SuccessorsP!SafeIInv DEF PartInv, CatalogSound
  <1>2. QED
    BY <1>1, PartsAlways, PTL

(* Neither the answer of an update nor its preview depends on content that the client  *)
(* may not read, and a preview shows a difference if and only if the update it was     *)
(* made for changes the document (services/commands.py, domain/update_preview.py).    *)
THEOREM EditsToldHolds == MCSpec => []EditsTold
  <1>1. PartInv => EditsTold
    BY EditingSafe DEF PartInv, EditsTold
  <1>2. QED
    BY <1>1, PartsAlways, PTL

(* Content changes for who may write content, the label for who may rename, the rest    *)
(* for who may write, and every change takes a revision: a part of what EditsKeepTheRest *)
(* says of the commands and forms (services/commands.py: update_catalog_object).        *)
THEOREM WritersStayInBounds == MCSpec => [][part = "editing" => Editing!WritersStayInTheirField]_editVars
  <1>1. PartInv /\ [MCNext]_allVars => [part = "editing" => Editing!WritersStayInTheirField]_editVars
    <2>1. SUFFICES ASSUME PartInv, [MCNext]_allVars, part = "editing", editVars' # editVars
                   PROVE  Editing!WritersStayInTheirField
      OBVIOUS
    <2>2. Editing!Next
      BY <2>1 DEF MCNext, allVars, editVars
    <2>3. QED
      BY <2>1, <2>2, WritersStay DEF PartInv
  <1>2. QED
    BY <1>1, PartsAlways, PTL DEF MCSpec
=============================================================================
