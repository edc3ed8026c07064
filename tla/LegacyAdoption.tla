---------------------------- MODULE LegacyAdoption ----------------------------
(***************************************************************************)
(* The adoption of one text list of a project (open_questions, blockers or      *)
(* next_actions) by structured records (services/project_management.py).  The    *)
(* entries have no identity of their own: an entry that was adopted is found      *)
(* again by its text while that is unique, and else only in the very list that    *)
(* it was imported from.  Every action is one transaction under the project's      *)
(* ETag, which an edit of the list changes as well.                             *)
(***************************************************************************)
EXTENDS Integers, Sequences, FiniteSets, SequencesExt

CONSTANTS Texts, MaxEntries, \* bound: entries of the list
          MaxAdoptions       \* bound: records

ConstantsSound == MaxEntries \in Nat /\ MaxAdoptions \in Nat

VARIABLES
    list,     \* the field of the project's data_json
    adopted,  \* records with a legacy origin, each with the data of its import event
    most      \* for checking: the most often that each text stood in the list at once

vars == <<list, adopted, most>>

Origin == [index: 1..MaxEntries, text: Texts, source: SeqOf(Texts, MaxEntries)]

Occurrences(values, text) == Cardinality({i \in 1..Len(values) : values[i] = text})

(* _legacy_match of entry i; the fingerprint of a list stands for the list.      *)
Candidates(i) == {r \in adopted : r.text = list[i]}

(* A unique text that one record was made of when it was unique, too, ...         *)
ByText(i) ==
    {r \in Candidates(i) :
        /\ Occurrences(list, list[i]) = 1 /\ Cardinality(Candidates(i)) = 1
        /\ Occurrences(r.source, r.text) = 1}

(* Seeded fault: the position decides, whatever list the record was imported from. *)
NeverAmbiguous(i) == FALSE

Ambiguous(i) == ByText(i) = {} /\ \E r \in Candidates(i) : r.source # list

(* ... and else the record of this position in this list.                       *)
Matches(i) ==
    IF ByText(i) # {} \/ Ambiguous(i) THEN ByText(i) ELSE {r \in Candidates(i) : r.index = i}

Authority(i) ==
    IF Ambiguous(i) THEN "reconciliation_required"
    ELSE IF Matches(i) # {} THEN "record" ELSE "legacy"

-----------------------------------------------------------------------------
Init == list = <<>> /\ adopted = {} /\ most = [t \in Texts |-> 0]

(* An update of the project object gives the field any value.                   *)
EditList ==
    /\ list' \in SeqOf(Texts, MaxEntries) \ {list}
    /\ most' = [t \in Texts |-> LET n == Occurrences(list', t) IN IF n > most[t] THEN n ELSE most[t]]
    /\ UNCHANGED adopted

(* import_legacy; an entry that has its record is answered with it.             *)
ImportLegacy(i) ==
    /\ i \in 1..Len(list) /\ Authority(i) = "legacy" /\ Cardinality(adopted) < MaxAdoptions
    /\ ~\E r \in adopted : r.index = i /\ r.text = list[i]   \* validate_record
    /\ adopted' = adopted \cup {[index |-> i, text |-> list[i], source |-> list]}
    /\ UNCHANGED <<list, most>>

Next == EditList \/ \E i \in 1..MaxEntries : ImportLegacy(i)

Spec == Init /\ [][Next]_vars

-----------------------------------------------------------------------------
TypeOK == list \in SeqOf(Texts, MaxEntries) /\ adopted \subseteq Origin

(* No occurrence becomes two records, whatever is added, reordered or removed      *)
(* between the imports: a text has no more records than it ever had occurrences    *)
(* at once, and no record stands for two entries, nor two records for one.       *)
AdoptedOnce ==
    /\ \A t \in Texts : Cardinality({r \in adopted : r.text = t}) <= most[t]
    /\ \A i, j \in 1..Len(list) :
           /\ Cardinality(Matches(i)) <= 1
           /\ i # j => Matches(i) \cap Matches(j) = {}
=============================================================================
