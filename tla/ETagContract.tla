---------------------------- MODULE ETagContract ----------------------------
(***************************************************************************)
(* What docs/object-concurrency.md promises to every client that holds a   *)
(* strong ETag "rev-N" of a catalog object: the token names one stored     *)
(* representation for ever.  An object ID holds one representation at a    *)
(* time (or none); a new representation is always published under a        *)
(* revision above every revision ever published for that ID, also after a  *)
(* delete and a re-create; a conditional write is applied to the very      *)
(* representation its token was issued for, or refused.                    *)
(*                                                                         *)
(* RevisionClock.tla, the triggers and the commands of the code, is shown  *)
(* to implement this specification.                                        *)
(***************************************************************************)
EXTENDS Naturals

CONSTANTS Ids,              \* object IDs
          Revisions,        \* the revision numbers a token can carry
          Representations,  \* what a row can hold: an incarnation and its content
          Absent            \* no row

VARIABLES current,    \* Ids -> the published token and representation, or Absent
          published   \* every token ever published with what it stood for

contractVars == <<current, published>>

Tokens == [id: Ids, revision: Revisions, representation: Representations]

TypeOK ==
    /\ current \in [Ids -> Tokens \cup {Absent}]
    /\ published \subseteq Tokens

(* The catalog may start with objects; their tokens are the published ones. *)
Init ==
    /\ TypeOK
    /\ \A i \in Ids : current[i] # Absent => current[i].id = i
    /\ published = {current[i] : i \in {j \in Ids : current[j] # Absent}}

(* A revision above all that were ever published for this ID.              *)
Fresh(i, n) == \A t \in published : t.id = i => t.revision < n

Publish(token) ==
    /\ Fresh(token.id, token.revision)
    /\ published' = published \cup {token}

(* The ID, whether or not it holds a row, now holds what its new token says. *)
Store(token) == current' = [current EXCEPT ![token.id] = token]

(* A row that takes another ID leaves the old one and appears at the new.   *)
Rekey(i, token) ==
    /\ i # token.id
    /\ current[i] # Absent
    /\ current[token.id] = Absent
    /\ current' = [current EXCEPT ![i] = Absent, ![token.id] = token]

Remove(i) ==
    /\ current[i] # Absent
    /\ current' = [current EXCEPT ![i] = Absent]
    /\ UNCHANGED published

Next ==
    \/ \E i \in Ids : Remove(i)
    \/ \E token \in Tokens : Publish(token) /\ (Store(token) \/ \E i \in Ids : Rekey(i, token))

Spec == Init /\ [][Next]_contractVars
=============================================================================
