--------------------------- MODULE MCRevisionClock ---------------------------
(* Two IDs, so that a row can move to an ID with a history; two              *)
(* incarnations, so that a deleted ID is taken again by a different object.  *)
(* Of two contents one is unassigned, so the contents are not symmetric.     *)
EXTENDS RevisionClock, TLC

Symmetry == Permutations(Ids) \cup Permutations(Instances)
=============================================================================
