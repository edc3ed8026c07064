------------------------- MODULE MCIdempotentCommands -------------------------
EXTENDS IdempotentCommands, TLC

CONSTANTS a1, a2, a3, k1, k2, x, y

MCAttempts == {a1, a2, a3}
MCKeys == {k1, k2}
CommentX == [op |-> "comment", body |-> x]
CommentY == [op |-> "comment", body |-> y]
CreateX == [op |-> "create", body |-> x]
CreateY == [op |-> "create", body |-> y]
ThreeRequests == {CommentX, CommentY, CreateX}
FourRequests == {CommentX, CommentY, CreateX, CreateY}
BothDialects == {"sqlite", "postgresql"}
Sqlite == {"sqlite"}

(* Attempts differ in their jobs only, so that one order of the jobs stands for    *)
(* all of them: every behaviour is one of these with the attempts renamed, and    *)
(* the properties name no attempt.                                          *)
Order == <<CommentX, CommentY, CreateX>>
Rank(j) == 2 * (CHOOSE n \in DOMAIN Order : Order[n] = j.request) + (IF j.key = k1 THEN 0 ELSE 1)
JobsOrdered == Rank(job[a1]) <= Rank(job[a2]) /\ Rank(job[a2]) <= Rank(job[a3])

Symmetry == Permutations(MCAttempts) \cup Permutations(MCKeys) \cup Permutations({x, y})
=============================================================================
