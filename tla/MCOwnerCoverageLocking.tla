----------------------- MODULE MCOwnerCoverageLocking -----------------------
EXTENDS OwnerCoverageLocking, TLC

CONSTANTS w1, w2, w3, o1

TwoPrincipals == 1..2
MCObjects == {o1}
TwoWorkers == {w1, w2}
ThreeWorkers == {w1, w2, w3}
BothDialects == {"sqlite", "postgresql"}

(* Workers differ in their jobs only, so that one order of the initial jobs   *)
(* stands for all of them: every behaviour is one of these with the workers   *)
(* renamed, and the properties name no worker.                              *)
Kinds == <<"deactivate", "demote", "grant", "promote", "revoke">>
Rank(j) == 2 * (CHOOSE k \in DOMAIN Kinds : Kinds[k] = j.kind) + j.principal
JobsOrdered == Rank(job[w1]) <= Rank(job[w2]) /\ Rank(job[w2]) <= Rank(job[w3])
OrderedInit == Init /\ JobsOrdered
OrderedSpec == OrderedInit /\ [][Next]_vars /\ \A w \in Workers : WF_vars(Step(w))
=============================================================================
