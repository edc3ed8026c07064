--------------------------- MODULE MCKnowledgeApply ---------------------------
EXTENDS KnowledgeApply, TLC

CONSTANTS w1, host, doc, note

OneWorker == {w1}
ThreeObjects == {host, doc, note}
Hosts == {host}

(* One new document on an existing host; a note that no entry is about.         *)
OneDocument ==
    {{[id |-> "e1", target |-> doc, value |-> "b", relations |-> {<<doc, host>>},
       provenance |-> "explicit", blocked |-> FALSE]}}

MCInit ==
    /\ Init
    /\ db.objects = (host :> [revision |-> 1, value |-> "a"]
                     @@ doc :> None @@ note :> [revision |-> 1, value |-> "a"])
MCSpec == MCInit /\ [][Next]_vars
=============================================================================
