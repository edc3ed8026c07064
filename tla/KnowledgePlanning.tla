-------------------------- MODULE KnowledgePlanning --------------------------
(***************************************************************************)
(* The write-free planner of services/knowledge_planning.py, as operators on   *)
(* a reviewed manifest m (a set of classification entries) and a plan p: the    *)
(* manifest with the state of every object and relation that it names, as the   *)
(* target snapshot gives them.  A digest is the value that it is a digest of,   *)
(* and an object's document is one value.                                    *)
(***************************************************************************)
EXTENDS Naturals, FiniteSets

CONSTANTS Refs,      \* typed references of catalog objects
          Assets,    \* those of a kind in ASSET_KINDS
          Values,    \* documents of an object
          Manifests, \* sets of entries under review
          None

VARIABLE db  \* the SQLite file: objects, relations, owner, log, applied, undone, stamps

Relations == {k \in Refs \X Refs : k[1] # k[2]}

Entries == [id: STRING, target: Refs \cup {None}, value: Values \cup {None},
            relations: SUBSET Relations, provenance: {"explicit", "preserve_existing", "unknown"},
            blocked: BOOLEAN]

ObjectStates == [revision: Nat \ {0}, value: Values]

(* What the target snapshot of manifest m must give evidence of.              *)
Targets(m) == {e.target : e \in m} \ {None}
Group(m, t) == {e \in m : e.target = t}
Declared(m, t) == UNION {e.relations : e \in Group(m, t)}
AllDeclared(m) == UNION {Declared(m, t) : t \in Targets(m)}
RequiredRefs(m) == Targets(m) \cup UNION {{k[1], k[2]} : k \in AllDeclared(m)}

(* A plan as the planner builds it from the catalog d.                        *)
PlanFor(m, d) ==
    [manifest |-> m,
     objects |-> [r \in RequiredRefs(m) |-> d.objects[r]],
     relations |-> AllDeclared(m) \cap d.relations]

Present(p, t) == p.objects[t] # None
Mapped(p, t) == {e.value : e \in Group(p.manifest, t)} \ {None}
Provenances(p, t) == {e.provenance : e \in Group(p.manifest, t)}

(* validate_coverage: two entries never map one field to different values.     *)
ValidManifest(m) == \A t \in Targets(m) : Cardinality({e.value : e \in Group(m, t)} \ {None}) <= 1

(* What the plan makes of target t.                                           *)
CandidateValue(p, t) ==
    IF Mapped(p, t) = {} THEN p.objects[t].value ELSE CHOOSE v \in Mapped(p, t) : TRUE

TargetAction(p, t) ==
    CASE ~Present(p, t) -> "new"
      [] Present(p, t) /\ CandidateValue(p, t) # p.objects[t].value -> "update"
      [] OTHER -> "unchanged"

(* A new object needs its fields; an asset fact needs an existing asset.        *)
TargetBlocked(p, t) ==
    \/ \E e \in Group(p.manifest, t) : e.blocked
    \/ Cardinality(Provenances(p, t)) > 1
    \/ ~Present(p, t) /\ (Mapped(p, t) = {} \/ t \in Assets)

(* An entry that is blocked blocks the plan, whether or not it has a target.   *)
ApplyReady(p) ==
    /\ \A e \in p.manifest : ~e.blocked
    /\ \A t \in Targets(p.manifest) : ~TargetBlocked(p, t)

NewRelations(p, t) == Declared(p.manifest, t) \ p.relations

(* The summary that the apply is held to.  Relations are counted per target.   *)
Expected(p) ==
    LET count(action) == Cardinality({t \in Targets(p.manifest) : TargetAction(p, t) = action})
    IN  [new |-> count("new"), update |-> count("update"),
         relations |-> Cardinality(
             {c \in Targets(p.manifest) \X Relations : c[2] \in NewRelations(p, c[1])})]

(* What the apply accepts beyond a ready plan: explicit provenance for what is  *)
(* new, and assets that keep theirs.                                         *)
Materializes(p) ==
    \A t \in Targets(p.manifest) :
        IF t \in Assets
        THEN Present(p, t) /\ Provenances(p, t) = {"preserve_existing"}
        ELSE IF Present(p, t)
        THEN Provenances(p, t) \subseteq {"explicit", "preserve_existing"}
        ELSE Provenances(p, t) = {"explicit"}
=============================================================================
