------------------------ MODULE ObjectOwnershipProofs ------------------------
(***************************************************************************)
(* Machine-checked facts about ObjectOwnership for every set of objects,    *)
(* principals, kinds and roles and every number of grants.                  *)
(*                                                                         *)
(* The coverage theorem splits the commands by what they do to the graph:   *)
(* those that only add to it, those that touch one object nothing refers    *)
(* to, and those that take something away and compare the coverage of the   *)
(* objects they affect.  Access management splits by whose grant it is.     *)
(***************************************************************************)
EXTENDS ObjectOwnership, TLAPS

(* Most steps need one of the two only.                                       *)
Inv == TypeOK /\ StructureSound

-----------------------------------------------------------------------------
(* Types and structure.                                                     *)

LEMMA AddObjectTypes ==
    ASSUME TypeOK, NEW p \in Principals, NEW o \in Objects, NEW k \in Kinds, AddObject(p, o, k)
    PROVE  kind' \in [Objects -> Kinds \cup {Absent}] /\ grants' \subseteq Grants
  <1>1. OwnerSelf(p, o) \in Grants
    BY RolesAssumption DEF OwnerSelf, Grants, Scopes
  <1>2. QED
    BY <1>1 DEF TypeOK, AddObject

LEMMA AddObjectStructure ==
    ASSUME TypeOK, StructureSound,
           NEW p \in Principals, NEW o \in Objects, NEW k \in Kinds, AddObject(p, o, k)
    PROVE  /\ \A x \in Objects : Exists(x) => kind'[x] = kind[x]
           /\ kind'[o] = k
           /\ \A g \in grants' : Exists(g.object)'
  <1>1. k # Absent /\ ~Exists(o)
    BY KindsAssumption DEF AddObject
  <1>2. \A x \in Objects : Exists(x) => kind'[x] = kind[x]
    BY <1>1 DEF AddObject, Exists, TypeOK
  <1>3. kind'[o] = k
    BY DEF AddObject, TypeOK
  <1>4. \A g \in grants : Exists(g.object)'
    BY <1>2 DEF StructureSound, Exists, TypeOK, Grants
  <1>5. Exists(OwnerSelf(p, o).object)'
    BY <1>1, <1>3 DEF Exists, OwnerSelf
  <1>6. QED
    BY <1>2, <1>3, <1>4, <1>5 DEF AddObject

(* An edge whose ends have the kinds of the edge has stored ends.           *)
LEMMA EdgesKeepKinds ==
    ASSUME StructureSound, TypeOK,
           \A x \in Objects : Exists(x) => kind'[x] = kind[x]
    PROVE  /\ \A e \in placement : <<kind'[e[1]], kind'[e[2]]>> \in PlacementPairs
           /\ \A e \in responsibility :
                 kind'[e[1]] = "runbook" /\ kind'[e[2]] \in ResponsibilityKinds
  <1>1. Absent # "runbook" /\ Absent \notin ResponsibilityKinds
    BY KindsAssumption DEF AllKinds
  <1>2. \A e \in placement : e[1] \in Objects /\ e[2] \in Objects
    BY DEF TypeOK
  <1>3. \A e \in responsibility : e[1] \in Objects /\ e[2] \in Objects
    BY DEF TypeOK
  <1>4. ASSUME NEW e \in placement
        PROVE  <<kind'[e[1]], kind'[e[2]]>> \in PlacementPairs
    <2>1. <<kind[e[1]], kind[e[2]]>> \in PlacementPairs
      BY DEF StructureSound
    <2>2. kind[e[1]] \in ResponsibilityKinds /\ kind[e[2]] \in ResponsibilityKinds
      BY <2>1 DEF PlacementPairs, ResponsibilityKinds
    <2>3. QED
      BY <1>1, <1>2, <2>1, <2>2 DEF Exists
  <1>5. ASSUME NEW e \in responsibility
        PROVE  kind'[e[1]] = "runbook" /\ kind'[e[2]] \in ResponsibilityKinds
    BY <1>1, <1>3 DEF StructureSound, Exists
  <1>6. QED
    BY <1>4, <1>5

(* A kind that only an object nothing refers to gives up or changes.         *)
LEMMA UnreferencedKeepsEdges ==
    ASSUME StructureSound, TypeOK, NEW o \in Objects, ~Referenced(o),
           \A x \in Objects \ {o} : kind'[x] = kind[x]
    PROVE  /\ \A e \in placement : <<kind'[e[1]], kind'[e[2]]>> \in PlacementPairs
           /\ \A e \in responsibility :
                 kind'[e[1]] = "runbook" /\ kind'[e[2]] \in ResponsibilityKinds
  <1>1. ASSUME NEW e \in placement \cup responsibility
        PROVE  e[1] \in Objects \ {o} /\ e[2] \in Objects \ {o}
    <2>1. PICK x \in Objects, y \in Objects : e = <<x, y>>
      BY DEF TypeOK
    <2>2. x # o /\ y # o
      BY <2>1 DEF Referenced
    <2>3. QED
      BY <2>1, <2>2
  <1>2. QED
    BY <1>1 DEF StructureSound

LEMMA CreationKeepsInv ==
    ASSUME Inv, Creation
    PROVE  Inv'
  <1>1. PICK a \in Principals, o \in Objects, k \in Kinds :
            \/ CreateRoot(a, o, k)
            \/ \E parent \in Objects : CreateChild(a, parent, o, k)
            \/ ImportObject(a, o, k)
    BY DEF Creation
  <1>2. AddObject(a, o, k) /\ UNCHANGED <<responsibility, active, catalogOwner>>
    BY <1>1 DEF CreateRoot, CreateChild, ImportObject
  <1>3. kind' \in [Objects -> Kinds \cup {Absent}] /\ grants' \subseteq Grants
    BY <1>2, AddObjectTypes DEF Inv
  <1>4. /\ \A x \in Objects : Exists(x) => kind'[x] = kind[x]
        /\ kind'[o] = k
        /\ \A g \in grants' : Exists(g.object)'
    BY <1>2, AddObjectStructure DEF Inv
  <1>5. /\ \A e \in placement : <<kind'[e[1]], kind'[e[2]]>> \in PlacementPairs
        /\ \A e \in responsibility :
                 kind'[e[1]] = "runbook" /\ kind'[e[2]] \in ResponsibilityKinds
    BY <1>4, EdgesKeepKinds DEF Inv
  <1>6. CASE UNCHANGED placement
    BY <1>2, <1>3, <1>4, <1>5, <1>6 DEF Inv, TypeOK, StructureSound
  <1>7. ASSUME NEW parent \in Objects, CreateChild(a, parent, o, k)
        PROVE  Inv'
    <2>1. placement' = placement \cup {<<parent, o>>}
      BY <1>7 DEF CreateChild
    <2>2. TypeOK'
      BY <1>2, <1>3, <2>1 DEF Inv, TypeOK
    <2>3. ~Exists(o) /\ Exists(parent)
      BY <1>7 DEF CreateChild, AddObject, Can
    <2>4. <<kind'[parent], kind'[o]>> \in PlacementPairs
      BY <1>4, <1>7, <2>3 DEF CreateChild
    <2>5. \A e \in placement : e[2] # o
      <3>1. Absent \notin ResponsibilityKinds
        BY KindsAssumption DEF AllKinds
      <3>2. \A e \in placement : kind[e[2]] \in ResponsibilityKinds
        BY DEF Inv, StructureSound, PlacementPairs, ResponsibilityKinds
      <3>3. QED
        BY <2>3, <3>1, <3>2 DEF Exists
    <2>6. \A d, e \in placement' : d[2] = e[2] => d = e
      BY <2>1, <2>5 DEF Inv, StructureSound
    <2>7. \A e \in placement' : <<kind'[e[1]], kind'[e[2]]>> \in PlacementPairs
      <3>1. ASSUME NEW e \in placement'
            PROVE  <<kind'[e[1]], kind'[e[2]]>> \in PlacementPairs
        <4>1. CASE e \in placement
          BY <1>5, <4>1
        <4>2. CASE e = <<parent, o>>
          <5>1. e[1] = parent /\ e[2] = o
            BY <4>2
          <5>2. QED
            BY <2>4, <5>1
        <4>3. QED
          BY <2>1, <4>1, <4>2
      <3>2. QED
        BY <3>1
    <2>8. StructureSound'
      BY <1>2, <1>4, <1>5, <2>2, <2>6, <2>7 DEF Inv, StructureSound
    <2>9. QED
      BY <2>2, <2>8 DEF Inv
  <1>8. QED
    BY <1>1, <1>6, <1>7 DEF CreateRoot, ImportObject

LEMMA ObjectChangeKeepsInv ==
    ASSUME Inv, ObjectChange
    PROVE  Inv'
  <1>1. PICK a \in Principals, o \in Objects :
            DeleteObject(a, o) \/ \E k \in Kinds : ChangeKind(a, o, k)
    BY DEF ObjectChange
  <1>2. UNCHANGED <<placement, responsibility, active, catalogOwner>> /\ ~Referenced(o)
    BY <1>1 DEF DeleteObject, ChangeKind
  <1>3. \A x \in Objects \ {o} : kind'[x] = kind[x]
    BY <1>1 DEF DeleteObject, ChangeKind, Inv, TypeOK
  <1>4. /\ \A e \in placement : <<kind'[e[1]], kind'[e[2]]>> \in PlacementPairs
        /\ \A e \in responsibility :
                 kind'[e[1]] = "runbook" /\ kind'[e[2]] \in ResponsibilityKinds
    BY <1>2, <1>3, UnreferencedKeepsEdges DEF Inv
  <1>5. TypeOK'
    BY <1>1 DEF DeleteObject, ChangeKind, Inv, TypeOK
  <1>6. \A g \in grants' : Exists(g.object)'
    <2>1. CASE DeleteObject(a, o)
      BY <1>3, <2>1 DEF DeleteObject, Inv, TypeOK, StructureSound, Exists, Grants
    <2>2. CASE \E k \in Kinds : ChangeKind(a, o, k)
      BY <1>3, <2>2, KindsAssumption DEF ChangeKind, Inv, TypeOK, StructureSound, Exists, Grants
    <2>3. QED
      BY <1>1, <2>1, <2>2
  <1>7. StructureSound'
    BY <1>2, <1>4, <1>5, <1>6 DEF Inv, StructureSound
  <1>8. QED
    BY <1>5, <1>7 DEF Inv

LEMMA RelationshipChangeKeepsInv ==
    ASSUME Inv, RelationshipChange
    PROVE  Inv'
  <1>1. PICK a \in Principals, x \in Objects, y \in Objects :
            \/ AttachPlacement(a, x, y)
            \/ DetachPlacement(a, x, y)
            \/ LinkRunbook(a, x, y)
            \/ UnlinkRunbook(a, x, y)
    BY DEF RelationshipChange
  <1>2. UNCHANGED <<kind, grants, active, catalogOwner>>
    BY <1>1 DEF AttachPlacement, DetachPlacement, LinkRunbook, UnlinkRunbook
  <1>3. \A o \in Objects : Exists(o)' <=> Exists(o)
    BY <1>2 DEF Exists
  <1>4. \A g \in grants' : Exists(g.object)'
    BY <1>2, <1>3 DEF Inv, TypeOK, StructureSound, Grants
  <1>5. CASE AttachPlacement(a, x, y)
    <2>1. /\ placement' = placement \cup {<<x, y>>}
          /\ responsibility' = responsibility
          /\ <<kind[x], kind[y]>> \in PlacementPairs
          /\ \A z \in Objects : <<z, y>> \notin placement
      BY <1>5 DEF AttachPlacement
    <2>2. TypeOK'
      BY <1>2, <2>1 DEF Inv, TypeOK
    <2>3. \A e \in placement : e[2] # y
      BY <2>1 DEF Inv, TypeOK
    <2>4. StructureSound'
      BY <1>2, <1>4, <2>2, <2>1, <2>3 DEF Inv, StructureSound
    <2>5. QED
      BY <2>2, <2>4 DEF Inv
  <1>6. CASE DetachPlacement(a, x, y)
    BY <1>2, <1>4, <1>6 DEF DetachPlacement, Inv, TypeOK, StructureSound
  <1>7. CASE LinkRunbook(a, x, y)
    <2>1. /\ responsibility' = responsibility \cup {<<x, y>>}
          /\ placement' = placement
          /\ kind[x] = "runbook" /\ kind[y] \in ResponsibilityKinds
          /\ \A z \in Objects : <<x, z>> \notin responsibility
      BY <1>7 DEF LinkRunbook
    <2>2. TypeOK'
      BY <1>2, <2>1 DEF Inv, TypeOK
    <2>3. \A e \in responsibility : e[1] # x
      BY <2>1 DEF Inv, TypeOK
    <2>4. StructureSound'
      BY <1>2, <1>4, <2>2, <2>1, <2>3 DEF Inv, StructureSound
    <2>5. QED
      BY <2>2, <2>4 DEF Inv
  <1>8. CASE UnlinkRunbook(a, x, y)
    BY <1>2, <1>4, <1>8 DEF UnlinkRunbook, Inv, TypeOK, StructureSound
  <1>9. QED
    BY <1>1, <1>5, <1>6, <1>7, <1>8

LEMMA GrantChangeKeepsInv ==
    ASSUME Inv, GrantChange
    PROVE  Inv'
  <1>1. SUFFICES /\ UNCHANGED <<kind, placement, responsibility, active, catalogOwner>>
                 /\ grants' \subseteq {g \in Grants : Exists(g.object)}
    BY <1>1 DEF Inv, TypeOK, StructureSound, Exists
  <1>2. grants \subseteq {g \in Grants : Exists(g.object)}
    BY DEF Inv, TypeOK, StructureSound
  <1>3. ASSUME NEW a \in Principals, NEW g \in Grants, CreateGrant(a, g)
        PROVE  /\ UNCHANGED <<kind, placement, responsibility, active, catalogOwner>>
               /\ grants' \subseteq {h \in Grants : Exists(h.object)}
    BY <1>2, <1>3 DEF CreateGrant, MayManage, Can
  <1>4. ASSUME NEW a \in Principals, NEW g \in grants, NEW r \in Roles, NEW s \in Scopes,
               UpdateGrant(a, g, r, s)
        PROVE  /\ UNCHANGED <<kind, placement, responsibility, active, catalogOwner>>
               /\ grants' \subseteq {h \in Grants : Exists(h.object)}
    <2>1. g \in Grants /\ Exists(g.object)
      BY <1>2
    <2>2. [g EXCEPT !.role = r, !.scope = s] \in Grants
      BY <2>1 DEF Grants
    <2>3. [g EXCEPT !.role = r, !.scope = s].object = g.object
      BY <2>1 DEF Grants
    <2>4. grants' = (grants \ {g}) \cup {[g EXCEPT !.role = r, !.scope = s]}
      BY <1>4 DEF UpdateGrant
    <2>5. QED
      BY <1>2, <1>4, <2>1, <2>2, <2>3, <2>4 DEF UpdateGrant
  <1>5. ASSUME NEW a \in Principals, NEW g \in grants, RevokeGrant(a, g)
        PROVE  /\ UNCHANGED <<kind, placement, responsibility, active, catalogOwner>>
               /\ grants' \subseteq {h \in Grants : Exists(h.object)}
    BY <1>2, <1>5 DEF RevokeGrant
  <1>6. ASSUME NEW a \in Principals, NEW o \in Objects, NEW p \in Principals,
               AdoptOwnerless(a, o, p)
        PROVE  /\ UNCHANGED <<kind, placement, responsibility, active, catalogOwner>>
               /\ grants' \subseteq {h \in Grants : Exists(h.object)}
    <2>1. OwnerSelf(p, o) \in Grants /\ OwnerSelf(p, o).object = o
      BY RolesAssumption DEF OwnerSelf, Grants, Scopes
    <2>2. QED
      BY <1>2, <1>6, <2>1 DEF AdoptOwnerless
  <1>7. QED
    BY <1>3, <1>4, <1>5, <1>6 DEF GrantChange

LEMMA PrincipalChangeKeepsInv ==
    ASSUME Inv, PrincipalChange
    PROVE  Inv'
  <1>1. UNCHANGED <<kind, placement, responsibility, grants>>
    BY DEF PrincipalChange, DeactivatePrincipal, ActivatePrincipal, AssignCatalogOwner,
           RemoveCatalogOwner, BootstrapCatalogOwner
  <1>2. active' \in [Principals -> BOOLEAN] /\ catalogOwner' \in [Principals -> BOOLEAN]
    BY DEF PrincipalChange, DeactivatePrincipal, ActivatePrincipal, AssignCatalogOwner,
           RemoveCatalogOwner, BootstrapCatalogOwner, Inv, TypeOK
  <1>3. QED
    BY <1>1, <1>2 DEF Inv, TypeOK, StructureSound, Exists

(* Stored values keep their types, and edges and grants never refer to an    *)
(* object that is missing or of the wrong kind (_reference_blockers, the      *)
(* relationship rules, the grants deleted with their object).                *)
THEOREM Invariance == Spec => []Inv
  <1>1. Init => Inv
    BY DEF Init, Inv, TypeOK, StructureSound
  <1>2. Inv /\ [Next]_vars => Inv'
    <2>1. SUFFICES ASSUME Inv, [Next]_vars PROVE Inv'
      OBVIOUS
    <2>2. CASE UNCHANGED vars
      BY <2>1, <2>2 DEF vars, Inv, TypeOK, StructureSound, Exists
    <2>3. QED
      BY <2>1, <2>2, CreationKeepsInv, ObjectChangeKeepsInv, RelationshipChangeKeepsInv,
         GrantChangeKeepsInv, PrincipalChangeKeepsInv DEF Next
  <1>3. QED
    BY <1>1, <1>2, PTL DEF Spec

(* Authority edges and grants are sound, and typed, in every reachable state. *)
THEOREM StructureSoundHolds == Spec => []StructureSound
  BY Invariance, PTL DEF Inv

-----------------------------------------------------------------------------
(* Coverage.                                                                *)

(* Commands that only add objects, edges, grants or active principals.       *)
LEMMA GrowthKeepsCoverage ==
    ASSUME Inv,
           \A x \in Objects : Exists(x) => kind'[x] = kind[x],
           placement \subseteq placement',
           responsibility \subseteq responsibility',
           grants \subseteq grants',
           \A p \in Principals : active[p] => active'[p]
    PROVE  Covered \subseteq Covered'
  <1>1. Absent \notin ResponsibilityKinds /\ Absent # "runbook"
    BY KindsAssumption DEF AllKinds
  <1>2. \A x \in Objects : kind[x] \in ResponsibilityKinds \cup {"runbook"} => kind'[x] = kind[x]
    BY <1>1 DEF Exists
  <1>3. \A x \in Objects : Children(x) \subseteq Children(x)'
    BY <1>2 DEF Children, PlacementPairs, ResponsibilityKinds
  <1>4. \A x \in Objects : Children(x) \subseteq Objects
    BY DEF Children
  <1>5. \A x \in Objects : Placed(x) \subseteq Placed(x)' /\ Placed(x) \subseteq Objects
    BY <1>3, <1>4 DEF Placed
  <1>6. \A x \in Objects : RunbooksOf(x) \subseteq RunbooksOf(x)'
    BY <1>2 DEF RunbooksOf
  <1>7. \A g \in grants : g \in Grants
    BY DEF Inv, TypeOK
  <1>8. ASSUME NEW g \in OwnerGrants
        PROVE  g \in OwnerGrants' /\ Reach(g) \subseteq Reach(g)'
    <2>1. g \in grants /\ g.principal \in Principals /\ g.object \in Objects /\ g.scope \in Scopes
      BY <1>7 DEF OwnerGrants, Grants
    <2>2. Exists(g.object) /\ kind'[g.object] = kind[g.object]
      BY <2>1 DEF OwnerGrants, Effective
    <2>3. g \in OwnerGrants'
      BY <2>1, <2>2 DEF OwnerGrants, Effective, Exists
    <2>4. ScopeReach(g.object, g.scope) \subseteq ScopeReach(g.object, g.scope)'
      <3>1. CASE g.scope = "self"
        BY <3>1 DEF ScopeReach
      <3>2. CASE g.scope = "subtree"
        BY <1>5, <2>1, <3>2 DEF ScopeReach
      <3>3. CASE g.scope = "responsibility"
        <4>1. UNION {RunbooksOf(c) : c \in Placed(g.object)}
                \subseteq UNION {RunbooksOf(c) : c \in Placed(g.object)}'
          BY <1>5, <1>6, <2>1
        <4>2. QED
          BY <1>5, <2>1, <3>3, <4>1 DEF ScopeReach
      <3>4. QED
        BY <2>1, <3>1, <3>2, <3>3 DEF Scopes
    <2>5. QED
      BY <2>3, <2>4 DEF Reach
  <1>9. QED
    BY <1>8 DEF Covered, CoveredBy

(* A grant whose row, principal and graph a step leaves alone keeps its reach. *)
LEMMA UntouchedGrantKeepsReach ==
    ASSUME UNCHANGED <<kind, placement, responsibility>>,
           NEW g \in OwnerGrants, g \in grants', active'[g.principal]
    PROVE  g \in OwnerGrants' /\ Reach(g)' = Reach(g)
  <1>1. g \in OwnerGrants'
    BY DEF OwnerGrants, Effective, Exists, ValidTarget
  <1>2. \A x : Children(x)' = Children(x) /\ RunbooksOf(x)' = RunbooksOf(x)
    BY DEF Children, RunbooksOf
  <1>3. \A x : Placed(x)' = Placed(x)
    BY <1>2 DEF Placed
  <1>4. Reach(g)' = Reach(g)
    BY <1>2, <1>3 DEF Reach, ScopeReach
  <1>5. QED
    BY <1>1, <1>4

(* What changes about an object that nothing refers to does not matter to    *)
(* the coverage of the others.                                              *)
LEMMA IsolatedChangeKeepsOthers ==
    ASSUME Inv, NEW o \in Objects, ~Referenced(o),
           \A x \in Objects \ {o} : kind'[x] = kind[x],
           UNCHANGED <<placement, responsibility, active>>,
           \A g \in grants : g.object # o => g \in grants'
    PROVE  \A x \in Covered : x # o => x \in Covered'
  <1>1. \A x \in Objects : <<x, o>> \notin placement /\ <<o, x>> \notin placement
                         /\ <<x, o>> \notin responsibility /\ <<o, x>> \notin responsibility
    BY DEF Referenced
  <1>2. Children(o) = {} /\ RunbooksOf(o) = {}
    BY <1>1 DEF Children, RunbooksOf
  <1>3. Placed(o) = {o}
    BY <1>2 DEF Placed
  <1>4. \A x \in Objects \ {o} : /\ Children(x) \subseteq Objects \ {o}
                                 /\ Children(x)' = Children(x)
    BY <1>1 DEF Children
  <1>5. \A x \in Objects \ {o} : RunbooksOf(x)' = RunbooksOf(x)
    BY <1>1 DEF RunbooksOf
  <1>6. \A x \in Objects \ {o} : Placed(x) \subseteq Objects \ {o} /\ Placed(x)' = Placed(x)
    BY <1>4 DEF Placed
  <1>7. ASSUME NEW g \in OwnerGrants, g.object = o
        PROVE  Reach(g) \subseteq {o}
    BY <1>2, <1>3, <1>7 DEF Reach, ScopeReach, OwnerGrants, Inv, TypeOK, Grants, Scopes
  <1>8. ASSUME NEW g \in OwnerGrants, g.object # o
        PROVE  g \in OwnerGrants' /\ Reach(g)' = Reach(g)
    <2>1. g \in grants' /\ g.object \in Objects \ {o}
      BY <1>8 DEF OwnerGrants, Inv, TypeOK, Grants
    <2>2. g \in OwnerGrants'
      BY <2>1 DEF OwnerGrants, Effective, Exists
    <2>3. {RunbooksOf(c)' : c \in Placed(g.object)} = {RunbooksOf(c) : c \in Placed(g.object)}
      BY <1>5, <1>6, <2>1
    <2>4. Placed(g.object)' = Placed(g.object)
      BY <1>6, <2>1
    <2>5. Reach(g)' = Reach(g)
      BY <2>3, <2>4 DEF Reach, ScopeReach
    <2>6. QED
      BY <2>2, <2>5
  <1>9. QED
    BY <1>7, <1>8 DEF Covered, CoveredBy

(* The conclusion of the coverage theorem, for one step.                     *)
KeepsOwners == \A o \in Covered : Exists(o)' => o \in Covered' \/ kind'[o] # kind[o]

LEMMA CreationKeepsOwners ==
    ASSUME Inv, Creation
    PROVE  KeepsOwners
  <1>1. PICK a \in Principals, o \in Objects, k \in Kinds :
            /\ AddObject(a, o, k)
            /\ UNCHANGED <<responsibility, active>>
            /\ placement \subseteq placement'
    BY DEF Creation, CreateRoot, CreateChild, ImportObject
  <1>2. \A x \in Objects : Exists(x) => kind'[x] = kind[x]
    BY <1>1, AddObjectStructure DEF Inv
  <1>3. grants \subseteq grants'
    BY <1>1 DEF AddObject
  <1>4. QED
    BY <1>1, <1>2, <1>3, GrowthKeepsCoverage DEF KeepsOwners

LEMMA ObjectChangeKeepsOwners ==
    ASSUME Inv, ObjectChange
    PROVE  KeepsOwners
  <1>1. PICK a \in Principals, o \in Objects :
            DeleteObject(a, o) \/ \E k \in Kinds : ChangeKind(a, o, k)
    BY DEF ObjectChange
  <1>2. UNCHANGED <<placement, responsibility, active>> /\ ~Referenced(o)
    BY <1>1 DEF DeleteObject, ChangeKind
  <1>3. \A x \in Objects \ {o} : kind'[x] = kind[x]
    BY <1>1 DEF DeleteObject, ChangeKind, Inv, TypeOK
  <1>4. \A g \in grants : g.object # o => g \in grants'
    BY <1>1 DEF DeleteObject, ChangeKind
  <1>5. \A x \in Covered : x # o => x \in Covered'
    BY <1>2, <1>3, <1>4, IsolatedChangeKeepsOthers
  <1>6. ~Exists(o)' \/ kind'[o] # kind[o]
    BY <1>1 DEF DeleteObject, ChangeKind, Inv, TypeOK, Exists
  <1>7. QED
    BY <1>5, <1>6 DEF KeepsOwners

LEMMA RelationshipChangeKeepsOwners ==
    ASSUME Inv, RelationshipChange
    PROVE  KeepsOwners
  <1>1. PICK a \in Principals, x \in Objects, y \in Objects :
            \/ AttachPlacement(a, x, y)
            \/ DetachPlacement(a, x, y)
            \/ LinkRunbook(a, x, y)
            \/ UnlinkRunbook(a, x, y)
    BY DEF RelationshipChange
  <1>2. CASE AttachPlacement(a, x, y) \/ LinkRunbook(a, x, y)
    <2>1. /\ UNCHANGED <<kind, grants, active>>
          /\ placement \subseteq placement'
          /\ responsibility \subseteq responsibility'
      BY <1>2 DEF AttachPlacement, LinkRunbook
    <2>2. QED
      BY <2>1, GrowthKeepsCoverage DEF KeepsOwners
  <1>3. CASE DetachPlacement(a, x, y) \/ UnlinkRunbook(a, x, y)
    BY <1>3 DEF DetachPlacement, UnlinkRunbook, StaysCovered, KeepsOwners
  <1>4. QED
    BY <1>1, <1>2, <1>3

(* Revocations and downgrades look at the objects that the grant covered;    *)
(* the other covered objects have another grant, which the command keeps.    *)
LEMMA GrantChangeKeepsOwners ==
    ASSUME Inv, GrantChange
    PROVE  KeepsOwners
  <1>1. CASE \E a \in Principals, g \in Grants : CreateGrant(a, g)
    <2>1. UNCHANGED <<kind, placement, responsibility, active>> /\ grants \subseteq grants'
      BY <1>1 DEF CreateGrant
    <2>2. QED
      BY <2>1, GrowthKeepsCoverage DEF KeepsOwners
  <1>2. CASE \E a \in Principals, o \in Objects, p \in Principals : AdoptOwnerless(a, o, p)
    <2>1. UNCHANGED <<kind, placement, responsibility, active>> /\ grants \subseteq grants'
      BY <1>2 DEF AdoptOwnerless
    <2>2. QED
      BY <2>1, GrowthKeepsCoverage DEF KeepsOwners
  <1>3. ASSUME NEW g \in grants,
               UNCHANGED <<kind, placement, responsibility, active>>,
               grants \ {g} \subseteq grants',
               StaysCovered(AffectedBy(g))
        PROVE  KeepsOwners
    <2>1. SUFFICES ASSUME NEW x \in Covered, Exists(x)'
                   PROVE  x \in Covered'
      BY DEF KeepsOwners
    <2>2. PICK h \in OwnerGrants : x \in Reach(h)
      BY DEF Covered, CoveredBy
    <2>3. CASE h = g
      BY <1>3, <2>1, <2>2, <2>3 DEF StaysCovered, AffectedBy, OwnerGrants
    <2>4. CASE h # g
      <3>1. h \in grants' /\ active'[h.principal]
        BY <1>3, <2>4 DEF OwnerGrants, Effective
      <3>2. h \in OwnerGrants' /\ Reach(h)' = Reach(h)
        BY <1>3, <3>1, UntouchedGrantKeepsReach
      <3>3. QED
        BY <2>2, <3>2 DEF Covered, CoveredBy
    <2>5. QED
      BY <2>3, <2>4
  <1>4. CASE \E a \in Principals, g \in grants :
                 \/ \E r \in Roles, s \in Scopes : UpdateGrant(a, g, r, s)
                 \/ RevokeGrant(a, g)
    <2>1. PICK g \in grants : /\ UNCHANGED <<kind, placement, responsibility, active>>
                              /\ grants \ {g} \subseteq grants'
                              /\ StaysCovered(AffectedBy(g))
      BY <1>4 DEF UpdateGrant, RevokeGrant
    <2>2. QED
      BY <1>3, <2>1
  <1>5. QED
    BY <1>1, <1>2, <1>4 DEF GrantChange

LEMMA PrincipalChangeKeepsOwners ==
    ASSUME Inv, PrincipalChange
    PROVE  KeepsOwners
  <1>1. UNCHANGED <<kind, placement, responsibility, grants>>
    BY DEF PrincipalChange, DeactivatePrincipal, ActivatePrincipal, AssignCatalogOwner,
           RemoveCatalogOwner, BootstrapCatalogOwner
  <1>2. CASE \A p \in Principals : active[p] => active'[p]
    BY <1>1, <1>2, GrowthKeepsCoverage DEF KeepsOwners
  <1>3. ASSUME NEW p \in Principals, DeactivatePrincipal(p)
        PROVE  KeepsOwners
    <2>1. SUFFICES ASSUME NEW x \in Covered PROVE x \in Covered'
      BY DEF KeepsOwners
    <2>2. PICK h \in OwnerGrants : h.principal # p /\ x \in Reach(h)
      <3>1. PICK h \in OwnerGrants : x \in Reach(h)
        BY DEF Covered, CoveredBy
      <3>2. CASE h.principal # p
        BY <3>1, <3>2
      <3>3. CASE h.principal = p
        BY <1>3, <3>1, <3>3 DEF DeactivatePrincipal, CoveredWithout, CoveredBy
      <3>4. QED
        BY <3>2, <3>3
    <2>3. h \in grants' /\ h.principal \in Principals /\ active[h.principal]
      BY <1>1 DEF OwnerGrants, Effective, Inv, TypeOK, Grants
    <2>4. active'[h.principal]
      BY <1>3, <2>2, <2>3 DEF DeactivatePrincipal, Inv, TypeOK
    <2>5. h \in OwnerGrants' /\ Reach(h)' = Reach(h)
      BY <1>1, <2>3, <2>4, UntouchedGrantKeepsReach
    <2>6. QED
      BY <2>2, <2>5 DEF Covered, CoveredBy
  <1>4. (\E p \in Principals : DeactivatePrincipal(p)) \/ \A p \in Principals : active[p] => active'[p]
    BY DEF PrincipalChange, ActivatePrincipal, AssignCatalogOwner, RemoveCatalogOwner,
           BootstrapCatalogOwner, Inv, TypeOK
  <1>5. QED
    BY <1>2, <1>3, <1>4

(* Only a command that changes the kind of an object can take its last        *)
(* active Owner away, whatever the graph, the grants and the principals are.  *)
THEOREM CoverageKept == Spec => OnlyKindChangeOrphans
  <1>1. Inv /\ [Next]_vars => [KeepsOwners]_vars
    BY CreationKeepsOwners, ObjectChangeKeepsOwners, RelationshipChangeKeepsOwners,
       GrantChangeKeepsOwners, PrincipalChangeKeepsOwners DEF Next
  <1>2. KeepsOwners => \A o \in Covered \ Covered' : Exists(o)' => kind'[o] # kind[o]
    BY DEF KeepsOwners
  <1>3. QED
    BY <1>1, <1>2, Invariance, PTL DEF Spec, OnlyKindChangeOrphans

-----------------------------------------------------------------------------
(* Creation and the last catalog owner.                                     *)

(* The conclusion of the next theorem, for one step.                         *)
CreatesOwned == \A o \in Objects : ~Exists(o) /\ Exists(o)' => o \in Covered'

(* Every creating command leaves its object with an active direct Owner.     *)
THEOREM CreatedObjectsOwned == Spec => CreatedOwned
  <1>1. ASSUME Inv, [Next]_vars, NEW x \in Objects, ~Exists(x), Exists(x)'
        PROVE  x \in Covered'
    <2>1. CASE Creation
      <3>1. PICK a \in Principals, o \in Objects, k \in Kinds :
                AddObject(a, o, k) /\ UNCHANGED active
        BY <2>1 DEF Creation, CreateRoot, CreateChild, ImportObject
      <3>2. x = o
        BY <1>1, <3>1 DEF AddObject, Exists, Inv, TypeOK
      <3>3. OwnerSelf(a, o) \in OwnerGrants'
        BY <1>1, <3>1, <3>2 DEF OwnerGrants, Effective, AddObject, OwnerSelf, ValidTarget
      <3>4. x \in Reach(OwnerSelf(a, o))'
        BY <3>2 DEF Reach, ScopeReach, OwnerSelf
      <3>5. QED
        BY <3>3, <3>4 DEF Covered, CoveredBy
    <2>2. CASE ObjectChange
      BY <1>1, <2>2 DEF ObjectChange, DeleteObject, ChangeKind, Can, Exists, Inv, TypeOK
    <2>3. CASE RelationshipChange \/ GrantChange \/ PrincipalChange \/ UNCHANGED vars
      <3>1. kind' = kind
        BY <2>3 DEF RelationshipChange, AttachPlacement, DetachPlacement, LinkRunbook,
           UnlinkRunbook, GrantChange, CreateGrant, UpdateGrant, RevokeGrant, AdoptOwnerless,
           PrincipalChange, DeactivatePrincipal, ActivatePrincipal, AssignCatalogOwner,
           RemoveCatalogOwner, BootstrapCatalogOwner, vars
      <3>2. QED
        BY <1>1, <3>1 DEF Exists
    <2>4. QED
      BY <1>1, <2>1, <2>2, <2>3 DEF Next
  <1>2. Inv /\ [Next]_vars => [CreatesOwned]_vars
    BY <1>1 DEF CreatesOwned
  <1>3. QED
    BY <1>2, Invariance, PTL DEF Spec, CreatedOwned, CreatesOwned

(* The catalog never loses its last active catalog owner.                   *)
THEOREM CatalogOwnerStays == Spec => CatalogOwnerRemains
  <1>1. ASSUME Inv, [Next]_vars, NEW p \in Principals, IsCatalogOwner(p)
        PROVE  \E q \in Principals : IsCatalogOwner(q)'
    <2>1. CASE Creation \/ ObjectChange \/ RelationshipChange \/ GrantChange \/ UNCHANGED vars
      <3>1. active' = active /\ catalogOwner' = catalogOwner
        BY <2>1 DEF Creation, CreateRoot, CreateChild, ImportObject, ObjectChange, DeleteObject,
           ChangeKind, RelationshipChange, AttachPlacement, DetachPlacement, LinkRunbook,
           UnlinkRunbook, GrantChange, CreateGrant, UpdateGrant, RevokeGrant, AdoptOwnerless, vars
      <3>2. QED
        BY <1>1, <3>1 DEF IsCatalogOwner
    <2>2. CASE PrincipalChange
      <3>1. PICK r \in Principals :
                \/ DeactivatePrincipal(r)
                \/ ActivatePrincipal(r)
                \/ \E a \in Principals : AssignCatalogOwner(a, r) \/ RemoveCatalogOwner(a, r)
                \/ BootstrapCatalogOwner(r)
        BY <2>2 DEF PrincipalChange
      <3>2. CASE ~LastCatalogOwner(r)
        <4>1. PICK q \in Principals : IsCatalogOwner(q) /\ q # r
          BY <1>1, <3>2, <3>1 DEF LastCatalogOwner
        <4>2. IsCatalogOwner(q)'
          BY <1>1, <3>1, <4>1 DEF IsCatalogOwner, Inv, TypeOK, DeactivatePrincipal,
             ActivatePrincipal, AssignCatalogOwner, RemoveCatalogOwner, BootstrapCatalogOwner
        <4>3. QED
          BY <4>2
      <3>3. CASE LastCatalogOwner(r)
        BY <1>1, <3>1, <3>3 DEF IsCatalogOwner, LastCatalogOwner, Inv, TypeOK,
           DeactivatePrincipal, ActivatePrincipal, AssignCatalogOwner, RemoveCatalogOwner,
           BootstrapCatalogOwner
      <3>4. QED
        BY <3>2, <3>3
    <2>3. QED
      BY <1>1, <2>1, <2>2 DEF Next
  <1>2. Inv /\ [Next]_vars
            => [(\E p \in Principals : IsCatalogOwner(p)) => (\E p \in Principals : IsCatalogOwner(p))']_vars
    BY <1>1
  <1>3. QED
    BY <1>2, Invariance, PTL DEF Spec, CatalogOwnerRemains

-----------------------------------------------------------------------------
(* The managers of an object.                                               *)

(* The grants of others are nothing to a manager: with the graph and the      *)
(* principals as they were, its own rows carry its permissions on.           *)
LEMMA OwnGrantsCarryAccess ==
    ASSUME UNCHANGED <<kind, placement, responsibility, active, catalogOwner>>,
           NEW a \in Principals, NEW o \in Objects, NEW permission,
           \A h \in grants : h.principal = a => h \in grants',
           Can(a, permission, o)
    PROVE  Can(a, permission, o)'
  <1>1. Exists(o)' /\ (IsCatalogOwner(a) => IsCatalogOwner(a)')
    BY DEF Can, Exists, IsCatalogOwner
  <1>2. ASSUME NEW h \in EffectiveGrantsFor(a, o)
        PROVE  h \in EffectiveGrantsFor(a, o)'
    <2>1. h \in grants /\ h.principal = a /\ Effective(h) /\ o \in Reach(h)
      BY DEF EffectiveGrantsFor
    <2>2. Effective(h)'
      BY <2>1 DEF Effective, Exists
    <2>3. \A x : Children(x)' = Children(x) /\ RunbooksOf(x)' = RunbooksOf(x)
      BY DEF Children, RunbooksOf
    <2>4. \A x : Placed(x)' = Placed(x)
      BY <2>3 DEF Placed
    <2>5. Reach(h)' = Reach(h)
      BY <2>3, <2>4 DEF Reach, ScopeReach
    <2>6. QED
      BY <2>1, <2>2, <2>5 DEF EffectiveGrantsFor
  <1>3. QED
    BY <1>1, <1>2 DEF Can

(* A revoked or changed grant is the actor's own, and then the command looks  *)
(* at what is left of its access; or it is another's, and then nothing of     *)
(* the actor's changes.                                                      *)
LEMMA GrantChangeKeepsManager ==
    ASSUME NEW a \in Principals, NEW o \in Objects, NEW g \in grants, g.object = o,
           Can(a, "manage_access", o),
           grants \ {g} \subseteq grants',
           UNCHANGED <<kind, placement, responsibility, active, catalogOwner>>,
           KeepsOwnAccess(a, g)
    PROVE  Can(a, "manage_access", o)'
  <1>1. CASE a = g.principal
    BY <1>1 DEF KeepsOwnAccess
  <1>2. CASE a # g.principal
    BY <1>2, OwnGrantsCarryAccess
  <1>3. QED
    BY <1>1, <1>2

(* The conclusion of the next theorem, for one step.                         *)
KeepsManagers ==
    \A a \in Principals, o \in Objects :
        Can(a, "manage_access", o) /\ ~Can(a, "manage_access", o)' =>
            /\ \A g \in grants : g.object = o => ~RevokeGrant(a, g)
            /\ \A g \in grants, r \in Roles, s \in Scopes :
                   g.object = o => ~UpdateGrant(a, g, r, s)
            /\ \A x \in Objects : ~UnlinkRunbook(a, o, x) /\ ~UnlinkRunbook(a, x, o)

(* Nobody locks itself out of the object it manages by changing or revoking   *)
(* a grant on it or by removing a runbook responsibility.                     *)
THEOREM ManagersKeepAccessHolds == Spec => ManagersKeepAccess
  <1>1. KeepsManagers
    <2>1. SUFFICES ASSUME NEW a \in Principals, NEW o \in Objects,
                          Can(a, "manage_access", o), ~Can(a, "manage_access", o)'
                   PROVE  /\ \A g \in grants : g.object = o => ~RevokeGrant(a, g)
                          /\ \A g \in grants, r \in Roles, s \in Scopes :
                                 g.object = o => ~UpdateGrant(a, g, r, s)
                          /\ \A x \in Objects : ~UnlinkRunbook(a, o, x) /\ ~UnlinkRunbook(a, x, o)
      BY DEF KeepsManagers
    <2>2. ASSUME NEW g \in grants, g.object = o, RevokeGrant(a, g) PROVE FALSE
      BY <2>1, <2>2, GrantChangeKeepsManager DEF RevokeGrant
    <2>3. ASSUME NEW g \in grants, NEW r \in Roles, NEW s \in Scopes, g.object = o,
                 UpdateGrant(a, g, r, s)
          PROVE  FALSE
      BY <2>1, <2>3, GrantChangeKeepsManager DEF UpdateGrant
    <2>4. ASSUME NEW x \in Objects, UnlinkRunbook(a, o, x) \/ UnlinkRunbook(a, x, o) PROVE FALSE
      BY <2>1, <2>4 DEF UnlinkRunbook
    <2>5. QED
      BY <2>2, <2>3, <2>4
  <1>2. QED
    BY <1>1, PTL DEF Spec, ManagersKeepAccess, KeepsManagers
=============================================================================
