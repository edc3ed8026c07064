--------------------------- MODULE ObjectOwnership ---------------------------
(***************************************************************************)
(* Who owns the catalog objects: object grants and their reach along        *)
(* placement ("hosts") and operations-runbook edges, the rule that every    *)
(* object keeps an active object Owner, and the commands that could break   *)
(* it (services/ownership.py, access.py, grant_management.py, policy.py,    *)
(* grant_reach.py and the object and relationship commands).                *)
(*                                                                         *)
(* Every action is one committed command.  Two commands never overlap here; *)
(* module OwnerCoverageLocking is about the overlaps.  Revisions and ETags are   *)
(* in RevisionClock.                                                       *)
(***************************************************************************)
EXTENDS Naturals, FiniteSets

CONSTANTS Objects,     \* object IDs
          Principals,
          Kinds,       \* the object kinds in use
          Roles,       \* the grant roles in use
          Absent,      \* no object has this ID
          MaxGrants    \* bound: a command that would exceed it is not taken

ResponsibilityKinds == {"host", "system", "service"}

PlacementPairs == {<<"host", "system">>, <<"host", "service">>, <<"system", "service">>}

AllKinds == ResponsibilityKinds \cup {"runbook", "network"}

(* ROLE_PERMISSIONS, for the permissions that the commands below ask for.   *)
RolePermissions ==
    [owner          |-> {"write", "create_child", "manage_access", "delete"},
     access_manager |-> {"manage_access"},
     editor         |-> {"write"},
     creator        |-> {"create_child"}]

Scopes == {"self", "subtree", "responsibility"}

ASSUME KindsAssumption == Kinds \subseteq AllKinds /\ Absent \notin AllKinds
ASSUME RolesAssumption == "owner" \in Roles /\ Roles \subseteq DOMAIN RolePermissions
ASSUME MaxGrantsAssumption == MaxGrants \in Nat

VARIABLES kind,            \* Objects -> the kind of the stored object, or Absent
          placement,       \* the hosts relationships, <<parent, child>>
          responsibility,  \* the operations_runbook_for relationships, <<runbook, target>>
          grants,          \* the object_grants rows
          active,          \* Principals -> BOOLEAN
          catalogOwner     \* Principals -> BOOLEAN: holds the global catalog_owner role

vars == <<kind, placement, responsibility, grants, active, catalogOwner>>

Grants == [principal: Principals, object: Objects, role: Roles, scope: Scopes]

TypeOK ==
    /\ kind \in [Objects -> Kinds \cup {Absent}]
    /\ placement \subseteq Objects \X Objects
    /\ responsibility \subseteq Objects \X Objects
    /\ grants \subseteq Grants
    /\ active \in [Principals -> BOOLEAN]
    /\ catalogOwner \in [Principals -> BOOLEAN]

Exists(o) == kind[o] # Absent

-----------------------------------------------------------------------------
(* Reach of a grant, coverage and effective permissions.                    *)

(* A responsibility grant counts only for an Owner of the right anchor.     *)
ValidTarget(role, scope, k) ==
    scope = "responsibility" => role = "owner" /\ k \in ResponsibilityKinds

Children(o) == {c \in Objects : <<o, c>> \in placement /\ <<kind[o], kind[c]>> \in PlacementPairs}

(* The recursive query of grant_reach_cte ends after two placement steps:   *)
(* host, system, service.                                                   *)
Placed(o) == {o} \cup Children(o) \cup UNION {Children(c) : c \in Children(o)}

RunbooksOf(o) ==
    {r \in Objects : /\ <<r, o>> \in responsibility
                     /\ kind[r] = "runbook"
                     /\ kind[o] \in ResponsibilityKinds}

ScopeReach(o, scope) ==
    CASE scope = "self" -> {o}
      [] scope = "subtree" -> Placed(o)
      [] scope = "responsibility" -> Placed(o) \cup UNION {RunbooksOf(c) : c \in Placed(o)}

Effective(g) ==
    /\ active[g.principal]
    /\ Exists(g.object)
    /\ ValidTarget(g.role, g.scope, kind[g.object])

Reach(g) == ScopeReach(g.object, g.scope)

OwnerGrants == {g \in grants : g.role = "owner" /\ Effective(g)}

(* owner_grant_covered_object_ids: catalog roles do not count.              *)
CoveredBy(gs) == UNION {Reach(g) : g \in gs}

Covered == CoveredBy(OwnerGrants)

EffectiveGrantsFor(p, o) ==
    {g \in grants : g.principal = p /\ Effective(g) /\ o \in Reach(g)}

IsCatalogOwner(p) == active[p] /\ catalogOwner[p]

Can(p, permission, o) ==
    /\ Exists(o)
    /\ \/ IsCatalogOwner(p)
       \/ \E g \in EffectiveGrantsFor(p, o) : permission \in RolePermissions[g.role]

OwnsHere(p, o) == \E g \in EffectiveGrantsFor(p, o) : g.role = "owner"

(* _require_owner_for_owner_grant: an Owner of the object, or a catalog     *)
(* owner when the object has an Owner at all.                               *)
MayChangeOwnerGrants(p, o) == OwnsHere(p, o) \/ (o \in Covered /\ IsCatalogOwner(p))

(* _require_placement_authority, on the object that moves.                  *)
MayMove(p, o) == IsCatalogOwner(p) \/ OwnsHere(p, o)

-----------------------------------------------------------------------------
(* Objects come with their first Owner/self grant.                          *)

(* Seeded fault: the first grant has the widest scope, whatever the kind.    *)
OwnerOfAll(p, o) == [principal |-> p, object |-> o, role |-> "owner", scope |-> "responsibility"]

OwnerSelf(p, o) == [principal |-> p, object |-> o, role |-> "owner", scope |-> "self"]

(* assign_initial_owner inside the creating transaction.                    *)
AddObject(p, o, k) ==
    /\ ~Exists(o)
    /\ active[p]
    /\ Cardinality(grants) < MaxGrants
    /\ kind' = [kind EXCEPT ![o] = k]
    /\ grants' = grants \cup {OwnerSelf(p, o)}

CreateRoot(a, o, k) ==
    /\ IsCatalogOwner(a)
    /\ AddObject(a, o, k)
    /\ UNCHANGED <<placement, responsibility, active, catalogOwner>>

CreateChild(a, parent, o, k) ==
    /\ <<kind[parent], k>> \in PlacementPairs
    /\ AddObject(a, o, k)
    /\ Can(a, "create_child", parent)
    /\ placement' = placement \cup {<<parent, o>>}
    /\ UNCHANGED <<responsibility, active, catalogOwner>>

(* Seeds, imports and Knowledge apply name the owner explicitly.            *)
ImportObject(owner, o, k) ==
    /\ AddObject(owner, o, k)
    /\ UNCHANGED <<placement, responsibility, active, catalogOwner>>

(* Seeded fault: only the references into the object are looked for.        *)
PointedAt(o) == \E x \in Objects : <<x, o>> \in placement \cup responsibility

Referenced(o) ==
    \E x \in Objects : {<<x, o>>, <<o, x>>} \cap (placement \cup responsibility) # {}

DeleteObject(a, o) ==
    /\ ~Referenced(o)
    /\ Can(a, "delete", o)
    /\ kind' = [kind EXCEPT ![o] = Absent]
    /\ grants' = {g \in grants : g.object # o}
    /\ UNCHANGED <<placement, responsibility, active, catalogOwner>>

(* A full update with another kind.                                         *)
ChangeKind(a, o, k) ==
    /\ kind[o] # k
    /\ ~Referenced(o)
    /\ Can(a, "write", o)
    /\ kind' = [kind EXCEPT ![o] = k]
    /\ UNCHANGED <<placement, responsibility, grants, active, catalogOwner>>

-----------------------------------------------------------------------------
(* The relationships that carry authority.                                  *)

AttachPlacement(a, parent, o) ==
    /\ <<kind[parent], kind[o]>> \in PlacementPairs
    /\ \A x \in Objects : <<x, o>> \notin placement
    /\ Can(a, "create_child", parent)
    /\ Exists(o) /\ MayMove(a, o)
    /\ placement' = placement \cup {<<parent, o>>}
    /\ UNCHANGED <<kind, responsibility, grants, active, catalogOwner>>

(* ensure_owner_coverage_preserved, against the rows as they are after the  *)
(* change.                                                                  *)
StaysCovered(ids) == \A o \in ids \ Covered' : ~Exists(o)'

DetachPlacement(a, parent, o) ==
    /\ <<parent, o>> \in placement
    /\ Can(a, "write", parent)
    /\ MayMove(a, o)
    /\ placement' = placement \ {<<parent, o>>}
    /\ UNCHANGED <<kind, responsibility, grants, active, catalogOwner>>
    /\ StaysCovered(Covered)

LinkRunbook(a, r, target) ==
    /\ Exists(r) /\ Exists(target)
    /\ kind[r] = "runbook" /\ kind[target] \in ResponsibilityKinds
    /\ \A x \in Objects : <<r, x>> \notin responsibility
    /\ MayMove(a, r) /\ MayMove(a, target)
    /\ responsibility' = responsibility \cup {<<r, target>>}
    /\ UNCHANGED <<kind, placement, grants, active, catalogOwner>>

UnlinkRunbook(a, r, target) ==
    /\ <<r, target>> \in responsibility
    /\ MayMove(a, r) /\ MayMove(a, target)
    /\ responsibility' = responsibility \ {<<r, target>>}
    /\ UNCHANGED <<kind, placement, grants, active, catalogOwner>>
    /\ StaysCovered(Covered)
    /\ \A o \in {r, target} : Can(a, "manage_access", o) => Can(a, "manage_access", o)'

-----------------------------------------------------------------------------
(* Grant management.                                                        *)

MayManage(a, o, roles) ==
    /\ Can(a, "manage_access", o)
    /\ "owner" \in roles => MayChangeOwnerGrants(a, o)

CreateGrant(a, g) ==
    /\ Cardinality(grants) < MaxGrants
    /\ ValidTarget(g.role, g.scope, kind[g.object])
    /\ active[g.principal]
    /\ g \notin grants
    /\ MayManage(a, g.object, {g.role})
    /\ grants' = grants \cup {g}
    /\ UNCHANGED <<kind, placement, responsibility, active, catalogOwner>>

(* Seeded fault: only the anchor of the grant is looked at.                 *)
AnchorOf(g) == IF g.role = "owner" /\ Effective(g) THEN {g.object} ELSE {}

(* grant_affected_object_ids: a malformed grant reaches nothing.            *)
AffectedBy(g) ==
    IF g.role = "owner" /\ Effective(g) THEN Reach(g) ELSE {}

(* Seeded fault: any grant on the object passes for access management.       *)
KeepsSomeGrant(a, g) ==
    a = g.principal => EffectiveGrantsFor(a, g.object)' # {}

(* _ensure_no_self_lockout *)
KeepsOwnAccess(a, g) ==
    a = g.principal => Can(a, "manage_access", g.object)'

UpdateGrant(a, g, role, scope) ==
    LET h == [g EXCEPT !.role = role, !.scope = scope]
    IN  /\ g \in grants
        /\ h \notin grants
        /\ ValidTarget(role, scope, kind[g.object])
        /\ MayManage(a, g.object, {g.role, role})
        /\ grants' = (grants \ {g}) \cup {h}
        /\ UNCHANGED <<kind, placement, responsibility, active, catalogOwner>>
        /\ StaysCovered(AffectedBy(g))
        /\ KeepsOwnAccess(a, g)

RevokeGrant(a, g) ==
    /\ g \in grants
    /\ MayManage(a, g.object, {g.role})
    /\ grants' = grants \ {g}
    /\ UNCHANGED <<kind, placement, responsibility, active, catalogOwner>>
    /\ StaysCovered(AffectedBy(g))
    /\ KeepsOwnAccess(a, g)

AdoptOwnerless(a, o, p) ==
    /\ IsCatalogOwner(a)
    /\ Exists(o)
    /\ active[p]
    /\ o \notin Covered
    /\ Cardinality(grants) < MaxGrants
    /\ grants' = grants \cup {OwnerSelf(p, o)}
    /\ UNCHANGED <<kind, placement, responsibility, active, catalogOwner>>

-----------------------------------------------------------------------------
(* Principals.                                                              *)

(* Seeded fault: inactive holders of the role are counted as well.          *)
OnlyRoleHolder(p) == IsCatalogOwner(p) /\ \A q \in Principals \ {p} : ~catalogOwner[q]

LastCatalogOwner(p) == IsCatalogOwner(p) /\ \A q \in Principals \ {p} : ~IsCatalogOwner(q)

(* Seeded fault: grants of inactive principals still count as coverage.     *)
OthersHoldGrants(p) ==
    CoveredBy({g \in OwnerGrants : g.principal = p})
        \subseteq CoveredBy({g \in grants : g.role = "owner" /\ g.principal # p})

(* ensure_owner_coverage_after_exclusions.                                  *)
CoveredWithout(p) ==
    LET lost == {g \in OwnerGrants : g.principal = p}
    IN  CoveredBy(lost) \subseteq CoveredBy(OwnerGrants \ lost)

DeactivatePrincipal(p) ==
    /\ active[p]
    /\ ~LastCatalogOwner(p)
    /\ CoveredWithout(p)
    /\ active' = [active EXCEPT ![p] = FALSE]
    /\ UNCHANGED <<kind, placement, responsibility, grants, catalogOwner>>

ActivatePrincipal(p) ==
    /\ ~active[p]
    /\ ~catalogOwner[p]
    /\ active' = [active EXCEPT ![p] = TRUE]
    /\ UNCHANGED <<kind, placement, responsibility, grants, catalogOwner>>

AssignCatalogOwner(a, p) ==
    /\ IsCatalogOwner(a)
    /\ active[p] /\ ~catalogOwner[p]
    /\ catalogOwner' = [catalogOwner EXCEPT ![p] = TRUE]
    /\ UNCHANGED <<kind, placement, responsibility, grants, active>>

RemoveCatalogOwner(a, p) ==
    /\ IsCatalogOwner(a)
    /\ catalogOwner[p]
    /\ ~LastCatalogOwner(p)
    /\ catalogOwner' = [catalogOwner EXCEPT ![p] = FALSE]
    /\ UNCHANGED <<kind, placement, responsibility, grants, active>>

(* The protected CLI, only while nobody holds the role.                     *)
BootstrapCatalogOwner(p) ==
    /\ active[p]
    /\ \A q \in Principals : ~IsCatalogOwner(q)
    /\ catalogOwner' = [catalogOwner EXCEPT ![p] = TRUE]
    /\ UNCHANGED <<kind, placement, responsibility, grants, active>>

-----------------------------------------------------------------------------
(* An upgraded catalog from before the rule may hold objects without grants. *)
Init ==
    /\ kind \in [Objects -> Kinds \cup {Absent}]
    /\ placement = {}
    /\ responsibility = {}
    /\ grants = {}
    /\ active \in [Principals -> BOOLEAN]
    /\ catalogOwner \in [Principals -> BOOLEAN]

Creation ==
    \E a \in Principals, o \in Objects, k \in Kinds :
        \/ CreateRoot(a, o, k)
        \/ \E parent \in Objects : CreateChild(a, parent, o, k)
        \/ ImportObject(a, o, k)

ObjectChange ==
    \E a \in Principals, o \in Objects :
        \/ DeleteObject(a, o)
        \/ \E k \in Kinds : ChangeKind(a, o, k)

RelationshipChange ==
    \E a \in Principals, x, y \in Objects :
        \/ AttachPlacement(a, x, y)
        \/ DetachPlacement(a, x, y)
        \/ LinkRunbook(a, x, y)
        \/ UnlinkRunbook(a, x, y)

GrantChange ==
    \E a \in Principals :
        \/ \E g \in Grants : CreateGrant(a, g)
        \/ \E g \in grants, r \in Roles, s \in Scopes : UpdateGrant(a, g, r, s)
        \/ \E g \in grants : RevokeGrant(a, g)
        \/ \E o \in Objects, p \in Principals : AdoptOwnerless(a, o, p)

PrincipalChange ==
    \E p \in Principals :
        \/ DeactivatePrincipal(p)
        \/ ActivatePrincipal(p)
        \/ \E a \in Principals : AssignCatalogOwner(a, p) \/ RemoveCatalogOwner(a, p)
        \/ BootstrapCatalogOwner(p)

Next == Creation \/ ObjectChange \/ RelationshipChange \/ GrantChange \/ PrincipalChange

Spec == Init /\ [][Next]_vars

-----------------------------------------------------------------------------
(* The state keeps its types; authority edges connect stored objects of the  *)
(* kinds they are meant for, an object has one placement parent, a runbook    *)
(* one responsible target, and a grant never outlives its object: what        *)
(* deletes and kind changes could leave behind, and what an ID that is        *)
(* created again would inherit.                                             *)
StructureSound ==
    /\ TypeOK
    /\ \A e \in placement : <<kind[e[1]], kind[e[2]]>> \in PlacementPairs
    /\ \A e \in responsibility :
           kind[e[1]] = "runbook" /\ kind[e[2]] \in ResponsibilityKinds
    /\ \A d, e \in placement : d[2] = e[2] => d = e
    /\ \A d, e \in responsibility : d[1] = e[1] => d = e
    /\ \A g \in grants : Exists(g.object)

(* No creating command commits an object without an active Owner           *)
(* (assign_initial_owner).                                                  *)
CreatedOwned ==
    [][\A o \in Objects : ~Exists(o) /\ Exists(o)' => o \in Covered']_vars

(* Of all commands on an owned object only one that changes the kind of      *)
(* that very object can leave it without an Owner: grant changes, detached   *)
(* placements and runbooks, deletes of other objects and deactivations       *)
(* cannot, whichever grants the coverage came from.                          *)
OnlyKindChangeOrphans ==
    [][\A o \in Covered \ Covered' : Exists(o)' => kind'[o] # kind[o]]_vars

(* An owned object stays owned: what the documentation promises              *)
(* (docs/auth-rbac.md, "Ownership invariant").  The code does not keep it.   *)
OwnedStaysOwned ==
    [][\A o \in Covered \ Covered' : ~Exists(o)']_vars

(* The last active catalog owner is never demoted or deactivated.            *)
CatalogOwnerRemains ==
    [][(\E p \in Principals : IsCatalogOwner(p)) => (\E p \in Principals : IsCatalogOwner(p))']_vars

(* Grant changes, and removed runbook responsibilities, leave the actor able *)
(* to manage the object the command was about.                               *)
ManagersKeepAccess ==
    [][\A a \in Principals, o \in Objects :
          Can(a, "manage_access", o) /\ ~Can(a, "manage_access", o)' =>
              /\ \A g \in grants : g.object = o => ~RevokeGrant(a, g)
              /\ \A g \in grants, r \in Roles, s \in Scopes :
                     g.object = o => ~UpdateGrant(a, g, r, s)
              /\ \A x \in Objects : ~UnlinkRunbook(a, o, x) /\ ~UnlinkRunbook(a, x, o)]_vars
=============================================================================
