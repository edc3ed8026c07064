-------------------------- MODULE CatalogReferences --------------------------
(***************************************************************************)
(* Catalog objects, the typed references that their documents hold, and the      *)
(* relationships between them (services/catalog.py, services/commands.py,         *)
(* domain/relationships.py, domain/placement.py, domain/decisions.py).            *)
(*                                                                         *)
(* A command reads (Start) and then claims its target's revision, validates and  *)
(* writes (Finish).  The locks of lock_grant_command_state keep two commands       *)
(* apart on PostgreSQL; on SQLite the write lock comes with the first write, and   *)
(* an object that the session has read before keeps the values it had then.        *)
(* Revisions are only compared with what was read: "moved" says that the target     *)
(* has been written since.  Who may do what is ObjectOwnership's concern.         *)
(***************************************************************************)
EXTENDS Integers, FiniteSets

CONSTANTS Ids, Workers,
          Documents,  \* the documents that writers store: kind, switch, unassigned, ref
          Relations,  \* the relation types that are in use
          Primaries,  \* the values of an edge's metadata.primary that are in use
          None

VARIABLES
    objects,  \* CatalogObject of an ID, or None
    edges,    \* Relationship rows
    work,     \* the command each worker is executing, or None
    dialect

vars == <<objects, edges, work, dialect>>

Live == {o \in Ids : objects[o] # None}
Refs == {[kind |-> d.kind, id |-> o] : d \in Documents, o \in Ids}
Ref(cat, o) == [kind |-> cat[o].kind, id |-> o]
Ends(edge) == {edge.from.id, edge.to.id}
Same(a, b) == a.from = b.from /\ a.type = b.type /\ a.to = b.to

Edges == [from: Refs, type: Relations, to: Refs, primary: Primaries]

(* What the constants are: documents of one shape, and None is none of them.       *)
Kinds == {d.kind : d \in Documents}
Stored == [kind: Kinds, switch: BOOLEAN, unassigned: BOOLEAN, ref: Refs \cup {None}]
DocumentsAreRecords == Documents \subseteq Stored /\ None \notin Stored

-----------------------------------------------------------------------------
(* resolve_reference in the catalog cat.                                       *)
Resolves(cat, ref) == cat[ref.id] # None /\ cat[ref.id].kind = ref.kind

(* _allowed_pairs and the endpoint predicates.                                 *)
Switch(d) == d.kind = "network" /\ d.switch
EndpointsAllowed(type, source, target) ==
    CASE type = "hosts" ->
            <<source.kind, target.kind>> \in
                {<<"host", "system">>, <<"host", "service">>, <<"system", "service">>}
      [] type = "attached_to" ->
            \/ source.kind = "device" /\ (target.kind \in {"host", "system", "device"} \/ Switch(target))
            \/ source.kind \in {"host", "system"} /\ Switch(target)
      [] type = "uplinks_to" -> Switch(source) /\ Switch(target)
      [] OTHER -> TRUE

(* validate_relationship.                                                     *)
ValidEdge(cat, edge) ==
    /\ Resolves(cat, edge.from) /\ Resolves(cat, edge.to)
    /\ EndpointsAllowed(edge.type, cat[edge.from.id], cat[edge.to.id])

(* _first_cycle finds none.                                                   *)
Acyclic(arcs) ==
    \A S \in (SUBSET {a[1] : a \in arcs}) \ {{}} :
        \E x \in S : \A a \in arcs : a[1] = x => a[2] \notin S

Arcs(es) == {<<e.from.id, e.to.id>> : e \in es}

(* The rules of relationship_graph_diagnostics and of single placement parents.  *)
GraphRules(es) ==
    /\ \A e, f \in es :
          /\ Same(e, f) => e = f
          /\ e.type = "hosts" /\ f.type = "hosts" /\ e.to = f.to => e = f
          /\ e.primary /\ f.primary /\ e.from = f.from /\ e.type = f.type => e = f
    /\ Acyclic(Arcs({e \in es : e.type = "attached_to"
                             /\ e.from.kind = "device" /\ e.to.kind = "device"}))
    /\ Acyclic(Arcs({e \in es : e.type = "uplinks_to"}))

(* validate_relationship_collection.                                          *)
ValidCollection(cat, es) == (\A e \in es : ValidEdge(cat, e)) /\ GraphRules(es)

(* validate_decision_integrity: a decision's reference to a decision is its       *)
(* successor.                                                                *)
Successions(cat) ==
    {<<o, cat[o].ref.id>> : o \in {o \in Ids : /\ cat[o] # None /\ cat[o].kind = "decision"
                                              /\ cat[o].ref # None /\ cat[o].ref.kind = "decision"}}

(* Seeded fault: the documents of other objects are not searched for the reference. *)
EdgesOnly(ref) == \E e \in edges : ref \in {e.from, e.to}

(* _reference_blockers.                                                       *)
ReferenceBlockers(ref) ==
    \/ \E e \in edges : ref \in {e.from, e.to}
    \/ \E o \in Live : objects[o].ref = ref

(* plan_object_upsert of document d at o.                                       *)
UpsertAllowed(o, d) ==
    LET cat == [objects EXCEPT ![o] = d]
    IN  /\ d.ref # None => Resolves(cat, d.ref)
        /\ d.kind = "decision" => Acyclic(Successions(cat))
        /\ o \in Live /\ objects[o].kind # d.kind => ~ReferenceBlockers(Ref(objects, o))
        /\ o \in Live => ValidCollection(cat, {e \in edges : o \in Ends(e)})

-----------------------------------------------------------------------------
Init ==
    /\ objects = [o \in Ids |-> None] /\ edges = {} /\ work = [w \in Workers |-> None]
    /\ dialect \in {"postgresql", "sqlite"}

(* lock_grant_command_state; of the objects in S the session keeps the rows.       *)
Start(w, command, S) ==
    /\ work[w] = None
    /\ dialect = "postgresql" => \A v \in Workers : work[v] = None
    /\ work' = [work EXCEPT ![w] =
            [command |-> command, moved |-> FALSE, read |-> [o \in S |-> objects[o]]]]
    /\ UNCHANGED <<objects, edges, dialect>>

(* create_object_relationship under the ETag of the end that is the target; an     *)
(* edge that is there takes the metadata.                                      *)
StartLink(w) ==
    \E edge \in Edges \ edges : \E target \in Ends(edge) :
        /\ edge.from.id # edge.to.id /\ Resolves(objects, edge.from) /\ Resolves(objects, edge.to)
        /\ Start(w, [op |-> "link", target |-> target, edge |-> edge,
                     replaces |-> {e \in edges : Same(e, edge)}], Ends(edge))

(* delete_object_relationship.                                                *)
StartUnlink(w) ==
    \E edge \in edges : \E target \in Ends(edge) :
        /\ Resolves(objects, edge.from) /\ Resolves(objects, edge.to)
        /\ Start(w, [op |-> "unlink", target |-> target, edge |-> edge], {})

(* update_catalog_object, which plans before it writes.                         *)
StartUpdate(w) ==
    \E o \in Live, d \in Documents :
        /\ objects[o] # d /\ UpsertAllowed(o, d)
        /\ Start(w, [op |-> "update", target |-> o, document |-> d], {})

StartDelete(w) == \E o \in Live : Start(w, [op |-> "delete", target |-> o], {})

(* create_catalog_root; create_child_object and create_attached_device with the     *)
(* parent they have read.                                                     *)
StartCreate(w) ==
    \E o \in Ids, d \in Documents :
        LET self == [kind |-> d.kind, id |-> o]
        IN  \/ Start(w, [op |-> "create", target |-> o, document |-> d, adds |-> {}], {})
            \/ \E p \in Live, type \in Relations \cap {"hosts", "attached_to"}, primary \in Primaries :
                  /\ p # o /\ type = "attached_to" => d.kind = "device"
                  /\ type = "hosts" => primary = FALSE
                  /\ Start(w, [op |-> "create", target |-> o, document |-> d, adds |->
                        {[from |-> IF type = "hosts" THEN Ref(objects, p) ELSE self, type |-> type,
                          to |-> IF type = "hosts" THEN self ELSE Ref(objects, p),
                          primary |-> primary]}], {p})

-----------------------------------------------------------------------------
(* The command ends; the revisions of the objects in S are counted.             *)
End(w, S) ==
    work' = [v \in Workers |->
                IF v = w THEN None
                ELSE IF work[v] # None /\ work[v].command.target \in S
                     THEN [work[v] EXCEPT !.moved = TRUE] ELSE work[v]]

Refuse(w) == End(w, {}) /\ UNCHANGED <<objects, edges>>

(* _claim_object_revision.                                                    *)
Claimed(w) == ~work[w].moved

(* What the validation sees: an object that is there, as the session knows it.      *)
View(w) == [o \in Ids |-> IF o \in DOMAIN work[w].read \cap Live THEN work[w].read[o] ELSE objects[o]]

(* _clear_explicit_unassigned_state of the child of a new placement.              *)
Placed(cat, edge) ==
    IF edge.type = "hosts" /\ cat[edge.to.id].unassigned
    THEN [objects EXCEPT ![edge.to.id] =
            [objects[edge.to.id] EXCEPT !.ref = cat[edge.to.id].ref, !.unassigned = FALSE]]
    ELSE objects

FinishLink(w) ==
    LET c == work[w].command
        cat == View(w)
        proposed == (edges \ c.replaces) \cup {c.edge}
    IN  /\ work[w] # None /\ c.op = "link"
        /\ IF Claimed(w) /\ ValidCollection(cat, proposed)
           THEN /\ edges' = proposed
                /\ objects' = IF c.replaces = {} THEN Placed(cat, c.edge) ELSE objects
                /\ End(w, Ends(c.edge))
           ELSE Refuse(w)
        /\ UNCHANGED dialect

FinishUnlink(w) ==
    /\ work[w] # None /\ work[w].command.op = "unlink"
    /\ IF Claimed(w)
       THEN /\ edges' = edges \ {work[w].command.edge}
            /\ End(w, Ends(work[w].command.edge)) /\ UNCHANGED objects
       ELSE Refuse(w)
    /\ UNCHANGED dialect

FinishUpdate(w) ==
    LET c == work[w].command
    IN  /\ work[w] # None /\ c.op = "update"
        /\ IF Claimed(w)
           THEN /\ objects' = [objects EXCEPT ![c.target] = c.document]
                /\ End(w, {c.target}) /\ UNCHANGED edges
           ELSE Refuse(w)
        /\ UNCHANGED dialect

FinishDelete(w) ==
    LET c == work[w].command
    IN  /\ work[w] # None /\ c.op = "delete"
        /\ IF Claimed(w) /\ ~ReferenceBlockers(Ref(objects, c.target))
           THEN /\ objects' = [objects EXCEPT ![c.target] = None]
                /\ End(w, {c.target}) /\ UNCHANGED edges
           ELSE Refuse(w)
        /\ UNCHANGED dialect

(* The idempotency record is the first write: all but the parent is read under      *)
(* the write lock, and nothing is claimed.                                     *)
FinishCreate(w) ==
    LET c == work[w].command
        cat == [View(w) EXCEPT ![c.target] = c.document]
    IN  /\ work[w] # None /\ c.op = "create"
        /\ IF /\ c.target \notin Live /\ UpsertAllowed(c.target, c.document)
              /\ c.adds # {} => ValidCollection(cat, edges \cup c.adds)
           THEN /\ edges' = edges \cup c.adds
                /\ objects' = [objects EXCEPT ![c.target] =
                        IF \E e \in c.adds : e.type = "hosts"
                        THEN [c.document EXCEPT !.unassigned = FALSE] ELSE c.document]
                /\ End(w, {c.target} \cup UNION {Ends(e) : e \in c.adds})
           ELSE Refuse(w)
        /\ UNCHANGED dialect

Next ==
    \E w \in Workers :
        \/ StartLink(w) \/ StartUnlink(w) \/ StartUpdate(w) \/ StartDelete(w) \/ StartCreate(w)
        \/ FinishLink(w) \/ FinishUnlink(w) \/ FinishUpdate(w) \/ FinishDelete(w) \/ FinishCreate(w)

Spec == Init /\ [][Next]_vars

-----------------------------------------------------------------------------
TypeOK ==
    /\ objects \in [Ids -> Stored \cup {None}]
    /\ edges \subseteq Edges
    /\ \A w \in Workers : work[w] # None => work[w].command.target \in Ids

(* The rules of the relationship graph hold on every database, whatever the        *)
(* commands that are under way have read before their claim (the central             *)
(* collection validator sees the rows, under the write lock).                   *)
GraphRulesHold == GraphRules(edges)

(* And where commands exclude each other every relationship and every reference    *)
(* in a document leads to an object of the kind it names, the endpoints are          *)
(* allowed as they are now, and no decision supersedes itself in the end.         *)
ReferencesHold ==
    dialect = "postgresql" =>
        /\ \A e \in edges : ValidEdge(objects, e)
        /\ \A o \in Live : objects[o].ref # None => Resolves(objects, objects[o].ref)
        /\ Acyclic(Successions(objects))

CatalogSound == GraphRulesHold /\ ReferencesHold
=============================================================================
