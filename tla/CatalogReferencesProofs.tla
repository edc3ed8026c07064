------------------------ MODULE CatalogReferencesProofs ------------------------
(***************************************************************************)
(* CatalogSound for any objects, documents, relation types and workers: the     *)
(* rules of the graph hold on both databases, and where commands exclude each    *)
(* other every relationship and reference leads to an object of the kind it       *)
(* names.                                                                    *)
(*                                                                         *)
(* The argument: the collection validator looks at all edges in the very step     *)
(* that writes, so the rules of the graph need no exclusion.  References do: a      *)
(* command on PostgreSQL is alone from its first read on (Exclusive), so what it     *)
(* has read is what is there (LEMMA ViewIsCatalog), what it has planned still        *)
(* stands (Planned), and one document replaced under UpsertAllowed keeps every       *)
(* reference of the others (LEMMA ReplacementKeeps).                             *)
(***************************************************************************)
EXTENDS CatalogReferences, TLAPS

-----------------------------------------------------------------------------
(* What ReferencesHold says of a catalog and a set of edges.                    *)
SoundReferences(cat, es) ==
    /\ \A e \in es : ValidEdge(cat, e)
    /\ \A o \in Ids : cat[o] # None /\ cat[o].ref # None => Resolves(cat, cat[o].ref)
    /\ Acyclic(Successions(cat))

CommandOK(c) ==
    /\ c.target \in Ids
    /\ c.op = "link" => c.edge \in Edges
    /\ c.op \in {"update", "create"} => c.document \in Documents
    /\ c.op = "create" => c.adds \subseteq Edges

Work(x) ==
    /\ x = [command |-> x.command, moved |-> x.moved, read |-> x.read]
    /\ CommandOK(x.command)
    /\ \A o \in DOMAIN x.read : x.read[o] \in Stored \cup {None}

Typed ==
    /\ objects \in [Ids -> Stored \cup {None}]
    /\ edges \subseteq Edges
    /\ work = [w \in Workers |-> work[w]]
    /\ \A w \in Workers : work[w] # None => Work(work[w])

Planned(c) == c.op = "update" => UpsertAllowed(c.target, c.document)

Exclusive ==
    dialect = "postgresql" =>
        /\ \A v, w \in Workers : work[v] # None /\ work[w] # None => v = w
        /\ \A w \in Workers : work[w] # None =>
              /\ Planned(work[w].command)
              /\ \A o \in DOMAIN work[w].read : work[w].read[o] = objects[o]

IInv ==
    /\ Typed
    /\ GraphRules(edges)
    /\ dialect = "postgresql" => SoundReferences(objects, edges)
    /\ Exclusive

-----------------------------------------------------------------------------
LEMMA FewerArcs ==
    ASSUME NEW A, NEW B, A \subseteq B, Acyclic(B)
    PROVE  Acyclic(A)
BY DEF Acyclic

LEMMA FewerEdges ==
    ASSUME NEW A, NEW B, A \subseteq B, GraphRules(B)
    PROVE  GraphRules(A)
<1> DEFINE attached(es) == {e \in es : e.type = "attached_to"
                              /\ e.from.kind = "device" /\ e.to.kind = "device"}
           uplinks(es) == {e \in es : e.type = "uplinks_to"}
<1>1. Arcs(attached(A)) \subseteq Arcs(attached(B)) /\ Arcs(uplinks(A)) \subseteq Arcs(uplinks(B))
  BY DEF Arcs
<1>2. Acyclic(Arcs(attached(A))) /\ Acyclic(Arcs(uplinks(A)))
  <2>1. Acyclic(Arcs(attached(B))) /\ Acyclic(Arcs(uplinks(B)))
    BY DEF GraphRules
  <2> HIDE DEF attached, uplinks
  <2>2. QED
    BY <1>1, <2>1, FewerArcs
<1>3. QED
  BY <1>2 DEF GraphRules

(* Catalogs with the same kinds, switches and references are alike to them.       *)
LEMMA LooksAlike ==
    ASSUME NEW f, NEW h, NEW es \in SUBSET Edges, SoundReferences(f, es),
           \A o \in Ids : f[o] # None => f[o].ref \in Refs \cup {None},
           \A o \in Ids : /\ (f[o] = None) <=> (h[o] = None)
                          /\ f[o] # None => /\ f[o].kind = h[o].kind /\ f[o].switch = h[o].switch
                                            /\ f[o].ref = h[o].ref
    PROVE  SoundReferences(h, es)
<1>1. \A r \in Refs : Resolves(f, r) => Resolves(h, r)
  BY DEF Resolves, Refs
<1>2. ASSUME NEW e \in es PROVE ValidEdge(h, e)
  <2>1. e.from \in Refs /\ e.to \in Refs /\ e.from.id \in Ids /\ e.to.id \in Ids
    BY DEF Edges, Refs
  <2>2. ValidEdge(f, e) /\ f[e.from.id] # None /\ f[e.to.id] # None
    BY DEF SoundReferences, ValidEdge, Resolves
  <2>3. EndpointsAllowed(e.type, f[e.from.id], f[e.to.id]) =>
            EndpointsAllowed(e.type, h[e.from.id], h[e.to.id])
    BY <2>1, <2>2 DEF EndpointsAllowed, Switch
  <2>4. QED
    BY <1>1, <2>1, <2>2, <2>3 DEF ValidEdge
<1>3. ASSUME NEW o \in Ids, h[o] # None, h[o].ref # None
      PROVE  Resolves(h, h[o].ref)
  <2>1. h[o].ref \in Refs /\ Resolves(f, h[o].ref)
    BY <1>3 DEF SoundReferences
  <2>2. QED
    BY <1>1, <2>1
<1>4. Successions(h) = Successions(f)
  BY DEF Successions
<1>5. QED
  BY <1>2, <1>3, <1>4 DEF SoundReferences

LEMMA StoredDocuments ==
    ASSUME DocumentsAreRecords
    PROVE  /\ \A d \in Documents : d \in Stored
           /\ \A d \in Stored : /\ d # None /\ d.kind \in Kinds /\ d.ref \in Refs \cup {None}
                                /\ \A o \in Ids : [kind |-> d.kind, id |-> o] \in Refs
           /\ \A r \in Refs : /\ r = [kind |-> r.kind, id |-> r.id] /\ r.id \in Ids
<1>1. \A d \in Documents : d \in Stored
  BY DEF DocumentsAreRecords
<1>2. ASSUME NEW d \in Stored
      PROVE  d # None /\ d.kind \in Kinds /\ d.ref \in Refs \cup {None}
  BY DEF DocumentsAreRecords, Stored
<1>3. ASSUME NEW k \in Kinds, NEW o \in Ids PROVE [kind |-> k, id |-> o] \in Refs
  BY DEF Kinds, Refs
<1>4. ASSUME NEW r \in Refs PROVE r = [kind |-> r.kind, id |-> r.id] /\ r.id \in Ids
  BY DEF Refs
<1>5. QED
  BY <1>1, <1>2, <1>3, <1>4

(* What plan_object_upsert allows leaves every reference of the others sound.       *)
LEMMA ReplacementKeeps ==
    ASSUME DocumentsAreRecords, objects \in [Ids -> Stored \cup {None}], edges \subseteq Edges,
           NEW o \in Ids, NEW d \in Documents,
           SoundReferences(objects, edges), UpsertAllowed(o, d)
    PROVE  SoundReferences([objects EXCEPT ![o] = d], edges)
<1> DEFINE cat == [objects EXCEPT ![o] = d]
<1>1. cat[o] = d /\ \A p \in Ids \ {o} : cat[p] = objects[p]
  OBVIOUS
<1>2. ASSUME NEW p \in Ids, cat[p] # None, cat[p].ref # None
      PROVE  Resolves(cat, cat[p].ref)
  <2>1. CASE p = o
    BY <1>1, <1>2, <2>1 DEF UpsertAllowed
  <2>2. CASE p # o
    <3> DEFINE r == objects[p].ref
    <3>1. objects[p] \in Stored /\ r \in Refs /\ Resolves(objects, r) /\ cat[p].ref = r
      BY <1>1, <1>2, <2>2, StoredDocuments DEF SoundReferences
    <3>2. r.id \in Ids /\ objects[r.id] # None /\ r.kind = objects[r.id].kind
      BY <3>1, StoredDocuments DEF Resolves
    <3>3. CASE r.id # o
      BY <1>1, <3>1, <3>2, <3>3 DEF Resolves
    <3>4. CASE r.id = o
      <4>1. r = Ref(objects, o)
        BY <3>1, <3>2, <3>4, StoredDocuments DEF Ref
      <4>2. objects[o] # None /\ p \in Live /\ o \in Live
        BY <1>1, <1>2, <2>2, <3>2, <3>4 DEF Live
      <4>3. ReferenceBlockers(Ref(objects, o))
        BY <4>1, <4>2 DEF ReferenceBlockers
      <4>4. d.kind = objects[o].kind
        BY <4>2, <4>3 DEF UpsertAllowed
      <4>5. QED
        BY <1>1, <3>1, <3>2, <3>4, <4>4, StoredDocuments DEF Resolves
    <3>5. QED
      BY <3>3, <3>4
  <2>3. QED
    BY <2>1, <2>2
<1>3. ASSUME NEW e \in edges PROVE ValidEdge(cat, e)
  <2>1. e.from.id \in Ids /\ e.to.id \in Ids /\ ValidEdge(objects, e)
    BY DEF SoundReferences, Edges, Refs
  <2>2. CASE o \in Ends(e)
    <3>1. o \in Live
      BY <2>1, <2>2 DEF Live, Ends, ValidEdge, Resolves
    <3>2. ValidCollection(cat, {f \in edges : o \in Ends(f)})
      BY <3>1 DEF UpsertAllowed
    <3>3. QED
      BY <2>2, <3>2 DEF ValidCollection
  <2>3. CASE o \notin Ends(e)
    <3>1. cat[e.from.id] = objects[e.from.id] /\ cat[e.to.id] = objects[e.to.id]
      BY <1>1, <2>1, <2>3 DEF Ends
    <3>2. QED
      BY <2>1, <3>1 DEF ValidEdge, Resolves
  <2>4. QED
    BY <2>2, <2>3
<1>4. Acyclic(Successions(cat))
  <2>1. CASE d.kind = "decision"
    BY <2>1 DEF UpsertAllowed
  <2>2. CASE d.kind # "decision"
    <3>1. Successions(cat) \subseteq Successions(objects)
      BY <1>1, <2>2 DEF Successions
    <3>2. QED
      BY <3>1, FewerArcs DEF SoundReferences
  <2>3. QED
    BY <2>1, <2>2
<1>5. QED
  BY <1>2, <1>3, <1>4 DEF SoundReferences

(* The object of a reference that nobody holds can go.                          *)
LEMMA DeletionKeeps ==
    ASSUME DocumentsAreRecords, objects \in [Ids -> Stored \cup {None}], edges \subseteq Edges,
           NEW o \in Ids, SoundReferences(objects, edges), ~ReferenceBlockers(Ref(objects, o))
    PROVE  SoundReferences([objects EXCEPT ![o] = None], edges)
<1> DEFINE cat == [objects EXCEPT ![o] = None]
<1>1. cat[o] = None /\ \A p \in Ids \ {o} : cat[p] = objects[p]
  OBVIOUS
<1>2. ASSUME NEW r \in Refs, Resolves(objects, r), ~Resolves(cat, r)
      PROVE  r = Ref(objects, o)
  BY <1>1, <1>2, StoredDocuments DEF Resolves, Ref
<1>3. ASSUME NEW p \in Ids, cat[p] # None, cat[p].ref # None
      PROVE  Resolves(cat, cat[p].ref)
  <2>1. p # o /\ objects[p] \in Stored /\ p \in Live /\ cat[p] = objects[p]
    BY <1>1, <1>3 DEF Live
  <2>2. objects[p].ref \in Refs /\ Resolves(objects, objects[p].ref)
    BY <1>3, <2>1, StoredDocuments DEF SoundReferences
  <2>3. objects[p].ref # Ref(objects, o)
    BY <2>1 DEF ReferenceBlockers
  <2>4. QED
    BY <1>2, <2>1, <2>2, <2>3
<1>4. ASSUME NEW e \in edges PROVE ValidEdge(cat, e)
  <2>1. e.from \in Refs /\ e.to \in Refs /\ ValidEdge(objects, e)
    BY DEF SoundReferences, Edges
  <2>2. e.from # Ref(objects, o) /\ e.to # Ref(objects, o)
    BY DEF ReferenceBlockers
  <2>3. Resolves(cat, e.from) /\ Resolves(cat, e.to)
    BY <1>2, <2>1, <2>2 DEF ValidEdge
  <2>4. cat[e.from.id] = objects[e.from.id] /\ cat[e.to.id] = objects[e.to.id]
    BY <1>1, <2>1, <2>3, StoredDocuments DEF Resolves
  <2>5. QED
    BY <2>1, <2>3, <2>4 DEF ValidEdge
<1>5. Successions(cat) \subseteq Successions(objects)
  BY <1>1 DEF Successions
<1>6. QED
  BY <1>3, <1>4, <1>5, FewerArcs DEF SoundReferences

-----------------------------------------------------------------------------
(* What is read on PostgreSQL is what is there.                                *)
LEMMA ViewIsCatalog ==
    ASSUME DocumentsAreRecords, IInv, dialect = "postgresql", NEW w \in Workers, work[w] # None
    PROVE  View(w) = objects
<1>1. \A o \in DOMAIN work[w].read : work[w].read[o] = objects[o]
  BY DEF IInv, Exclusive
<1>2. objects \in [Ids -> Stored \cup {None}]
  BY DEF IInv, Typed
<1>3. QED
  BY <1>1, <1>2 DEF View

(* A command begins alone on PostgreSQL, and has a plan that stands.             *)
LEMMA StartKeeps ==
    ASSUME IInv, NEW w \in Workers, NEW c, NEW S \in SUBSET Ids,
           CommandOK(c), dialect = "postgresql" => Planned(c), Start(w, c, S)
    PROVE  IInv'
<1> DEFINE x == [command |-> c, moved |-> FALSE, read |-> [o \in S |-> objects[o]]]
<1>1. UNCHANGED <<objects, edges, dialect>> /\ work' = [work EXCEPT ![w] = x]
  BY DEF Start
<1>2. work' = [v \in Workers |-> IF v = w THEN x ELSE work[v]]
  BY <1>1 DEF IInv, Typed
<1>3. \A o \in S : objects[o] \in Stored \cup {None}
  BY DEF IInv, Typed
<1>4. Work(x)
  BY <1>3 DEF Work
<1>5. Typed'
  BY <1>1, <1>2, <1>4 DEF IInv, Typed
<1>6. Planned(c)' <=> Planned(c)
  BY <1>1 DEF Planned, UpsertAllowed, ReferenceBlockers, Live
<1>7. Exclusive'
  <2> SUFFICES ASSUME dialect = "postgresql"
               PROVE  /\ \A u, v \in Workers : work'[u] # None /\ work'[v] # None => u = v
                      /\ \A v \in Workers : work'[v] # None =>
                            /\ Planned(work[v].command)'
                            /\ \A o \in DOMAIN work'[v].read : work'[v].read[o] = objects[o]
    BY <1>1 DEF Exclusive
  <2>1. \A v \in Workers : work[v] = None
    BY DEF Start
  <2>2. \A v \in Workers : v # w => work'[v] = None
    BY <1>2, <2>1
  <2>3. work'[w] = x
    BY <1>2
  <2>4. Planned(work[w].command)'
    BY <1>6, <2>3 DEF Planned, UpsertAllowed, ReferenceBlockers, Live
  <2>5. QED
    BY <2>2, <2>3, <2>4
<1>8. QED
  BY <1>1, <1>5, <1>7 DEF IInv

(* A command ends with what it has written.                                     *)
LEMMA EndKeeps ==
    ASSUME IInv, NEW w \in Workers, NEW S, work[w] # None, End(w, S), dialect' = dialect,
           objects' \in [Ids -> Stored \cup {None}], edges' \subseteq Edges, GraphRules(edges'),
           dialect = "postgresql" => SoundReferences(objects', edges')
    PROVE  IInv'
<1>1. work' = [v \in Workers |-> work'[v]]
  BY DEF End
<1>2. ASSUME NEW v \in Workers, work'[v] # None
      PROVE  /\ v # w /\ work[v] # None
             /\ work'[v].command = work[v].command /\ work'[v].read = work[v].read
             /\ work'[v] = [command |-> work'[v].command, moved |-> work'[v].moved,
                            read |-> work'[v].read]
  <2>1. v # w /\ work'[v] \in {work[v], [work[v] EXCEPT !.moved = TRUE]}
    BY <1>2 DEF End
  <2>2. work[v] # None
    BY <1>2, <2>1 DEF End
  <2>3. work[v] = [command |-> work[v].command, moved |-> work[v].moved, read |-> work[v].read]
    BY <2>2 DEF IInv, Typed, Work
  <2>4. QED
    BY <2>1, <2>2, <2>3
<1>3. ASSUME NEW v \in Workers, work'[v] # None PROVE Work(work'[v])
  <2>1. Work(work[v])
    BY <1>2, <1>3 DEF IInv, Typed
  <2>2. QED
    BY <1>2, <1>3, <2>1 DEF Work
<1>4. Typed'
  BY <1>1, <1>3 DEF Typed
<1>5. dialect = "postgresql" => \A v \in Workers : work'[v] = None
  BY <1>2 DEF IInv, Exclusive
<1>6. Exclusive'
  BY <1>5 DEF Exclusive
<1>7. QED
  BY <1>4, <1>6 DEF IInv

LEMMA RefuseKeeps ==
    ASSUME IInv, NEW w \in Workers, work[w] # None, Refuse(w), dialect' = dialect
    PROVE  IInv'
<1>1. UNCHANGED <<objects, edges>> /\ End(w, {})
  BY DEF Refuse
<1>2. QED
  BY <1>1, EndKeeps DEF IInv, Typed

-----------------------------------------------------------------------------
(* One lemma per action.                                                      *)
LEMMA EdgeEnds ==
    ASSUME NEW e \in Edges
    PROVE  e.from \in Refs /\ e.to \in Refs /\ Ends(e) \subseteq Ids
BY DEF Edges, Refs, Ends

LEMMA StartLinkKeeps ==
    ASSUME IInv, NEW w \in Workers, StartLink(w)
    PROVE  IInv'
<1>0. PICK edge \in Edges : \E target \in Ends(edge) :
        Start(w, [op |-> "link", target |-> target, edge |-> edge,
                  replaces |-> {e \in edges : Same(e, edge)}], Ends(edge))
  BY DEF StartLink
<1>1. PICK target \in Ends(edge) :
        Start(w, [op |-> "link", target |-> target, edge |-> edge,
                  replaces |-> {e \in edges : Same(e, edge)}], Ends(edge))
  BY <1>0
<1> DEFINE c == [op |-> "link", target |-> target, edge |-> edge,
                 replaces |-> {e \in edges : Same(e, edge)}]
<1>2. CommandOK(c) /\ Planned(c)
  BY EdgeEnds DEF CommandOK, Planned
<1>3. Ends(edge) \in SUBSET Ids
  BY EdgeEnds
<1> HIDE DEF c
<1>4. QED
  BY <1>1, <1>2, <1>3, StartKeeps DEF c

LEMMA StartUnlinkKeeps ==
    ASSUME IInv, NEW w \in Workers, StartUnlink(w)
    PROVE  IInv'
<1>0. PICK edge \in edges : \E target \in Ends(edge) :
        Start(w, [op |-> "unlink", target |-> target, edge |-> edge], {})
  BY DEF StartUnlink
<1>1. PICK target \in Ends(edge) :
        Start(w, [op |-> "unlink", target |-> target, edge |-> edge], {})
  BY <1>0
<1> DEFINE c == [op |-> "unlink", target |-> target, edge |-> edge]
<1>2. CommandOK(c) /\ Planned(c)
  BY EdgeEnds DEF CommandOK, Planned, IInv, Typed
<1> HIDE DEF c
<1>3. QED
  BY <1>1, <1>2, StartKeeps DEF c

LEMMA StartUpdateKeeps ==
    ASSUME IInv, NEW w \in Workers, StartUpdate(w)
    PROVE  IInv'
<1>1. PICK o \in Live, d \in Documents :
        UpsertAllowed(o, d) /\ Start(w, [op |-> "update", target |-> o, document |-> d], {})
  BY DEF StartUpdate
<1> DEFINE c == [op |-> "update", target |-> o, document |-> d]
<1>2. CommandOK(c) /\ Planned(c)
  BY <1>1 DEF CommandOK, Planned, Live
<1> HIDE DEF c
<1>3. QED
  BY <1>1, <1>2, StartKeeps DEF c

LEMMA StartDeleteKeeps ==
    ASSUME IInv, NEW w \in Workers, StartDelete(w)
    PROVE  IInv'
<1>1. PICK o \in Live : Start(w, [op |-> "delete", target |-> o], {})
  BY DEF StartDelete
<1> DEFINE c == [op |-> "delete", target |-> o]
<1>2. CommandOK(c) /\ Planned(c)
  BY DEF CommandOK, Planned, Live
<1> HIDE DEF c
<1>3. QED
  BY <1>1, <1>2, StartKeeps DEF c

LEMMA StartCreateKeeps ==
    ASSUME DocumentsAreRecords, IInv, NEW w \in Workers, StartCreate(w)
    PROVE  IInv'
<1>1. PICK o \in Ids, d \in Documents :
        LET self == [kind |-> d.kind, id |-> o]
        IN  \/ Start(w, [op |-> "create", target |-> o, document |-> d, adds |-> {}], {})
            \/ \E p \in Live, type \in Relations \cap {"hosts", "attached_to"}, primary \in Primaries :
                  Start(w, [op |-> "create", target |-> o, document |-> d, adds |->
                        {[from |-> IF type = "hosts" THEN Ref(objects, p) ELSE self, type |-> type,
                          to |-> IF type = "hosts" THEN self ELSE Ref(objects, p),
                          primary |-> primary]}], {p})
  BY DEF StartCreate
<1>2. PICK adds, S :
        /\ adds \subseteq Edges /\ S \subseteq Ids
        /\ Start(w, [op |-> "create", target |-> o, document |-> d, adds |-> adds], S)
  <2>1. CASE Start(w, [op |-> "create", target |-> o, document |-> d, adds |-> {}], {})
    BY <2>1
  <2>2. ASSUME NEW p \in Live, NEW type \in Relations, NEW primary \in Primaries
        PROVE  {[from |-> IF type = "hosts" THEN Ref(objects, p) ELSE [kind |-> d.kind, id |-> o],
                 type |-> type,
                 to |-> IF type = "hosts" THEN [kind |-> d.kind, id |-> o] ELSE Ref(objects, p),
                 primary |-> primary]} \subseteq Edges
    <3>1. objects[p] \in Stored /\ p \in Ids
      BY DEF Live, IInv, Typed
    <3>2. Ref(objects, p) \in Refs /\ [kind |-> d.kind, id |-> o] \in Refs
      BY <3>1, StoredDocuments DEF Ref
    <3>3. QED
      BY <3>2 DEF Edges
  <2>3. CASE \E p \in Live, type \in Relations \cap {"hosts", "attached_to"}, primary \in Primaries :
               Start(w, [op |-> "create", target |-> o, document |-> d, adds |->
                        {[from |-> IF type = "hosts" THEN Ref(objects, p)
                                   ELSE [kind |-> d.kind, id |-> o], type |-> type,
                          to |-> IF type = "hosts" THEN [kind |-> d.kind, id |-> o]
                                 ELSE Ref(objects, p),
                          primary |-> primary]}], {p})
    BY <2>2, <2>3 DEF Live
  <2>4. QED
    BY <1>1, <2>1, <2>3
<1> DEFINE c == [op |-> "create", target |-> o, document |-> d, adds |-> adds]
<1>3. CommandOK(c) /\ Planned(c)
  BY <1>2 DEF CommandOK, Planned
<1> HIDE DEF c
<1>4. QED
  BY <1>2, <1>3, StartKeeps DEF c

LEMMA PlacedDocument ==
    ASSUME NEW d \in Stored, NEW r \in Refs \cup {None}
    PROVE  LET p == [d EXCEPT !.ref = r, !.unassigned = FALSE]
           IN  p \in Stored /\ p.kind = d.kind /\ p.switch = d.switch /\ p.ref = r
<1> DEFINE q == [d EXCEPT !.ref = r]
           p == [q EXCEPT !.unassigned = FALSE]
<1>1. q \in Stored /\ q.kind = d.kind /\ q.switch = d.switch /\ q.ref = r
  BY DEF Stored
<1> HIDE DEF q
<1>2. p \in Stored /\ p.kind = q.kind /\ p.switch = q.switch /\ p.ref = q.ref
  BY <1>1 DEF Stored
<1>3. QED
  BY <1>1, <1>2 DEF q

(* The object that a link places keeps its kind and its references.              *)
LEMMA PlacedLooksAlike ==
    ASSUME DocumentsAreRecords, IInv, NEW w \in Workers, work[w] # None,
           NEW edge \in Edges, Resolves(View(w), edge.to)
    PROVE  /\ Placed(View(w), edge) \in [Ids -> Stored \cup {None}]
           /\ dialect = "postgresql" =>
                \A o \in Ids : LET h == Placed(View(w), edge)
                               IN  /\ (objects[o] = None) <=> (h[o] = None)
                                   /\ objects[o] # None => /\ objects[o].kind = h[o].kind
                                                           /\ objects[o].switch = h[o].switch
                                                           /\ objects[o].ref = h[o].ref
<1> DEFINE cat == View(w)
           t == edge.to.id
           new == [objects[t] EXCEPT !.ref = cat[t].ref, !.unassigned = FALSE]
           h == [objects EXCEPT ![t] = new]
<1>1. t \in Ids /\ objects \in [Ids -> Stored \cup {None}]
  BY DEF Edges, Refs, IInv, Typed
<1>2. cat[t] # None /\ cat[t] \in Stored \cup {None} /\ objects[t] # None
  BY <1>1 DEF Resolves, View, Live, IInv, Typed, Work
<1>3. objects[t] \in Stored /\ cat[t].ref \in Refs \cup {None}
  BY <1>1, <1>2, StoredDocuments
<1>4. /\ new \in Stored /\ new.kind = objects[t].kind /\ new.switch = objects[t].switch
      /\ new.ref = cat[t].ref
  BY <1>3, PlacedDocument
<1> HIDE DEF new
<1>5. h \in [Ids -> Stored \cup {None}]
  BY <1>1, <1>4
<1>6. Placed(cat, edge) \in {objects, h}
  BY DEF Placed, new
<1>7. ASSUME dialect = "postgresql", NEW o \in Ids
      PROVE  /\ (objects[o] = None) <=> (h[o] = None)
             /\ objects[o] # None => /\ objects[o].kind = h[o].kind
                                     /\ objects[o].switch = h[o].switch
                                     /\ objects[o].ref = h[o].ref
  <2>1. cat = objects
    BY <1>7, ViewIsCatalog
  <2>2. CASE o # t
    BY <1>1, <2>2
  <2>3. CASE o = t
    <3>1. h[t] = new /\ new # None
      BY <1>1, <1>4, StoredDocuments
    <3>2. QED
      BY <1>2, <1>4, <2>1, <2>3, <3>1
  <2>4. QED
    BY <2>2, <2>3
<1> HIDE DEF h, cat
<1>8. QED
  BY <1>1, <1>5, <1>6, <1>7 DEF cat

LEMMA FinishLinkKeeps ==
    ASSUME DocumentsAreRecords, IInv, NEW w \in Workers, FinishLink(w)
    PROVE  IInv'
<1> DEFINE c == work[w].command
           cat == View(w)
           proposed == (edges \ c.replaces) \cup {c.edge}
<1>1. work[w] # None /\ c.op = "link" /\ dialect' = dialect
  BY DEF FinishLink
<1>2. CASE ~(Claimed(w) /\ ValidCollection(cat, proposed))
  <2>1. Refuse(w)
    BY <1>2 DEF FinishLink
  <2>2. QED
    BY <1>1, <2>1, RefuseKeeps
<1>3. CASE Claimed(w) /\ ValidCollection(cat, proposed)
  <2>1. /\ edges' = proposed /\ End(w, Ends(c.edge))
        /\ objects' = IF c.replaces = {} THEN Placed(cat, c.edge) ELSE objects
    BY <1>3 DEF FinishLink
  <2>2. c.edge \in Edges /\ c.edge \in proposed
    BY <1>1 DEF IInv, Typed, Work, CommandOK
  <2>3. edges' \subseteq Edges
    BY <2>1, <2>2 DEF IInv, Typed
  <2>4. Resolves(cat, c.edge.to) /\ GraphRules(edges')
    BY <1>3, <2>1, <2>2 DEF ValidCollection, ValidEdge
  <2>5. objects' \in [Ids -> Stored \cup {None}]
    BY <1>1, <2>1, <2>2, <2>4, PlacedLooksAlike DEF IInv, Typed
  <2>6. ASSUME dialect = "postgresql" PROVE SoundReferences(objects', edges')
    <3>1. cat = objects
      BY <1>1, <2>6, ViewIsCatalog
    <3>2. SoundReferences(objects, edges')
      BY <1>3, <2>1, <2>6, <3>1 DEF ValidCollection, SoundReferences, IInv
    <3>3. \A o \in Ids : objects[o] # None => objects[o].ref \in Refs \cup {None}
      BY StoredDocuments DEF IInv, Typed
    <3>4. \A o \in Ids : /\ (objects[o] = None) <=> (objects'[o] = None)
                         /\ objects[o] # None => /\ objects[o].kind = objects'[o].kind
                                                 /\ objects[o].switch = objects'[o].switch
                                                 /\ objects[o].ref = objects'[o].ref
      BY <1>1, <2>1, <2>2, <2>4, <2>6, PlacedLooksAlike
    <3>5. QED
      BY <2>3, <3>2, <3>3, <3>4, LooksAlike
  <2>7. QED
    BY <1>1, <2>1, <2>3, <2>4, <2>5, <2>6, EndKeeps
<1>4. QED
  BY <1>2, <1>3

LEMMA FinishUnlinkKeeps ==
    ASSUME IInv, NEW w \in Workers, FinishUnlink(w)
    PROVE  IInv'
<1>1. work[w] # None /\ dialect' = dialect
  BY DEF FinishUnlink
<1>2. CASE ~Claimed(w)
  BY <1>1, <1>2, RefuseKeeps DEF FinishUnlink
<1>3. CASE Claimed(w)
  <2>1. /\ edges' \subseteq edges /\ objects' = objects
        /\ End(w, Ends(work[w].command.edge))
    BY <1>3 DEF FinishUnlink
  <2>2. GraphRules(edges')
    BY <2>1, FewerEdges DEF IInv
  <2>3. dialect = "postgresql" => SoundReferences(objects', edges')
    BY <2>1 DEF IInv, SoundReferences
  <2>4. QED
    BY <1>1, <2>1, <2>2, <2>3, EndKeeps DEF IInv, Typed
<1>4. QED
  BY <1>2, <1>3

LEMMA FinishUpdateKeeps ==
    ASSUME DocumentsAreRecords, IInv, NEW w \in Workers, FinishUpdate(w)
    PROVE  IInv'
<1> DEFINE c == work[w].command
<1>1. work[w] # None /\ c.op = "update" /\ dialect' = dialect
  BY DEF FinishUpdate
<1>2. CASE ~Claimed(w)
  BY <1>1, <1>2, RefuseKeeps DEF FinishUpdate
<1>3. CASE Claimed(w)
  <2>1. objects' = [objects EXCEPT ![c.target] = c.document] /\ End(w, {c.target}) /\ edges' = edges
    BY <1>3 DEF FinishUpdate
  <2>2. c.target \in Ids /\ c.document \in Documents
    BY <1>1 DEF IInv, Typed, Work, CommandOK
  <2>3. objects \in [Ids -> Stored \cup {None}] /\ edges \subseteq Edges
    BY DEF IInv, Typed
  <2>4. objects' \in [Ids -> Stored \cup {None}]
    BY <2>1, <2>2, <2>3, StoredDocuments
  <2>5. dialect = "postgresql" => SoundReferences(objects', edges')
    <3>1. dialect = "postgresql" => UpsertAllowed(c.target, c.document)
      BY <1>1 DEF IInv, Exclusive, Planned
    <3>2. QED
      BY <2>1, <2>2, <2>3, <3>1, ReplacementKeeps DEF IInv
  <2>6. QED
    BY <1>1, <2>1, <2>3, <2>4, <2>5, EndKeeps DEF IInv
<1>4. QED
  BY <1>2, <1>3

LEMMA FinishDeleteKeeps ==
    ASSUME DocumentsAreRecords, IInv, NEW w \in Workers, FinishDelete(w)
    PROVE  IInv'
<1> DEFINE c == work[w].command
<1>1. work[w] # None /\ dialect' = dialect
  BY DEF FinishDelete
<1>2. CASE ~(Claimed(w) /\ ~ReferenceBlockers(Ref(objects, c.target)))
  BY <1>1, <1>2, RefuseKeeps DEF FinishDelete
<1>3. CASE Claimed(w) /\ ~ReferenceBlockers(Ref(objects, c.target))
  <2>1. objects' = [objects EXCEPT ![c.target] = None] /\ End(w, {c.target}) /\ edges' = edges
    BY <1>3 DEF FinishDelete
  <2>2. c.target \in Ids
    BY <1>1 DEF IInv, Typed, Work, CommandOK
  <2>3. objects \in [Ids -> Stored \cup {None}] /\ edges \subseteq Edges
    BY DEF IInv, Typed
  <2>4. objects' \in [Ids -> Stored \cup {None}]
    BY <2>1, <2>2, <2>3
  <2>5. dialect = "postgresql" => SoundReferences(objects', edges')
    BY <1>3, <2>1, <2>2, <2>3, DeletionKeeps DEF IInv
  <2>6. QED
    BY <1>1, <2>1, <2>3, <2>4, <2>5, EndKeeps DEF IInv
<1>4. QED
  BY <1>2, <1>3

LEMMA FinishCreateKeeps ==
    ASSUME DocumentsAreRecords, IInv, NEW w \in Workers, FinishCreate(w)
    PROVE  IInv'
<1> DEFINE c == work[w].command
           t == c.target
           d == c.document
           cat == [View(w) EXCEPT ![t] = d]
           allowed == /\ t \notin Live /\ UpsertAllowed(t, d)
                      /\ c.adds # {} => ValidCollection(cat, edges \cup c.adds)
           ends == {t} \cup UNION {Ends(e) : e \in c.adds}
<1>1. work[w] # None /\ c.op = "create" /\ dialect' = dialect
  BY DEF FinishCreate
<1>2. CASE ~allowed
  BY <1>1, <1>2, RefuseKeeps DEF FinishCreate
<1>3. CASE allowed
  <2> DEFINE new == IF \E e \in c.adds : e.type = "hosts"
                    THEN [d EXCEPT !.unassigned = FALSE] ELSE d
  <2>1. objects' = [objects EXCEPT ![t] = new] /\ End(w, ends) /\ edges' = edges \cup c.adds
    BY <1>3 DEF FinishCreate
  <2>2. t \in Ids /\ d \in Documents /\ d \in Stored /\ c.adds \subseteq Edges
    BY <1>1, StoredDocuments DEF IInv, Typed, Work, CommandOK
  <2>3. objects \in [Ids -> Stored \cup {None}] /\ edges' \subseteq Edges /\ edges \subseteq Edges
    BY <2>1, <2>2 DEF IInv, Typed
  <2>4. new \in Stored /\ new.kind = d.kind /\ new.switch = d.switch /\ new.ref = d.ref
    BY <2>2 DEF Stored
  <2>5. objects' \in [Ids -> Stored \cup {None}]
    BY <2>1, <2>2, <2>3, <2>4
  <2>6. GraphRules(edges')
    BY <1>3, <2>1 DEF IInv, ValidCollection
  <2>7. ASSUME dialect = "postgresql" PROVE SoundReferences(objects', edges')
    <3> DEFINE f == [objects EXCEPT ![t] = d]
    <3>1. cat = f
      BY <1>1, <2>7, ViewIsCatalog
    <3>2. SoundReferences(f, edges)
      BY <1>3, <2>2, <2>3, <2>7, ReplacementKeeps DEF IInv
    <3>3. SoundReferences(f, edges')
      BY <1>3, <2>1, <3>1, <3>2 DEF SoundReferences, ValidCollection
    <3>4. \A o \in Ids : f[o] # None => f[o].ref \in Refs \cup {None}
      BY <2>2, <2>3, StoredDocuments
    <3>5. \A o \in Ids : /\ (f[o] = None) <=> (objects'[o] = None)
                         /\ f[o] # None => /\ f[o].kind = objects'[o].kind
                                           /\ f[o].switch = objects'[o].switch
                                           /\ f[o].ref = objects'[o].ref
      <4>1. f[t] = d /\ objects'[t] = new /\ d # None /\ new # None
        BY <2>1, <2>2, <2>3, <2>4, StoredDocuments
      <4>2. \A o \in Ids \ {t} : f[o] = objects'[o]
        BY <2>1, <2>3
      <4> HIDE DEF new, f
      <4>3. QED
        BY <2>4, <4>1, <4>2
    <3> HIDE DEF f
    <3>6. QED
      BY <2>3, <3>3, <3>4, <3>5, LooksAlike
  <2>8. QED
    BY <1>1, <2>1, <2>3, <2>5, <2>6, <2>7, EndKeeps
<1>4. QED
  BY <1>2, <1>3

-----------------------------------------------------------------------------
LEMMA InitIInv == Init => IInv
<1> SUFFICES ASSUME Init PROVE IInv
  OBVIOUS
<1>1. objects = [o \in Ids |-> None] /\ edges = {} /\ work = [w \in Workers |-> None]
  BY DEF Init
<1>2. Typed /\ Exclusive
  BY <1>1 DEF Typed, Exclusive
<1>3. Acyclic({})
  BY DEF Acyclic
<1>4. GraphRules(edges)
  <2>1. Arcs({}) = {}
    BY DEF Arcs
  <2>2. QED
    BY <1>1, <1>3, <2>1 DEF GraphRules
<1>5. SoundReferences(objects, edges)
  <2>1. Successions(objects) = {}
    BY <1>1 DEF Successions
  <2>2. QED
    BY <1>1, <1>3, <2>1 DEF SoundReferences
<1>6. QED
  BY <1>2, <1>4, <1>5 DEF IInv

LEMMA NextIInv ==
    ASSUME DocumentsAreRecords, IInv, [Next]_vars
    PROVE  IInv'
<1>1. CASE UNCHANGED vars
  BY <1>1 DEF vars, IInv, Typed, Exclusive, Planned, UpsertAllowed, ReferenceBlockers, Live
<1>2. ASSUME NEW w \in Workers,
             \/ StartLink(w) \/ StartUnlink(w) \/ StartUpdate(w) \/ StartDelete(w) \/ StartCreate(w)
      PROVE  IInv'
  BY <1>2, StartLinkKeeps, StartUnlinkKeeps, StartUpdateKeeps, StartDeleteKeeps, StartCreateKeeps
<1>3. ASSUME NEW w \in Workers,
             \/ FinishLink(w) \/ FinishUnlink(w) \/ FinishUpdate(w) \/ FinishDelete(w)
             \/ FinishCreate(w)
      PROVE  IInv'
  BY <1>3, FinishLinkKeeps, FinishUnlinkKeeps, FinishUpdateKeeps, FinishDeleteKeeps,
     FinishCreateKeeps
<1>4. QED
  BY <1>1, <1>2, <1>3 DEF Next

LEMMA SafeIInv == IInv => TypeOK /\ CatalogSound
<1>1. IInv => TypeOK
  BY DEF IInv, Typed, Work, CommandOK, TypeOK
<1>2. IInv => CatalogSound
  BY DEF IInv, CatalogSound, GraphRulesHold, ReferencesHold, SoundReferences, Live
<1>3. QED
  BY <1>1, <1>2

(* The rules of the relationship graph hold on every database, and on             *)
(* PostgreSQL relationships and references lead to what they name                *)
(* (validate_relationship_collection, plan_object_upsert, delete_object).         *)
THEOREM CatalogStaysSound == ASSUME DocumentsAreRecords PROVE Spec => []CatalogSound
<1>1. IInv /\ [Next]_vars => IInv'
  BY NextIInv
<1>2. QED
  BY <1>1, SafeIInv, InitIInv, PTL DEF Spec
=============================================================================
