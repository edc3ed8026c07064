------------------------ MODULE MCRevisionsAndCatalog ------------------------
(***************************************************************************)
(* RevisionClock, this module's own variables, CatalogReferences and             *)
(* ObjectEditing, each checked by itself: a behaviour is one of the part that       *)
(* "part" names, the variables of the other components rest.  "editing" is one     *)
(* client with one object; its old views stand for those of another client.  The   *)
(* catalog is checked for one kind of graph at a time:                          *)
(*   attachments   devices attached to devices, with primary edges              *)
(*   uplinks       networks, which may become or cease to be a switch            *)
(*   placements    hosts and services, which are unassigned until they are placed,   *)
(*                 on PostgreSQL: overlapping links on SQLite are "attachments"     *)
(*   decisions     decisions that name a successor, and may become something else *)
(* The workers are named by the model values of the incarnations, so that one      *)
(* symmetry serves both components.                                            *)
(***************************************************************************)
EXTENDS MCRevisionClock

CONSTANTS
    o1, o2, o3, editor,  \* model values
    CatalogIds, Devices, Networks, Placeables, Decisions,  \* of CatalogReferences: the documents
    Clients, Policies, Targets, Existing, Locators, Naming, Labels, Cells,
    EditDocuments, MaxSaves, MaxRegrants  \* of ObjectEditing

VARIABLES part,
    objects, edges, work,  \* CatalogReferences; the dialect is RevisionClock's
    doc, revision, policy, view, last, saves, regrants  \* ObjectEditing

catalogVars == <<objects, edges, work>>
editVars == <<doc, revision, policy, view, last, saves, regrants>>
allVars == <<part, vars, catalogVars, editVars>>

MCCatalogIds == {o1, o2, o3}
Document(kind) == [kind |-> kind, switch |-> FALSE, unassigned |-> FALSE, ref |-> Absent]
Host == Document("host")
MCDevices == {Document("device")}
MCNetworks == {Document("network"), [Document("network") EXCEPT !.switch = TRUE]}
MCPlaceables == {Host, [Document("service") EXCEPT !.unassigned = TRUE]}
MCDecisions ==
    {Host, Document("decision")} \cup
    {[Document("decision") EXCEPT !.ref = [kind |-> "decision", id |-> o]] : o \in MCCatalogIds}

Attachments == INSTANCE CatalogReferences WITH
    Ids <- CatalogIds, Workers <- Instances, None <- Absent,
    Documents <- Devices, Relations <- {"attached_to"}, Primaries <- BOOLEAN
Uplinks == INSTANCE CatalogReferences WITH
    Ids <- CatalogIds, Workers <- Instances, None <- Absent,
    Documents <- Networks, Relations <- {"uplinks_to"}, Primaries <- {FALSE}
Placements == INSTANCE CatalogReferences WITH
    Ids <- CatalogIds, Workers <- Instances, None <- Absent,
    Documents <- Placeables, Relations <- {"hosts"}, Primaries <- {FALSE}
Successors == INSTANCE CatalogReferences WITH
    Ids <- CatalogIds, Workers <- Instances, None <- Absent,
    Documents <- Decisions, Relations <- {}, Primaries <- {FALSE}

(* Writers with and without a say in protected content, and a client who may only   *)
(* rename and write content; of two targets of references they know some.           *)
May(may, discovers, reads) == [may |-> {"discover", "read"} \cup may, discovers |-> discovers, reads |-> reads]
MCPolicies ==
    {May({"write"}, {}, {}),
     May({"rename", "write content"}, {"t1"}, {"t1"}),
     May({"write", "write content"}, {"t1", "t2"}, {"t1"}),
     May({"write", "rename", "read content"}, {"t1"}, {"t1"}),
     May({"write", "rename", "read content", "write content"}, {"t1", "t2"}, {"t1", "t2"})}

(* An imported service with rows, an asset with a reference, a decision with       *)
(* references and a reference to a credential with content.                       *)
RowOf(shown, rest) == [shown |-> shown, rest |-> rest]
Imported ==
    [kind |-> "system", label |-> "l", provenance |-> "import",
     state |-> [status |-> "active", life |-> "active", health |-> "degraded"],
     network |-> <<>>, access |-> <<>>, monitoring |-> [on |-> FALSE, gatus |-> Absent],
     software |-> Absent, components |-> Absent, release |-> Absent, refs |-> {}, content |-> Absent]
Stateless == [status |-> "active", life |-> Absent, health |-> Absent]
MCEditDocuments ==
    {[Imported EXCEPT !.kind = "service", !.network = <<RowOf("a", "x"), RowOf("b", "y")>>,
                      !.access = <<RowOf("a", "x")>>, !.monitoring.gatus = "a"],
     [Imported EXCEPT !.software = "a", !.refs = {"t2"}],
     [Imported EXCEPT !.kind = "decision", !.state = Stateless, !.refs = {"t1", "t2"}],
     [Imported EXCEPT !.kind = "credential_reference", !.state = Stateless, !.content = "n2"]}

MCClients == {editor}
MCTargets == {"t1", "t2"}
MCLocators == {"n1", "n2"}
MCNaming == "n1" :> {"t1"} @@ "n2" :> {"t2"}
MCLabels == {"l", "m"}
MCCells == {"a", "b"}

Editing == INSTANCE ObjectEditing WITH Documents <- EditDocuments, None <- Absent

ASSUME EditingAssumption == Editing!ConstantsSound

(* What CatalogReferencesProofs assumes of the constants.                       *)
ASSUME DocumentsAssumption ==
    /\ Attachments!DocumentsAreRecords /\ Uplinks!DocumentsAreRecords
    /\ Placements!DocumentsAreRecords /\ Successors!DocumentsAreRecords

(* The variables of the component that is not at work.                          *)
RestRevisions ==
    /\ rows = [i \in Ids |-> Absent] /\ clock = [i \in Ids |-> 0]
    /\ published = {} /\ answer = NoAnswer
RestCatalog == objects = 0 /\ edges = 0 /\ work = 0
RestEditing ==
    /\ doc = 0 /\ revision = 0 /\ policy = 0 /\ view = 0 /\ last = 0 /\ saves = 0 /\ regrants = 0

MCInit ==
    \/ part = "revisions" /\ Init /\ RestCatalog /\ RestEditing
    \/ part = "editing" /\ dialect = "postgresql" /\ Editing!Init /\ RestRevisions /\ RestCatalog
    \/ /\ \/ part = "attachments" /\ Attachments!Init
          \/ part = "uplinks" /\ Uplinks!Init
          \/ part = "placements" /\ dialect = "postgresql" /\ Placements!Init
          \/ part = "decisions" /\ Successors!Init
       /\ RestRevisions /\ RestEditing

(* A bound: one ID reaches the last revision while the other has had two.         *)
FewClaims == \A i, j \in Ids : i # j => clock[i] + clock[j] <= 6

RevisionsRest == UNCHANGED <<rows, clock, published, answer>>

MCNext ==
    /\ UNCHANGED part
    /\ \/ part = "revisions" /\ Next /\ FewClaims' /\ UNCHANGED <<catalogVars, editVars>>
       \/ part = "editing" /\ Editing!Next /\ UNCHANGED <<vars, catalogVars>>
       \/ part = "attachments" /\ Attachments!Next /\ RevisionsRest /\ UNCHANGED editVars
       \/ part = "uplinks" /\ Uplinks!Next /\ RevisionsRest /\ UNCHANGED editVars
       \/ part = "placements" /\ Placements!Next /\ RevisionsRest /\ UNCHANGED editVars
       \/ part = "decisions" /\ Successors!Next /\ RevisionsRest /\ UNCHANGED editVars

MCSpec == MCInit /\ [][MCNext]_allVars

Symmetries == Symmetry \cup Permutations(MCCatalogIds)

-----------------------------------------------------------------------------
(* The properties of CatalogReferences and of ObjectEditing.                      *)
CatalogSound ==
    /\ part = "revisions" => TypeOK
    /\ part = "attachments" => Attachments!TypeOK /\ Attachments!CatalogSound
    /\ part = "uplinks" => Uplinks!TypeOK /\ Uplinks!CatalogSound
    /\ part = "placements" => Placements!TypeOK /\ Placements!CatalogSound
    /\ part = "decisions" => Successors!TypeOK /\ Successors!CatalogSound

EditsTold ==
    part = "editing" =>
        Editing!TypeOK /\ Editing!HiddenContentShowsNothing /\ Editing!PreviewsTellUpdates
EditsKeepTheRest ==
    [][part = "editing" => Editing!SavesKeepTheRest /\ Editing!WritersStayInTheirField]_editVars
=============================================================================
