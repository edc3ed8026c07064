----------------------------- MODULE ObjectEditing -----------------------------
(***************************************************************************)
(* Clients that edit one catalog object: full replacements over REST and MCP     *)
(* with their previews, renames, and the forms of the browser that each save one   *)
(* section.  services/commands.py plans an update once, for the write and for    *)
(* the preview; ui/routes.py builds a whole document from a section; what is     *)
(* protected or concealed is left out of what a client is shown.               *)
(*                                                                         *)
(* A document has rows (addresses, ports, endpoints, access methods) with a part   *)
(* that forms show and a rest that they do not; typed references, each at a place  *)
(* of its own; and, in a credential reference, content that has permissions of    *)
(* its own.  A command is one step: its compare-and-swap makes the stored row be   *)
(* the one that it planned with (RevisionClock).                               *)
(***************************************************************************)
EXTENDS Integers, Sequences, SequencesExt

CONSTANTS
    Clients,
    Policies,     \* what a client may be allowed: sets of permissions and of targets
    Targets,      \* what typed references may name
    Existing,     \* the targets that exist with the kind that is asserted
    Locators,     \* protected content; Naming[l] is the set of targets that l names
    Naming,
    Labels, Cells,   \* values of a label and of the shown part of a row
    Documents,    \* the documents to start with
    None,
    MaxSaves, MaxRegrants

VARIABLES
    doc, revision,
    policy,       \* Clients -> Policies
    view,         \* what a client was shown: the ETag, the document, and the whole of it
    last,         \* the last command: who, how, and what it was told
    saves, regrants

vars == <<doc, revision, policy, view, last, saves, regrants>>

AssetKinds == {"system", "service"}
Reference == "credential_reference"
Knowledge == {"decision"}

Can(p, permission) == permission \in p.may

-----------------------------------------------------------------------------
(* What a client is shown.                                                   *)
Shown(d, p) ==
    [d EXCEPT !.content = IF Can(p, "read content") THEN @ ELSE None,
              !.refs = IF d.kind \in Knowledge THEN @ \cap p.discovers ELSE @]

(* The state of an asset: status is the old name of a life and a health.           *)
StateFromStatus(status) ==
    [status |-> IF status = "active" THEN "active" ELSE "inactive",
     life |-> IF status = "active" THEN "active" ELSE "planned", health |-> "unknown"]
StatusOf(life, health) ==
    IF life = "planned" \/ health = "down" THEN "inactive" ELSE "active"

(* Of a payload without life and health only a status that differs changes them.    *)
ResolvedState(current, payload) ==
    IF payload.doc.kind \notin AssetKinds
    THEN [status |-> payload.doc.state.status, life |-> None, health |-> None]
    ELSE IF payload.stateGiven
         THEN [payload.doc.state EXCEPT !.status = StatusOf(payload.doc.state.life, payload.doc.state.health)]
         ELSE IF current.life # None /\ payload.doc.state.status = current.status
              THEN current
              ELSE StateFromStatus(payload.doc.state.status)

-----------------------------------------------------------------------------
(* The plan of a full update: for the write and for its preview.                 *)

ReferenceInvolved(d, payload) == Reference \in {d.kind, payload.doc.kind}
Explicit(d, payload) == payload.contentGiven /\ ReferenceInvolved(d, payload)

(* Content that is left out is kept; None is no content.                        *)
ContentAfter(d, payload) ==
    IF payload.doc.kind # Reference THEN None
    ELSE IF payload.contentGiven THEN payload.doc.content ELSE d.content

(* A client that may not write content may repeat what it can read, no more.       *)
MayPropose(d, p, payload) ==
    \/ ~payload.contentGiven \/ Can(p, "write content")
    \/ Can(p, "read content") /\ payload.doc.content = d.content

NamedBy(content) == IF content = None THEN {} ELSE Naming[content]

(* Every reference of a knowledge document, and every other that is not where it   *)
(* already was, has to name what the client can read.  Content that the client      *)
(* cannot read is never compared with what is stored.                           *)
ReferencesToRead(d, p, payload) ==
    LET fields == payload.doc.refs \ (IF payload.doc.kind \in Knowledge THEN {} ELSE d.refs)
        hidden == Explicit(d, payload) /\ ~Can(p, "read content")
    IN  fields \cup (NamedBy(ContentAfter(d, payload)) \ (IF hidden THEN {} ELSE NamedBy(d.content)))

Target(d, payload) ==
    [payload.doc EXCEPT !.state = ResolvedState(d.state, payload),
                        !.content = ContentAfter(d, payload)]

Blind(d, p, payload) ==
    /\ ReferenceInvolved(d, payload)
    /\ payload.contentGiven \/ d.kind # payload.doc.kind
    /\ ~Can(p, "read content") /\ Can(p, "write content")

WithoutContent(d) == [d EXCEPT !.content = None]
ContentOnly(p) == ~Can(p, "write") /\ Can(p, "write content")

(* The first check that fails decides the answer.                               *)
Refusal(d, at, p, payload, etag) ==
    IF ~Can(p, "discover") THEN "not found"
    ELSE IF ~Can(p, "write") /\ ~(ContentOnly(p) /\ d.kind = Reference) THEN "denied"
    ELSE IF etag = None THEN "precondition required"
    ELSE IF etag # at THEN "stale"
    ELSE IF ReferenceInvolved(d, payload) /\ d.kind # payload.doc.kind /\ ~Can(p, "write content") THEN "denied"
    ELSE IF ReferenceInvolved(d, payload) /\ payload.doc.kind # Reference /\ payload.contentGiven THEN "conflict"
    ELSE IF payload.doc.kind = Reference /\ ~MayPropose(d, p, payload) THEN "denied"
    ELSE IF ~(ReferencesToRead(d, p, payload) \subseteq (Existing \cap p.reads)) THEN "no such target"
    ELSE IF ~((payload.doc.refs \cup NamedBy(ContentAfter(d, payload))) \subseteq Existing) THEN "bad reference"
    ELSE IF ContentOnly(p) /\ WithoutContent(Target(d, payload)) # WithoutContent(d) THEN "denied"
    ELSE "ok"

(* Seeded fault: a blind replacement by what is stored is answered as a no-op.     *)
ChangesContent(d, p, payload) == Target(d, payload) # d

(* A blind replacement always writes.                                          *)
Changes(d, p, payload) == Target(d, payload) # d \/ Blind(d, p, payload)

Told(outcome, changed, at) == [outcome |-> outcome, changed |-> changed, revision |-> at]

Answer(d, at, p, payload, etag) ==
    LET refusal == Refusal(d, at, p, payload, etag)
        changed == refusal = "ok" /\ Changes(d, p, payload)
    IN  Told(refusal, changed, IF changed THEN at + 1 ELSE at)

(* The preview names the fields that differ; content that the client cannot read   *)
(* is one opaque entry, there whenever the update replaces content blindly.        *)
Diff(d, p, payload) ==
    LET target == Target(d, payload)
        fields == {f \in DOMAIN d : target[f] # d[f]}
        hides == ReferenceInvolved(d, payload) /\ ~Can(p, "read content")
    IN  IF ~hides THEN fields
        ELSE (fields \ {"content"})
             \cup (IF payload.contentGiven \/ d.kind # payload.doc.kind THEN {"content"} ELSE {})

PreviewAnswer(d, at, p, payload, etag) ==
    [told |-> Answer(d, at, p, payload, etag),
     diff |-> IF Refusal(d, at, p, payload, etag) = "ok" THEN Diff(d, p, payload) ELSE {}]

-----------------------------------------------------------------------------
(* What clients propose.                                                    *)

Payload(d, stateGiven, contentGiven) ==
    [doc |-> d, stateGiven |-> stateGiven, contentGiven |-> contentGiven]

(* A full replacement is what the client was shown with an edit, and with content   *)
(* or without.                                                              *)
Edits(d) ==
    {d} \cup {[d EXCEPT !.label = l] : l \in Labels}
        \cup {[d EXCEPT !.refs = r] : r \in SUBSET Targets}
        \cup {[d EXCEPT !.state.status = "inactive"]}
        \cup {[d EXCEPT !.provenance = "manual"]}
        \cup (IF d.kind = "decision" THEN {} ELSE {[d EXCEPT !.kind = k, !.content = None] : k \in {"system", Reference}})
Proposals(d) ==
    LET edits == Edits(d) IN
    {Payload(e, FALSE, FALSE) : e \in edits}
        \cup (IF d.kind \in Knowledge THEN {}
              ELSE {Payload([e EXCEPT !.content = c], FALSE, TRUE) : e \in edits, c \in Locators})

(* A form that says nothing of life and health; one that repeats them.  All forms    *)
(* but that for content make the document the editor's own.                       *)
Own(d) == [d EXCEPT !.provenance = "manual"]

(* Seeded fault: a row that was typed over is a new row.                         *)
RowsRetyped(old, submitted) ==
    LET row(i) == IF i <= Len(old) /\ old[i].shown = submitted[i] THEN old[i]
                  ELSE [shown |-> submitted[i], rest |-> None]
    IN  SelectSeq([i \in 1..Len(submitted) |-> row(i)], LAMBDA r : r.shown # None)

(* The rows of a form, in the order in which it showed them; blank ones go.  A row     *)
(* keeps what the form did not show.                                          *)
Rows(old, submitted) ==
    LET row(i) == [shown |-> submitted[i], rest |-> IF i <= Len(old) THEN old[i].rest ELSE None]
        all == [i \in 1..Len(submitted) |-> row(i)]
    IN  SelectSeq(all, LAMBDA r : r.shown # None)
(* Access methods have an index; a blank row of the form leaves its method alone.      *)
Methods(old, submitted) ==
    [i \in 1..Len(submitted) |->
        IF submitted[i] = None /\ i <= Len(old) THEN old[i]
        ELSE [shown |-> submitted[i], rest |-> IF i <= Len(old) THEN old[i].rest ELSE None]]

Submissions(old) == [1..Len(old) -> Cells \cup {None}] \cup [1..(Len(old) + 1) -> Cells]

NetworkForm(d, submitted) == Payload([Own(d) EXCEPT !.network = Rows(@, submitted)], FALSE, FALSE)
AccessForm(d, submitted) == Payload([Own(d) EXCEPT !.access = Methods(@, submitted)], FALSE, FALSE)
SoftwareForm(d, value) == Payload([Own(d) EXCEPT !.software = value], TRUE, FALSE)
ComponentsForm(d, value) == Payload([Own(d) EXCEPT !.components = value], TRUE, FALSE)
ReleaseForm(d, value) == Payload([Own(d) EXCEPT !.release = value], TRUE, FALSE)

(* A monitoring form without the fields of Gatus keeps what is stored there.         *)
GatusAfter(stored, submitted, value) == IF submitted THEN value ELSE stored
MonitoringForm(d, on, submitted, value) ==
    Payload([Own(d) EXCEPT !.monitoring.on = on,
                           !.monitoring.gatus = GatusAfter(@, submitted, value)], TRUE, FALSE)

(* The main form: label and status, and of a decision its references, to which those  *)
(* that the editor cannot discover are added again.                              *)
Concealed(d, p) == d.refs \ p.discovers
OverviewForm(d, p, label, status, refs) ==
    Payload([Own(d) EXCEPT !.label = label, !.state.status = status,
                           !.refs = IF d.kind \in Knowledge THEN refs \cup Concealed(d, p) ELSE @],
            FALSE, FALSE)

ContentForm(d, content) == Payload([d EXCEPT !.content = content], FALSE, TRUE)

-----------------------------------------------------------------------------
(* What is stored has passed validation: a document has its fields, content is a    *)
(* credential reference's and names objects that exist, and the state of an asset    *)
(* agrees with its old status.                                               *)
Fields == {"kind", "label", "state", "provenance", "network", "access", "monitoring",
           "software", "components", "release", "refs", "content"}
Shaped(d) ==
    /\ d = [f \in Fields |-> d[f]]
    /\ d.state = [f \in {"status", "life", "health"} |-> d.state[f]]
    /\ d.monitoring = [f \in {"on", "gatus"} |-> d.monitoring[f]]
    /\ d.refs \subseteq Targets /\ d.content \in Locators \cup {None}
Sound(d) ==
    /\ Shaped(d)
    /\ d.content # None => d.kind = Reference
    /\ NamedBy(d.content) \subseteq Existing
    /\ d.state.life # None => d.state.status = StatusOf(d.state.life, d.state.health)

(* What the proofs about this module assume of its constants.                   *)
ConstantsSound == (\A d \in Documents : Sound(d)) /\ MaxSaves \in Nat /\ MaxRegrants \in Nat

-----------------------------------------------------------------------------
Init ==
    /\ doc \in Documents /\ revision = 1
    /\ policy \in [Clients -> Policies]
    /\ view = [c \in Clients |-> None]
    /\ last = None
    /\ saves = 0 /\ regrants = 0

(* A client reads the object, or opens a form.  stored is a history variable.         *)
Open(c) ==
    /\ Can(policy[c], "read")
    /\ view' = [view EXCEPT ![c] = [etag |-> revision, shown |-> Shown(doc, policy[c]), stored |-> doc,
                                    discovered |-> policy[c].discovers]]
    /\ UNCHANGED <<doc, revision, policy, last, saves, regrants>>

Apply(c, via, payload, etag) ==
    LET answer == Answer(doc, revision, policy[c], payload, etag) IN
    /\ saves' = saves + 1
    /\ revision' = answer.revision
    /\ doc' = IF answer.outcome = "ok" THEN Target(doc, payload) ELSE doc
    /\ last' = [by |-> c, via |-> via, changed |-> answer.changed]
    /\ UNCHANGED <<policy, view, regrants>>

Update(c) ==
    /\ view[c] # None
    /\ \E payload \in Proposals(view[c].shown) : Apply(c, "update", payload, view[c].etag)

(* A form is sent with the ETag that it was opened with, or without one.              *)
FormEtags(c) == {view[c].etag, None}

SaveForm(c, via, kinds, permission, payload, etag) ==
    /\ Can(policy[c], "discover") /\ Can(policy[c], permission)
    /\ doc.kind \in kinds
    /\ Apply(c, via, payload, etag)

SaveNetwork(c) ==
    /\ view[c] # None
    /\ \E submitted \in Submissions(view[c].shown.network), etag \in FormEtags(c) :
           SaveForm(c, "network", AssetKinds, "write", NetworkForm(doc, submitted), etag)
SaveAccess(c) ==
    /\ view[c] # None
    /\ \E submitted \in Submissions(view[c].shown.access), etag \in FormEtags(c) :
           SaveForm(c, "access", AssetKinds, "write", AccessForm(doc, submitted), etag)
SaveSoftware(c) ==
    /\ view[c] # None
    /\ \E value \in Cells : SaveForm(c, "software", {"system"}, "write", SoftwareForm(doc, value), view[c].etag)
SaveComponents(c) ==
    /\ view[c] # None
    /\ \E value \in Cells : SaveForm(c, "components", {"service"}, "write", ComponentsForm(doc, value), view[c].etag)
SaveRelease(c) ==
    /\ view[c] # None
    /\ \E value \in Cells : SaveForm(c, "release", {"service"}, "write", ReleaseForm(doc, value), view[c].etag)
SaveMonitoring(c) ==
    /\ view[c] # None
    /\ \E on, submitted \in BOOLEAN, value \in Cells \cup {None} :
           SaveForm(c, IF submitted THEN "gatus" ELSE "monitoring", {"service"}, "write",
                    MonitoringForm(doc, on, submitted, value), view[c].etag)
SaveOverview(c) ==
    /\ view[c] # None
    /\ \E label \in Labels, status \in {"active", "inactive"}, refs \in SUBSET view[c].shown.refs :
           SaveForm(c, "overview", {doc.kind}, "write",
                    OverviewForm(doc, policy[c], label, status, refs), view[c].etag)
SaveContent(c) ==
    /\ view[c] # None
    /\ \E content \in Locators, etag \in FormEtags(c) :
           SaveForm(c, "content", {Reference}, "write content", ContentForm(doc, content), etag)

RenameRefusal(at, p, etag) ==
    IF ~Can(p, "discover") THEN "not found"
    ELSE IF ~Can(p, "rename") THEN "denied"
    ELSE IF etag # at THEN "stale"
    ELSE "ok"
Rename(c) ==
    /\ view[c] # None
    /\ saves' = saves + 1
    /\ \E label \in Labels :
           LET refusal == RenameRefusal(revision, policy[c], view[c].etag)
               changed == refusal = "ok" /\ label # doc.label
           IN  /\ doc' = IF changed THEN [doc EXCEPT !.label = label] ELSE doc
               /\ revision' = IF changed THEN revision + 1 ELSE revision
               /\ last' = [by |-> c, via |-> "rename", changed |-> changed]
    /\ UNCHANGED <<policy, view, regrants>>

(* Somebody changes what a client may do.                                      *)
Regrant(c) ==
    /\ regrants < MaxRegrants /\ regrants' = regrants + 1
    /\ \E p \in Policies : policy' = [policy EXCEPT ![c] = p]
    /\ UNCHANGED <<doc, revision, view, last, saves>>

Save(c) ==
    \/ Update(c) \/ Rename(c)
    \/ SaveNetwork(c) \/ SaveAccess(c) \/ SaveSoftware(c) \/ SaveComponents(c) \/ SaveRelease(c)
    \/ SaveMonitoring(c) \/ SaveOverview(c) \/ SaveContent(c)

Next == saves < MaxSaves /\ \E c \in Clients : Open(c) \/ Save(c) \/ Regrant(c)

Spec == Init /\ [][Next]_vars

-----------------------------------------------------------------------------
(* The stored document stays one that validation admits.                       *)
TypeOK ==
    /\ Sound(doc)
    /\ revision \in 1..(1 + MaxSaves) /\ policy \in [Clients -> Policies]
    /\ saves \in 0..MaxSaves /\ regrants \in 0..MaxRegrants
    /\ \A c \in Clients : view[c] # None => view[c].etag \in 1..revision /\ Shaped(view[c].shown)

(* To who may not read it, protected content shows nothing: neither the answer of an  *)
(* update nor its preview depends on it (domain/update_preview.py:9-12,              *)
(* services/commands.py:378-381).                                            *)
HiddenContentShowsNothing ==
    doc.kind = Reference =>
        \A c \in Clients : ~Can(policy[c], "read content") =>
            \A payload \in Proposals(Shown(doc, policy[c])) :
                \A content \in Locators \cup {None} : NamedBy(content) \subseteq Existing =>
                    PreviewAnswer([doc EXCEPT !.content = content], revision, policy[c], payload, revision)
                        = PreviewAnswer(doc, revision, policy[c], payload, revision)

(* A preview tells what the update does for as long as its ETag is current: the       *)
(* document is still the one that it was made from, and its difference is empty for a    *)
(* no-op and only then.                                                      *)
PreviewsTellUpdates ==
    \A c \in Clients : view[c] # None /\ view[c].etag = revision =>
        /\ view[c].stored = doc
        /\ \A payload \in Proposals(view[c].shown) :
               LET preview == PreviewAnswer(doc, revision, policy[c], payload, view[c].etag)
               IN  preview.told.changed <=> preview.diff # {}

(* The fields that each form saves.                                            *)
SavedBy(via) ==
    CASE via = "overview" -> {"label", "state", "refs", "provenance"}
      [] via = "content" -> {"content"}
      [] via = "gatus" -> {"monitoring", "provenance"}
      [] via = "rename" -> {"label"}
      [] OTHER -> {via, "provenance"}
RestsOf(rows) == SelectSeq([i \in 1..Len(rows) |-> rows[i].rest], LAMBDA r : r # None)

Restless(rows) == Len(rows) - Len(RestsOf(rows))
MoreRows(rows, old) == IF Len(rows) > Len(old) THEN Len(rows) - Len(old) ELSE 0

(* Who saves changes what it was shown, and a form what it shows: everything else is    *)
(* as it was when the form was opened, hidden parts of rows stay with their rows, and    *)
(* references that the editor never saw stay, unless it was allowed to see them between. *)
SavesKeepTheRest ==
    saves' # saves /\ last'.changed =>
        LET seen == view[last'.by]  before == seen.stored IN
        /\ doc = before
        /\ last'.via # "update" =>
               /\ \A f \in DOMAIN doc \ SavedBy(last'.via) : doc'[f] = before[f]
               /\ doc'.state.status = before.state.status => doc'.state = before.state
               /\ before.refs \ (seen.discovered \cup policy[last'.by].discovers) \subseteq doc'.refs
               /\ last'.via = "monitoring" => doc'.monitoring.gatus = before.monitoring.gatus
               /\ RestsOf(doc'.network) \in SubSeqs(RestsOf(before.network))
               /\ Restless(doc'.network) <= Restless(before.network) + MoreRows(doc'.network, before.network)
               /\ RestsOf(doc'.access) = RestsOf(before.access)

(* Content changes for who may write content, the label for who may rename, and the     *)
(* rest for who may write; and every change, and nothing else, takes a revision.        *)
WritersStayInTheirField ==
    saves' # saves =>
        LET p == policy[last'.by] IN
        /\ doc'.content # doc.content => Can(p, "write content")
        /\ [doc EXCEPT !.content = doc'.content, !.label = doc'.label] # doc' => Can(p, "write")
        /\ doc'.label # doc.label => Can(p, "write") \/ Can(p, "rename")
        /\ doc' # doc => last'.changed
        /\ revision' = IF last'.changed THEN revision + 1 ELSE revision
=============================================================================
