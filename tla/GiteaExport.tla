------------------------------ MODULE GiteaExport ------------------------------
(***************************************************************************)
(* scripts/migration/export_gitea.py: an offline snapshot of a Gitea repository    *)
(* that people still work on.  Nothing locks Gitea: the exporter reads page by page *)
(* and item by item, reads everything a second time, and publishes the first        *)
(* capture only if the second one tells the same.                                *)
(*                                                                         *)
(* One request is one step.  What Gitea stores carries a stamp (updated_at, or the   *)
(* commit of a ref): every write takes a new one, and numbers and IDs are not used    *)
(* twice.  Labels have no stamp and are left out, as are attachments, which do not    *)
(* change, and every other resource of a pull request than its reviews.             *)
(***************************************************************************)
EXTENDS Integers, Sequences, FiniteSets, FiniteSetsExt

CONSTANTS Existing,   \* what Gitea holds at first
          Tombstone,  \* the number of the one item that was deleted
          PerPage, MaxWrites, None

VARIABLES
    gitea,        \* [issues, pulls, comments]: number or ID -> content
    refs,         \* the resolved refs of the local clone
    writes,       \* the stamps used so far
    at,           \* what the exporter is doing
    pass,         \* 1 captures, 2 confirms
    reading,      \* the listing it pages through: [total, got, count, next], or None
    index,        \* listing -> what it has read of it in this pass
    items,        \* <<number, resource>> -> content in this pass
    todo,         \* the listings of this pass that are left
    first,        \* the capture of the first pass and the refs it started from
    staging,      \* what its staging directory holds
    destination,  \* who has published under the final name, and what
    between, other  \* for the properties: Gitea between the passes; a rival has published

exporter == <<at, pass, reading, index, items, todo, first, staging>>
vars == <<gitea, refs, writes, exporter, destination, between, other>>

Listings == {"issues", "pulls", "comments"}
Empty == [k \in {} |-> None]
Stored(f) == {k \in DOMAIN f : f[k] # None}

(* Gitea lists items newest first, comments oldest first, and no reviews.             *)
Row(content) == [stamp |-> content.stamp, parent |-> content.parent]
Position(l, k) ==
    Cardinality({j \in Stored(gitea[l]) : IF l = "comments" THEN j <= k ELSE j >= k})
Listed(l, positions) ==
    {<<k, Row(gitea[l][k])>> : k \in {j \in Stored(gitea[l]) : Position(l, j) \in positions}}

(* What the proofs about this module assume: issues and pull requests share their     *)
(* numbers, and nothing has a stamp before the first write.                          *)
Contents == [stamp: Nat, parent: Nat \cup {None}, review: Nat]
ConstantsSound ==
    /\ None \notin Contents /\ MaxWrites \in Nat
    /\ DOMAIN Existing = Listings /\ DOMAIN Existing.issues \cap DOMAIN Existing.pulls = {}
    /\ \A l \in Listings :
          /\ IsFiniteSet(DOMAIN Existing[l]) /\ DOMAIN Existing[l] \subseteq Nat
          /\ \A k \in DOMAIN Existing[l] : /\ Existing[l][k] \in Contents
                                         /\ Existing[l][k].stamp = 0 /\ Existing[l][k].review = 0

-----------------------------------------------------------------------------
(* People at work: they write, delete, and push.                                  *)
Content(parent) == [stamp |-> writes + 1, parent |-> parent, review |-> 0]
Numbers == Stored(gitea.issues) \cup Stored(gitea.pulls)
Put(l, k, content) == gitea' = [gitea EXCEPT ![l] = [j \in DOMAIN @ \cup {k} |-> IF j = k THEN content ELSE @[j]]]

Write ==
    /\ writes < MaxWrites /\ writes' = writes + 1
    /\ \/ UNCHANGED refs /\
          \/ Put("issues", Max(DOMAIN gitea.issues \cup DOMAIN gitea.pulls \cup {0}) + 1, Content(None))
          \/ \E n \in Numbers :
                Put("comments", Max(DOMAIN gitea.comments \cup {0}) + 1, Content(n))
          \/ \E l \in Listings : \E k \in Stored(gitea[l]) :
                \/ Put(l, k, None)
                \/ Put(l, k, [gitea[l][k] EXCEPT !.stamp = writes + 1])
          \/ \E n \in Stored(gitea.pulls) :
                Put("pulls", n, [gitea.pulls[n] EXCEPT !.review = writes + 1])
       \/ refs' = writes + 1 /\ UNCHANGED gitea
    /\ UNCHANGED <<exporter, destination, between, other>>

-----------------------------------------------------------------------------
Init ==
    /\ gitea = Existing /\ refs = 0 /\ writes = 0
    /\ at = "idle" /\ pass = 1 /\ reading = None /\ index = Empty /\ items = Empty /\ todo = <<>>
    /\ first = None /\ staging = "none" /\ destination = [by |-> "nobody", capture |-> None]
    /\ between = None /\ other = FALSE

IndexRequests == <<"issues", "pulls", "comments">>

(* export_snapshot up to the staging directory.                                  *)
Start ==
    /\ at = "idle" /\ destination.by = "nobody"
    /\ at' = "indexes" /\ todo' = IndexRequests /\ staging' = "partial"
    /\ first' = [refs |-> refs] /\ between' = [started |-> writes]
    /\ UNCHANGED <<gitea, refs, writes, pass, reading, index, items, destination, other>>

(* The process ends and leaves dir: nothing if its finally runs.                    *)
Ends(dir) ==
    /\ at' = "failed" /\ staging' = dir
    /\ pass' = 1 /\ reading' = None /\ index' = Empty /\ items' = Empty /\ todo' = <<>> /\ first' = None
    /\ UNCHANGED <<gitea, refs, writes, destination, between, other>>
Failed == Ends("none")

(* A lost request, an open pull request, a reconciliation that does not fit, an       *)
(* unclassified field; or the process dies and leaves its staging directory.         *)
Fail ==
    /\ at \notin {"idle", "failed", "published"}
    /\ Failed \/ Ends(staging)

(* paginate and the checks of _capture_indexes on one listing.                     *)
ReadPage ==
    LET l == Head(todo)
        all == Cardinality(Stored(gitea[l]))
        so == IF reading = None THEN [total |-> all, got |-> {}, count |-> 0, next |-> 1] ELSE reading
        page == Listed(l, so.next..(so.next + PerPage - 1))
        got == so.got \cup page
        count == so.count + Cardinality(page)
        keys == {row[1] : row \in got}
    IN  /\ at = "indexes" /\ todo # <<>>
        /\ IF \/ all # so.total \/ count > so.total
              \/ count < so.total /\ page = {}
              \/ count = so.total /\ Cardinality(keys) < count
           THEN Failed
           ELSE /\ IF count = so.total
                   THEN /\ reading' = None /\ todo' = Tail(todo)
                        /\ index' = [m \in DOMAIN index \cup {l} |->
                                        IF m = l THEN [k \in keys |-> (CHOOSE row \in got : row[1] = k)[2]]
                                        ELSE index[m]]
                   ELSE /\ reading' = [total |-> so.total, got |-> got, count |-> count, next |-> so.next + PerPage]
                        /\ UNCHANGED <<todo, index>>
                /\ UNCHANGED <<gitea, refs, writes, at, pass, items, first, staging, destination, between, other>>

(* The requests of _capture_items, which go by number.                             *)
ItemRequests ==
    LET numbers == DOMAIN index["issues"] \cup DOMAIN index["pulls"]
    IN  {r \in numbers \X {"detail", "comments", "reviews"} :
            r[2] = "reviews" => r[1] \in DOMAIN index["pulls"]}

Before(q, r) ==
    q[1] < r[1] \/ (q[1] = r[1] /\ (q[2] = "detail" \/ (q[2] = "comments" /\ r[2] = "reviews")))

(* The two indexes are compared before the items are read again.                   *)
EndIndexes ==
    /\ at = "indexes" /\ todo = <<>>
    /\ IF DOMAIN index["issues"] \cap DOMAIN index["pulls"] # {} \/ (pass = 2 /\ index # first.index)
       THEN Failed
       ELSE /\ at' = "items"
            /\ UNCHANGED <<gitea, refs, writes, pass, reading, index, items, todo, first, staging,
                           destination, between, other>>

Resource(n, resource) ==
    LET l == IF n \in Stored(gitea.pulls) THEN "pulls" ELSE "issues"
    IN  CASE resource = "detail"   -> gitea[l][n].stamp
          [] resource = "comments" -> [c \in {c \in Stored(gitea.comments) : gitea.comments[c].parent = n} |->
                                          Row(gitea.comments[c])]
          [] resource = "reviews"  -> gitea[l][n].review

ReadItem ==
    /\ at = "items"
    /\ \E r \in ItemRequests \ DOMAIN items :
          /\ \A q \in ItemRequests \ DOMAIN items : q = r \/ Before(r, q)
          /\ IF r[1] \notin Numbers
             THEN Failed
             ELSE /\ items' = [q \in DOMAIN items \cup {r} |-> IF q = r THEN Resource(r[1], r[2]) ELSE items[q]]
                  /\ UNCHANGED <<gitea, refs, writes, at, pass, reading, index, todo, first, staging,
                                 destination, between, other>>

(* _reconcile_comment_parents.                                                *)
Reconciled(ind, its) ==
    LET perItem == {r \in DOMAIN its : r[2] = "comments"}
    IN  /\ DOMAIN ind["comments"] = UNION {DOMAIN its[r] : r \in perItem}
        /\ \A r \in perItem : \A c \in DOMAIN its[r] :
              ind["comments"][c] = its[r][c] /\ its[r][c].parent = r[1]

(* The number plan: contiguous with its tombstone.                               *)
Planned(its) ==
    LET numbers == {r[1] : r \in DOMAIN its}
    IN  numbers # {} /\ Tombstone \notin numbers
        /\ numbers \cup {Tombstone} = 1..Max(numbers \cup {Tombstone})

(* Seeded fault: reviews are not compared.                                       *)
SameButReviews(a, b) == \A r \in DOMAIN a : r[2] = "reviews" \/ a[r] = b[r]

(* The digests of _project_captured_items.                                       *)
SameItems(a, b) == a = b

EndItems ==
    /\ at = "items" /\ DOMAIN items = ItemRequests
    /\ IF ~Reconciled(index, items) \/ ~Planned(items) THEN Failed
       ELSE IF pass = 1
       THEN /\ first' = [refs |-> first.refs, index |-> index, items |-> items]
            /\ pass' = 2 /\ at' = "indexes" /\ todo' = IndexRequests /\ index' = Empty /\ items' = Empty
            /\ between' = [started |-> between.started, gitea |-> gitea, refs |-> refs, writes |-> writes]
            /\ UNCHANGED <<gitea, refs, writes, reading, staging, destination, other>>
       ELSE IF ~SameItems(first.items, items) THEN Failed
       ELSE /\ at' = "refs" /\ index' = Empty /\ items' = Empty
            /\ UNCHANGED <<gitea, refs, writes, pass, reading, todo, first, staging,
                           destination, between, other>>

(* The refs are resolved again before and after _create_bundle, which takes the      *)
(* commits by their hashes; then the manifest seals the directory.                  *)
Seal ==
    /\ at \in {"refs", "bundle"}
    /\ IF refs # first.refs THEN Failed
       ELSE /\ at' = IF at = "refs" THEN "bundle" ELSE "sealed"
            /\ staging' = IF at = "refs" THEN staging ELSE "sealed"
            /\ UNCHANGED <<gitea, refs, writes, pass, reading, index, items, todo, first,
                           destination, between, other>>

(* _validate_snapshot, and _rename_noreplace.                                    *)
Valid == staging = "sealed" /\ Reconciled(first.index, first.items) /\ Planned(first.items)

NotReplaced == destination.by = "nobody"

Publish ==
    /\ at = "sealed"
    /\ IF ~Valid \/ ~NotReplaced THEN Failed
       ELSE /\ at' = "published" /\ staging' = "none" /\ destination' = [by |-> "exporter", capture |-> first]
            /\ UNCHANGED <<gitea, refs, writes, pass, reading, index, items, todo, first, between, other>>

(* Another exporter that has started in the same second publishes first.            *)
Rival ==
    /\ ~other /\ destination.by = "nobody"
    /\ other' = TRUE /\ destination' = [by |-> "rival", capture |-> None]
    /\ UNCHANGED <<gitea, refs, writes, exporter, between>>

Next ==
    \/ Write \/ Start \/ Fail \/ ReadPage \/ EndIndexes \/ ReadItem \/ EndItems \/ Seal \/ Publish \/ Rival

Spec == Init /\ [][Next]_vars

-----------------------------------------------------------------------------
TypeOK ==
    /\ DOMAIN gitea = Listings /\ writes \in 0..MaxWrites /\ refs \in 0..MaxWrites
    /\ at \in {"idle", "indexes", "items", "refs", "bundle", "sealed", "published", "failed"}
    /\ pass \in {1, 2} /\ staging \in {"none", "partial", "sealed"}
    /\ DOMAIN index \subseteq Listings

(* What is published is what Gitea and the clone held at one instant, between the     *)
(* two passes, however people wrote to it while the pages and the items were read;     *)
(* only what was both made and deleted during the export may be missing (the         *)
(* confirmation of export_snapshot).                                             *)
ExportsAreOneInstant ==
    destination.by = "exporter" =>
        LET was == between.gitea
            export == destination.capture
        IN  /\ export.refs = between.refs
            /\ \A l \in Listings :
                  /\ \A k \in DOMAIN export.index[l] :
                        k \in Stored(was[l]) /\ export.index[l][k] = Row(was[l][k])
                  /\ \A k \in Stored(was[l]) \ DOMAIN export.index[l] :
                        was[l][k].stamp > between.started /\ gitea[l][k] = None
            /\ {r[1] : r \in DOMAIN export.items} = DOMAIN export.index["issues"] \cup DOMAIN export.index["pulls"]
            /\ \A n \in DOMAIN export.index["pulls"] : export.items[<<n, "reviews">>] = was.pulls[n].review

(* An export under its final name is complete, and stays: neither a process that        *)
(* died nor a later or overlapping export touches it.                             *)
ExportsStay ==
    /\ other => destination.by = "rival"
    /\ destination.by = "exporter" => destination.capture = first /\ at = "published"
=============================================================================
