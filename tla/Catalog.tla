------------------------------- MODULE Catalog -------------------------------
(***************************************************************************)
(* What the panel adds to the catalog while a work session is open, and    *)
(* how a rollback takes it away again: the tables categories, tags, items  *)
(* and item_tags of backend/sql/schema.sql under create_item, ensure_tag,  *)
(* ensure_category_path and rollback_session of                            *)
(* backend/src/grammar/engine.c.                                           *)
(*                                                                         *)
(* A call holds e->lock throughout and is one step, but outside a rollback *)
(* each of its statements commits on its own, so a crash can leave a call  *)
(* in part.  The engine's copy of the work session follows the table       *)
(* (SessionMirrorsTable of GrammarEngine), so only the table is kept, and  *)
(* a restart between two calls changes nothing here.  Rows of operations   *)
(* and bins that refer to an item are in GrammarEngine.                    *)
(*                                                                         *)
(* A definition introduced as "Mistake:" is not part of the model.         *)
(***************************************************************************)
EXTENDS Integers, Sequences

CONSTANTS
    Names,            \* what a category may be called
    TagNames,
    Barcodes, NoBarcode,
    DepthGuard,       \* 64 in the code: rounds of deletes, steps up to a scope
    MaxPath,          \* bound: segments of a category path
    MaxCategory, MaxItem, MaxSession  \* bounds: ids given out

Ids      == 1 .. MaxCategory
Sessions == 1 .. MaxSession
None     == 0         \* an id column that is NULL, or the parent of the top level
Paths    == UNION {[1 .. n -> Names] : n \in 1 .. MaxPath}

ASSUME CatalogAssumption ==
    /\ NoBarcode \notin Barcodes
    /\ DepthGuard \in Nat \ {0} /\ MaxPath \in Nat
    /\ MaxCategory \in Nat /\ MaxItem \in Nat /\ MaxSession \in Nat

VARIABLES
    work_sessions,    \* status of each work session
    categories,       \* id   -> [parent, name, ws], ws: created_in_work_session_id
    tags,             \* name -> [scope, ws]
    items,            \* id   -> [category, barcode, ws]
    item_tags,        \* set of [item, tag]
    answer            \* what the last call returned, "none" if no id

vars == <<work_sessions, categories, tags, items, item_tags, answer>>

NoAnswer == [call |-> "none"]

Init ==
    /\ work_sessions = [s \in Sessions |-> "absent"]
    /\ categories = <<>>
    /\ tags = <<>>
    /\ items = <<>>
    /\ item_tags = {}
    /\ answer = NoAnswer

-----------------------------------------------------------------------------
(* The forest of categories.  A chain of length n goes down from its node  *)
(* 0 (None for the top) to its node n.                                     *)

Chains(n) ==
    {p \in [0 .. n -> Ids \cup {None}] :
        \A k \in 1 .. n : /\ p[k] \in DOMAIN categories
                          /\ categories[p[k]].parent = p[k - 1]}

(* Mistake: a segment is looked up by its name alone. *)
SegmentByName(parent, name) ==
    {c \in DOMAIN categories : categories[c].name = name}

Segment(parent, name) ==
    {c \in DOMAIN categories : /\ categories[c].parent = parent
                               /\ categories[c].name = name}

(* category_is_within_scope_locked: a walk up of at most DepthGuard nodes. *)
WithinScope(category, scope) ==
    \/ scope = None
    \/ \E n \in 0 .. DepthGuard - 1 :
          \E p \in Chains(n) : p[0] = scope /\ p[n] = category

(* SQLite gives a new row the id after the largest one in its table, which *)
(* may be one that a rolled-back row had.                                  *)
IsNextId(id, table) ==
    /\ \A other \in DOMAIN table : other < id
    /\ id = 1 \/ id - 1 \in DOMAIN table

(* A table with more rows; a row that is there already stays as it is.     *)
With(table, rows) ==
    [x \in DOMAIN table \cup DOMAIN rows |->
        IF x \in DOMAIN table THEN table[x] ELSE rows[x]]

OpenIn(s)    == work_sessions[s] = "open"
CurrentIn(s) == work_sessions[s] \in {"open", "frozen"}

-----------------------------------------------------------------------------
(* ensure_category_path: the segments that are there are followed; from    *)
(* the first that is not, each is inserted under the one before.           *)

Follows(p, found, path) ==
    /\ p[0] = None
    /\ \A k \in 1 .. found : p[k] \in Segment(p[k - 1], path[k])
    /\ found < Len(path) => Segment(p[found], path[found + 1]) = {}

Inserted(s, p, found, path, first, upto) ==
    [id \in first .. first + (upto - found) - 1 |->
        [parent |-> IF id = first THEN p[found] ELSE id - 1,
         name |-> path[found + 1 + (id - first)], ws |-> s]]

EnsureCategoryPath(s, path) ==
    /\ OpenIn(s)
    /\ \E found \in 0 .. Len(path), first \in 1 .. MaxCategory + 1 :
       \E p \in [0 .. found -> Ids \cup {None}] :
          /\ Follows(p, found, path)
          /\ IsNextId(first, categories)
          /\ first + (Len(path) - found) - 1 <= MaxCategory
          /\ categories' =
                With(categories, Inserted(s, p, found, path, first, Len(path)))
          /\ answer' = [call |-> "path", path |-> path,
                        id |-> IF found = Len(path) THEN p[found]
                               ELSE first + (Len(path) - found) - 1]
    /\ UNCHANGED <<work_sessions, tags, items, item_tags>>

(* The process dies after some of the inserts.                             *)
CrashInPath(s, path) ==
    /\ OpenIn(s)
    /\ \E found \in 0 .. Len(path), first \in Ids :
       \E p \in [0 .. found -> Ids \cup {None}], upto \in found + 1 .. Len(path) - 1 :
          /\ Follows(p, found, path)
          /\ IsNextId(first, categories)
          /\ first + (upto - found) - 1 <= MaxCategory
          /\ categories' =
                With(categories, Inserted(s, p, found, path, first, upto))
    /\ answer' = NoAnswer
    /\ UNCHANGED <<work_sessions, tags, items, item_tags>>

-----------------------------------------------------------------------------
TagRow(name, scope, s) == [t \in {name} |-> [scope |-> scope, ws |-> s]]

(* Mistake: a tag that exists takes the scope that was sent. *)
WithTagRescoped(name, scope, s) ==
    IF scope \in DOMAIN categories \cup {None}
    THEN With(TagRow(name, scope, s), tags)
    ELSE tags

(* Mistake: the reference to a category is not enforced. *)
WithTagUnchecked(name, scope, s) ==
    With(tags, TagRow(name, scope, s))

(* find_or_create_tag_locked: the result of the INSERT, which a scope that *)
(* does not exist makes fail, is ignored.                                  *)
WithTag(name, scope, s) ==
    IF scope \in DOMAIN categories \cup {None}
    THEN With(tags, TagRow(name, scope, s))
    ELSE tags

EnsureTag(s, name, scope) ==
    /\ OpenIn(s)
    /\ tags' = WithTag(name, scope, s)
    /\ answer' = [call |-> "tag", tag |-> name]
    /\ UNCHANGED <<work_sessions, categories, items, item_tags>>

(* create_item refuses a tag out of scope before it writes anything (-3),  *)
(* and the INSERT a barcode in use or a category that does not exist (-2). *)
ItemAccepted(barcode, category, tagNames) ==
    /\ \A t \in tagNames \cap DOMAIN tags : WithinScope(category, tags[t].scope)
    /\ \A i \in DOMAIN items : barcode # NoBarcode => items[i].barcode # barcode
    /\ category \in DOMAIN categories \cup {None}

ItemRow(id, category, barcode, s) ==
    [i \in {id} |-> [category |-> category, barcode |-> barcode, ws |-> s]]

NewTags(tagNames, s) == [t \in tagNames |-> [scope |-> None, ws |-> s]]

CreateItem(s, barcode, category, tagNames) ==
    /\ OpenIn(s)
    /\ ItemAccepted(barcode, category, tagNames)
    /\ \E id \in 1 .. MaxItem :
          /\ IsNextId(id, items)
          /\ items' = With(items, ItemRow(id, category, barcode, s))
          /\ item_tags' = item_tags \cup [item : {id}, tag : tagNames]
    /\ tags' = With(tags, NewTags(tagNames, s))
    /\ answer' = NoAnswer
    /\ UNCHANGED <<work_sessions, categories>>

(* The process dies with the item inserted and the first tags linked, the  *)
(* next one perhaps inserted.                                              *)
CrashInCreateItem(s, barcode, category, tagNames) ==
    /\ OpenIn(s)
    /\ ItemAccepted(barcode, category, tagNames)
    /\ \E id \in 1 .. MaxItem, linked \in SUBSET tagNames :
       \E next \in SUBSET (tagNames \ linked) :
          /\ IsNextId(id, items)
          /\ \A t, u \in next : t = u
          /\ items' = With(items, ItemRow(id, category, barcode, s))
          /\ item_tags' = item_tags \cup [item : {id}, tag : linked]
          /\ tags' = With(tags, NewTags(linked \cup next, s))
    /\ answer' = NoAnswer
    /\ UNCHANGED <<work_sessions, categories>>

(* A scan of a barcode nobody has creates an item with nothing but that.   *)
ScanNewItem(s, barcode) ==
    /\ OpenIn(s)
    /\ \A i \in DOMAIN items : items[i].barcode # barcode
    /\ \E id \in 1 .. MaxItem :
          /\ IsNextId(id, items)
          /\ items' = With(items, ItemRow(id, None, barcode, s))
    /\ answer' = NoAnswer
    /\ UNCHANGED <<work_sessions, categories, tags, item_tags>>

-----------------------------------------------------------------------------
(* The work session.                                                       *)

OpenSession(s) ==
    /\ \A t \in Sessions : ~CurrentIn(t) /\ (work_sessions[t] = "absent" <=> t >= s)
    /\ work_sessions' = [work_sessions EXCEPT ![s] = "open"]
    /\ answer' = NoAnswer
    /\ UNCHANGED <<categories, tags, items, item_tags>>

(* By the ticker, and back by restore_session.                             *)
FreezeOrRestore(s) ==
    /\ CurrentIn(s)
    /\ work_sessions' = [work_sessions EXCEPT ![s] =
                            IF @ = "open" THEN "frozen" ELSE "open"]
    /\ answer' = NoAnswer
    /\ UNCHANGED <<categories, tags, items, item_tags>>

CommitSession(s) ==
    /\ CurrentIn(s)
    /\ work_sessions' = [work_sessions EXCEPT ![s] = "committed"]
    /\ answer' = NoAnswer
    /\ UNCHANGED <<categories, tags, items, item_tags>>

CreatedIn(table, s) == {x \in DOMAIN table : table[x].ws = s}

(* A DELETE that would leave a reference dangling deletes nothing, and     *)
(* nobody looks at its result.                                             *)
DeleteCreated(table, s, held) ==
    LET gone == IF CreatedIn(table, s) \cap held = {} THEN CreatedIn(table, s) ELSE {}
    IN [x \in DOMAIN table \ gone |-> table[x]]

(* Round r deletes the created categories below which no chain of r nodes  *)
(* is left; a category created earlier is never below one created later.   *)
(* One that is still referred to makes its round, and all later, fail.     *)
DueBy(s, r) == CreatedIn(categories, s) \ {p[0] : p \in Chains(r)}

DeletedCategories(s, held) ==
    UNION {DueBy(s, r) :
        r \in {q \in 1 .. DepthGuard : DueBy(s, q) \cap held = {}}}

(* Mistake: the links are not deleted before what they link. *)
LinksKept(s) == item_tags

LinksLeft(s) == {l \in item_tags : items[l.item].ws # s}

RollbackSession(s) ==
    /\ CurrentIn(s)
    /\ item_tags' = LinksLeft(s)
    /\ items' = DeleteCreated(items, s, {l.item : l \in item_tags'})
    /\ tags' = DeleteCreated(tags, s, {l.tag : l \in item_tags'})
    /\ LET held == {items'[i].category : i \in DOMAIN items'}
                     \cup {tags'[t].scope : t \in DOMAIN tags'}
       IN categories' = [c \in DOMAIN categories \ DeletedCategories(s, held)
                            |-> categories[c]]
    /\ work_sessions' = [work_sessions EXCEPT ![s] = "rolled_back"]
    /\ answer' = NoAnswer

-----------------------------------------------------------------------------
Next ==
    \E s \in Sessions :
        \/ OpenSession(s)
        \/ FreezeOrRestore(s)
        \/ CommitSession(s)
        \/ RollbackSession(s)
        \/ \E path \in Paths : EnsureCategoryPath(s, path)
        \/ \E path \in Paths : CrashInPath(s, path)
        \/ \E name \in TagNames, scope \in Ids \cup {None} : EnsureTag(s, name, scope)
        \/ \E barcode \in Barcodes \cup {NoBarcode}, category \in Ids \cup {None},
              tagNames \in SUBSET TagNames : CreateItem(s, barcode, category, tagNames)
        \/ \E barcode \in Barcodes \cup {NoBarcode}, category \in Ids \cup {None},
              tagNames \in SUBSET TagNames :
                 CrashInCreateItem(s, barcode, category, tagNames)
        \/ \E barcode \in Barcodes : ScanNewItem(s, barcode)

Spec == Init /\ [][Next]_vars

-----------------------------------------------------------------------------
(* Properties.                                                             *)

(* Every column has values of its type, and every reference between the    *)
(* four tables leads to a row that exists.                                 *)
TypeOK ==
    /\ work_sessions \in
          [Sessions -> {"absent", "open", "frozen", "committed", "rolled_back"}]
    /\ DOMAIN categories \subseteq Ids
    /\ \A c \in DOMAIN categories :
          categories[c] \in [parent : DOMAIN categories \cup {None},
                            name : Names, ws : Sessions]
    /\ DOMAIN tags \subseteq TagNames
    /\ \A t \in DOMAIN tags :
          tags[t] \in [scope : DOMAIN categories \cup {None}, ws : Sessions]
    /\ DOMAIN items \subseteq 1 .. MaxItem
    /\ \A i \in DOMAIN items :
          items[i] \in [category : DOMAIN categories \cup {None},
                       barcode : Barcodes \cup {NoBarcode}, ws : Sessions]
    /\ item_tags \subseteq [item : DOMAIN items, tag : DOMAIN tags]

(* An item never carries a tag outside the tag's scope, whichever of tag,  *)
(* category and item came first, which of them were rolled back, and       *)
(* whether their creation was cut short.                                   *)
LinksInScope ==
    \A l \in item_tags : WithinScope(items[l.item].category, tags[l.tag].scope)

(* The id ensure_category_path returns is that of the one category whose   *)
(* path from the top is the path that was asked for: segments that were    *)
(* there, those of a call cut short by a crash included, were reused and   *)
(* none has a sibling of its name.                                         *)
PathAnswered ==
    /\ answer.call = "path" =>
          \E p \in Chains(Len(answer.path)) :
             /\ p[0] = None /\ p[Len(answer.path)] = answer.id
             /\ \A k \in 1 .. Len(answer.path) :
                   categories[p[k]].name = answer.path[k]
    /\ \A c, d \in DOMAIN categories :
          /\ categories[c].parent = categories[d].parent
          /\ categories[c].name = categories[d].name
          => c = d

(* Rollback is a full undo of the catalog: of what a rolled-back session   *)
(* created, finished or not, nothing is left (as long as no path is deeper *)
(* than the rounds of deletes).                                            *)
NoTraceOfRolledBack ==
    \A s \in Sessions : work_sessions[s] = "rolled_back" =>
        CreatedIn(categories, s) \cup CreatedIn(tags, s) \cup CreatedIn(items, s) = {}
=============================================================================
