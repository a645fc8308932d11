---------------------------- MODULE CatalogProofs ----------------------------
(* Proofs about the catalog, for any names, barcodes and depths and any     *)
(* number of work sessions and rows.                                        *)
EXTENDS Catalog, WellFoundedInduction, TLAPS

(* Of the work sessions before one that was opened, none is current.        *)
OneAtATime ==
    \A t, u \in Sessions :
        t < u /\ work_sessions[u] # "absent" =>
            work_sessions[t] \in {"committed", "rolled_back"}

Started(table) == \A x \in DOMAIN table : work_sessions[table[x].ws] # "absent"

RowsStarted == Started(categories) /\ Started(tags) /\ Started(items)

(* Every row refers only to rows of the same or an earlier work session:    *)
(* those of a session that is rolled back are held by no other.             *)
Older ==
    /\ \A c \in DOMAIN categories :
          categories[c].parent = None
          \/ categories[categories[c].parent].ws <= categories[c].ws
    /\ \A t \in DOMAIN tags :
          tags[t].scope = None \/ categories[tags[t].scope].ws <= tags[t].ws
    /\ \A i \in DOMAIN items :
          items[i].category = None \/ categories[items[i].category].ws <= items[i].ws
    /\ \A l \in item_tags : tags[l.tag].ws <= items[l.item].ws

(* Depths can be given to the categories, each one more than its parent's.  *)
Shallow ==
    \E depth \in [Ids \cup {None} -> 0 .. MaxPath] :
        /\ depth[None] = 0
        /\ \A c \in DOMAIN categories : depth[c] = depth[categories[c].parent] + 1

CatalogInv == TypeOK /\ OneAtATime /\ RowsStarted /\ Older

-----------------------------------------------------------------------------
(* TypeOK in named parts.                                                   *)

SessionsType ==
    work_sessions \in
        [Sessions -> {"absent", "open", "frozen", "committed", "rolled_back"}]

CategoriesType ==
    /\ DOMAIN categories \subseteq Ids
    /\ \A c \in DOMAIN categories :
          categories[c] \in [parent : DOMAIN categories \cup {None},
                            name : Names, ws : Sessions]

TagsType ==
    /\ DOMAIN tags \subseteq TagNames
    /\ \A t \in DOMAIN tags :
          tags[t] \in [scope : DOMAIN categories \cup {None}, ws : Sessions]

ItemsType ==
    /\ DOMAIN items \subseteq 1 .. MaxItem
    /\ \A i \in DOMAIN items :
          items[i] \in [category : DOMAIN categories \cup {None},
                       barcode : Barcodes \cup {NoBarcode}, ws : Sessions]

LinksType == item_tags \subseteq [item : DOMAIN items, tag : DOMAIN tags]

TypeParts ==
    SessionsType /\ CategoriesType /\ TagsType /\ ItemsType /\ LinksType

LEMMA TypeInParts == TypeOK <=> TypeParts
BY Zenon DEF TypeOK, TypeParts, SessionsType, CategoriesType, TagsType,
             ItemsType, LinksType

LEMMA TypeInPartsNext == TypeOK' <=> TypeParts'
BY Zenon DEF TypeOK, TypeParts, SessionsType, CategoriesType, TagsType,
             ItemsType, LinksType

LEMMA NoneIsNoId == None \notin Ids /\ None \in Int /\ Ids \subseteq Nat
BY CatalogAssumption DEF None, Ids

(* The session that is current is the last that was opened, so no row is    *)
(* younger.                                                                 *)
LEMMA CurrentIsLast ==
    ASSUME OneAtATime, SessionsType, NEW s \in Sessions, CurrentIn(s),
           NEW t \in Sessions, work_sessions[t] # "absent"
    PROVE  t <= s
BY DEF OneAtATime, CurrentIn, SessionsType, Sessions

-----------------------------------------------------------------------------
(* The steps that only open, freeze, restore or commit a work session.      *)

Kept(t) == work_sessions[t] # "absent" => work_sessions'[t] # "absent"

LEMMA SessionStep ==
    ASSUME CatalogInv, SessionsType', OneAtATime', \A t \in Sessions : Kept(t),
           UNCHANGED <<categories, tags, items, item_tags>>
    PROVE  CatalogInv'
<1>1. TypeOK'
  BY TypeInParts, TypeInPartsNext DEF CatalogInv, TypeParts, CategoriesType,
     TagsType, ItemsType, LinksType
<1>2. RowsStarted'
  BY TypeInParts DEF CatalogInv, TypeParts, CategoriesType, TagsType, ItemsType,
     RowsStarted, Started, Kept
<1>3. Older'
  BY DEF CatalogInv, Older
<1> QED
  BY <1>1, <1>2, <1>3 DEF CatalogInv

LEMMA OpenStep ==
    ASSUME CatalogInv, NEW s \in Sessions, OpenSession(s)
    PROVE  CatalogInv'
<1>1. SessionsType'
  BY TypeInParts DEF CatalogInv, TypeParts, SessionsType, OpenSession
<1>2. OneAtATime'
  BY TypeInParts DEF CatalogInv, TypeParts, SessionsType, OpenSession, OneAtATime,
     CurrentIn, Sessions
<1>3. \A t \in Sessions : Kept(t)
  BY TypeInParts DEF CatalogInv, TypeParts, SessionsType, OpenSession, Kept
<1> QED
  BY <1>1, <1>2, <1>3, SessionStep DEF OpenSession

LEMMA StatusStep ==
    ASSUME CatalogInv, NEW s \in Sessions, FreezeOrRestore(s) \/ CommitSession(s)
    PROVE  CatalogInv'
<1>0. PICK st \in {"open", "frozen", "committed"} :
           work_sessions' = [work_sessions EXCEPT ![s] = st]
  BY DEF FreezeOrRestore, CommitSession
<1>1. CurrentIn(s) /\ UNCHANGED <<categories, tags, items, item_tags>>
  BY DEF FreezeOrRestore, CommitSession
<1>2. SessionsType'
  BY <1>0, TypeInParts DEF CatalogInv, TypeParts, SessionsType
<1>3. OneAtATime'
  BY <1>0, <1>1, TypeInParts DEF CatalogInv, TypeParts, SessionsType, OneAtATime,
     CurrentIn, Sessions
<1>4. \A t \in Sessions : Kept(t)
  BY <1>0, TypeInParts DEF CatalogInv, TypeParts, SessionsType, Kept
<1> QED
  BY <1>1, <1>2, <1>3, <1>4, SessionStep

-----------------------------------------------------------------------------
(* The steps that add items, tags and links and leave the categories alone. *)

TagsAdded(s) ==
    /\ \A t \in DOMAIN tags : t \in DOMAIN tags' /\ tags'[t] = tags[t]
    /\ \A t \in DOMAIN tags' \ DOMAIN tags :
          /\ t \in TagNames
          /\ tags'[t] \in [scope : DOMAIN categories \cup {None}, ws : {s}]

ItemsAdded(s) ==
    /\ \A i \in DOMAIN items : i \in DOMAIN items' /\ items'[i] = items[i]
    /\ \A i \in DOMAIN items' \ DOMAIN items :
          /\ i \in 1 .. MaxItem
          /\ items'[i] \in [category : DOMAIN categories \cup {None},
                            barcode : Barcodes \cup {NoBarcode}, ws : {s}]

LinksAdded ==
    /\ item_tags \subseteq item_tags'
    /\ \A l \in item_tags' \ item_tags :
          l \in [item : DOMAIN items' \ DOMAIN items, tag : DOMAIN tags']

LEMMA AddStep ==
    ASSUME CatalogInv, NEW s \in Sessions, OpenIn(s),
           TagsAdded(s), ItemsAdded(s), LinksAdded,
           UNCHANGED <<work_sessions, categories>>
    PROVE  CatalogInv'
<1>1. TypeParts
  BY TypeInParts DEF CatalogInv
<1>2. TagsType'
  BY <1>1 DEF TypeParts, TagsType, TagsAdded
<1>3. ItemsType'
  BY <1>1 DEF TypeParts, ItemsType, ItemsAdded
<1>4. LinksType'
  BY <1>1 DEF TypeParts, LinksType, LinksAdded, TagsAdded, ItemsAdded
<1>5. TypeOK'
  BY <1>1, <1>2, <1>3, <1>4, TypeInPartsNext
     DEF TypeParts, SessionsType, CategoriesType
<1>6. OneAtATime'
  BY DEF CatalogInv, OneAtATime
<1>7. RowsStarted'
  <2>1. work_sessions[s] # "absent"
    BY DEF OpenIn
  <2>2. Started(tags)'
    BY <2>1 DEF CatalogInv, RowsStarted, Started, TagsAdded
  <2>3. Started(items)'
    BY <2>1 DEF CatalogInv, RowsStarted, Started, ItemsAdded
  <2> QED
    BY <2>2, <2>3 DEF CatalogInv, RowsStarted, Started
<1>8. ASSUME NEW t \in Sessions, work_sessions[t] # "absent" PROVE t <= s
  BY <1>1, <1>8, CurrentIsLast DEF CatalogInv, OpenIn, CurrentIn, TypeParts
<1>9. \A c \in DOMAIN categories : categories[c].ws <= s
  BY <1>1, <1>8 DEF CatalogInv, RowsStarted, Started, TypeParts, CategoriesType
<1>10. \A t \in DOMAIN tags' : tags'[t].ws <= s
  BY <1>2, <1>7, <1>8 DEF RowsStarted, Started, TagsType
<1>11. \A t \in DOMAIN tags' :
          tags'[t].scope = None \/ categories[tags'[t].scope].ws <= tags'[t].ws
  BY <1>9 DEF TagsAdded, CatalogInv, Older
<1>12. \A i \in DOMAIN items' :
          items'[i].category = None
          \/ categories[items'[i].category].ws <= items'[i].ws
  BY <1>9 DEF ItemsAdded, CatalogInv, Older
<1>13. \A l \in item_tags' : tags'[l.tag].ws <= items'[l.item].ws
  <2>1. ASSUME NEW l \in item_tags PROVE tags'[l.tag].ws <= items'[l.item].ws
    BY <1>1 DEF TypeParts, LinksType, TagsAdded, ItemsAdded, CatalogInv, Older
  <2>2. ASSUME NEW l \in item_tags' \ item_tags
        PROVE  tags'[l.tag].ws <= items'[l.item].ws
    BY <1>10 DEF LinksAdded, ItemsAdded
  <2> QED
    BY <2>1, <2>2
<1>14. Older'
  BY <1>11, <1>12, <1>13 DEF CatalogInv, Older
<1> QED
  BY <1>5, <1>6, <1>7, <1>14 DEF CatalogInv

LEMMA EnsureTagAdds ==
    ASSUME NEW s \in Sessions, NEW name \in TagNames, NEW scope,
           EnsureTag(s, name, scope)
    PROVE  TagsAdded(s) /\ ItemsAdded(s) /\ LinksAdded
<1>1. CASE scope \in DOMAIN categories \cup {None}
  <2>1. tags' = With(tags, TagRow(name, scope, s))
    BY <1>1 DEF EnsureTag, WithTag
  <2>2. /\ DOMAIN tags' = DOMAIN tags \cup {name}
        /\ \A t \in DOMAIN tags : tags'[t] = tags[t]
        /\ name \notin DOMAIN tags => tags'[name] = [scope |-> scope, ws |-> s]
    BY <2>1 DEF With, TagRow
  <2> QED
    BY <1>1, <2>2 DEF TagsAdded, EnsureTag, ItemsAdded, LinksAdded
<1>2. CASE scope \notin DOMAIN categories \cup {None}
  BY <1>2 DEF TagsAdded, EnsureTag, WithTag, ItemsAdded, LinksAdded
<1> QED
  BY <1>1, <1>2

LEMMA ItemRowAdded ==
    ASSUME NEW s \in Sessions, NEW id \in 1 .. MaxItem, IsNextId(id, items),
           ItemsType, NEW category \in DOMAIN categories \cup {None},
           NEW barcode \in Barcodes \cup {NoBarcode},
           items' = With(items, ItemRow(id, category, barcode, s))
    PROVE  /\ ItemsAdded(s)
           /\ id \in DOMAIN items' \ DOMAIN items
           /\ items'[id].category = category
<1>1. id \notin DOMAIN items
  BY DEF IsNextId, ItemsType
<1>2. /\ DOMAIN items' = DOMAIN items \cup {id}
      /\ \A i \in DOMAIN items : items'[i] = items[i]
      /\ items'[id] = [category |-> category, barcode |-> barcode, ws |-> s]
  BY <1>1 DEF With, ItemRow
<1> QED
  BY <1>1, <1>2 DEF ItemsAdded

LEMMA NewTagsAdded ==
    ASSUME NEW s \in Sessions, NEW names \in SUBSET TagNames,
           tags' = With(tags, NewTags(names, s))
    PROVE  /\ TagsAdded(s)
           /\ names \subseteq DOMAIN tags'
           /\ \A t \in names \ DOMAIN tags : tags'[t].scope = None
<1>1. /\ DOMAIN tags' = DOMAIN tags \cup names
      /\ \A t \in DOMAIN tags : tags'[t] = tags[t]
      /\ \A t \in names \ DOMAIN tags : tags'[t] = [scope |-> None, ws |-> s]
  BY DEF With, NewTags
<1> QED
  BY <1>1 DEF TagsAdded

(* An item is created with links to tags that are there afterwards: the     *)
(* names that were checked, or fewer when the process dies.                 *)
ItemCreated(s, barcode, category, tagNames) ==
    \E id \in DOMAIN items' \ DOMAIN items, linked \in SUBSET tagNames :
        /\ items'[id].category = category
        /\ item_tags' = item_tags \cup [item : {id}, tag : linked]
        /\ linked \subseteq DOMAIN tags'
        /\ \A t \in linked \ DOMAIN tags : tags'[t].scope = None

LEMMA CreateItemAdds ==
    ASSUME NEW s \in Sessions, NEW barcode \in Barcodes \cup {NoBarcode},
           NEW category, NEW tagNames \in SUBSET TagNames, ItemsType,
           \/ CreateItem(s, barcode, category, tagNames)
           \/ CrashInCreateItem(s, barcode, category, tagNames)
    PROVE  /\ TagsAdded(s) /\ ItemsAdded(s) /\ LinksAdded
           /\ ItemCreated(s, barcode, category, tagNames)
<1>1. PICK id \in 1 .. MaxItem, names \in SUBSET tagNames, linked \in SUBSET tagNames :
          /\ linked \subseteq names
          /\ IsNextId(id, items)
          /\ items' = With(items, ItemRow(id, category, barcode, s))
          /\ item_tags' = item_tags \cup [item : {id}, tag : linked]
          /\ tags' = With(tags, NewTags(names, s))
  <2>1. CASE CreateItem(s, barcode, category, tagNames)
    BY <2>1 DEF CreateItem
  <2>2. CASE CrashInCreateItem(s, barcode, category, tagNames)
    <3>1. PICK id \in 1 .. MaxItem, linked \in SUBSET tagNames :
          \E next \in SUBSET (tagNames \ linked) :
          /\ IsNextId(id, items)
          /\ items' = With(items, ItemRow(id, category, barcode, s))
          /\ item_tags' = item_tags \cup [item : {id}, tag : linked]
          /\ tags' = With(tags, NewTags(linked \cup next, s))
      BY <2>2 DEF CrashInCreateItem
    <3>2. PICK next \in SUBSET (tagNames \ linked) :
          tags' = With(tags, NewTags(linked \cup next, s))
      BY <3>1
    <3>3. linked \cup next \in SUBSET tagNames /\ linked \subseteq (linked \cup next)
      OBVIOUS
    <3> QED
      BY <3>1, <3>2, <3>3
  <2> QED
    BY <2>1, <2>2
<1>2. category \in DOMAIN categories \cup {None}
  BY DEF CreateItem, CrashInCreateItem, ItemAccepted
<1>3. /\ ItemsAdded(s) /\ id \in DOMAIN items' \ DOMAIN items
      /\ items'[id].category = category
  BY <1>1, <1>2, ItemRowAdded
<1>4. /\ TagsAdded(s) /\ names \subseteq DOMAIN tags'
      /\ \A t \in names \ DOMAIN tags : tags'[t].scope = None
  BY <1>1, NewTagsAdded
<1>5. LinksAdded
  BY <1>1, <1>3, <1>4 DEF LinksAdded
<1> QED
  BY <1>1, <1>3, <1>4, <1>5 DEF ItemCreated

LEMMA ScanNewItemAdds ==
    ASSUME NEW s \in Sessions, NEW barcode \in Barcodes, ItemsType,
           ScanNewItem(s, barcode)
    PROVE  TagsAdded(s) /\ ItemsAdded(s) /\ LinksAdded
<1>1. PICK id \in 1 .. MaxItem :
          /\ IsNextId(id, items)
          /\ items' = With(items, ItemRow(id, None, barcode, s))
  BY DEF ScanNewItem
<1>2. ItemsAdded(s)
  BY <1>1, ItemRowAdded
<1> QED
  BY <1>2 DEF ScanNewItem, TagsAdded, LinksAdded

-----------------------------------------------------------------------------
(* The steps that insert the categories of a path.                          *)

LEMMA PathType ==
    ASSUME NEW path \in Paths
    PROVE  /\ Len(path) \in 1 .. MaxPath
           /\ \A k \in 1 .. Len(path) : path[k] \in Names
<1>1. PICK n \in 1 .. MaxPath : path \in [1 .. n -> Names]
  BY DEF Paths
<1>2. n \in Nat /\ path \in Seq(Names) /\ Len(path) = n
  BY <1>1, CatalogAssumption
<1> QED
  BY <1>1, <1>2

(* The segments of path up to found are there, those after it up to upto    *)
(* are inserted with ids from first on.                                     *)
PathInserted(s, path, found, upto, first, p) ==
    /\ path \in Paths
    /\ found \in 0 .. Len(path) /\ upto \in found .. Len(path)
    /\ first \in Nat \ {0} /\ first + (upto - found) - 1 <= MaxCategory
    /\ p \in [0 .. found -> Ids \cup {None}]
    /\ Follows(p, found, path)
    /\ IsNextId(first, categories)
    /\ categories' = With(categories, Inserted(s, p, found, path, first, upto))

LEMMA EnsurePathInserts ==
    ASSUME NEW s \in Sessions, NEW path \in Paths, EnsureCategoryPath(s, path)
    PROVE  \E found, first, p :
               /\ PathInserted(s, path, found, Len(path), first, p)
               /\ answer' = [call |-> "path", path |-> path,
                             id |-> IF found = Len(path) THEN p[found]
                                    ELSE first + (Len(path) - found) - 1]
<1>1. PICK found \in 0 .. Len(path), first \in 1 .. MaxCategory + 1 :
         \E p \in [0 .. found -> Ids \cup {None}] :
          /\ Follows(p, found, path)
          /\ IsNextId(first, categories)
          /\ first + (Len(path) - found) - 1 <= MaxCategory
          /\ categories' =
                With(categories, Inserted(s, p, found, path, first, Len(path)))
          /\ answer' = [call |-> "path", path |-> path,
                        id |-> IF found = Len(path) THEN p[found]
                               ELSE first + (Len(path) - found) - 1]
  BY DEF EnsureCategoryPath
<1>2. PICK p \in [0 .. found -> Ids \cup {None}] :
          /\ Follows(p, found, path)
          /\ IsNextId(first, categories)
          /\ first + (Len(path) - found) - 1 <= MaxCategory
          /\ categories' =
                With(categories, Inserted(s, p, found, path, first, Len(path)))
          /\ answer' = [call |-> "path", path |-> path,
                        id |-> IF found = Len(path) THEN p[found]
                               ELSE first + (Len(path) - found) - 1]
  BY <1>1
<1>3. Len(path) \in found .. Len(path) /\ first \in Nat \ {0}
  BY PathType, CatalogAssumption
<1>4. PathInserted(s, path, found, Len(path), first, p)
  BY <1>2, <1>3 DEF PathInserted
<1> QED
  BY <1>2, <1>4

LEMMA CrashInserts ==
    ASSUME NEW s \in Sessions, NEW path \in Paths, CrashInPath(s, path)
    PROVE  \E found, upto, first, p : PathInserted(s, path, found, upto, first, p)
<1>1. PICK found \in 0 .. Len(path), first \in Ids :
         \E p \in [0 .. found -> Ids \cup {None}],
            upto \in found + 1 .. Len(path) - 1 :
          /\ Follows(p, found, path)
          /\ IsNextId(first, categories)
          /\ first + (upto - found) - 1 <= MaxCategory
          /\ categories' =
                With(categories, Inserted(s, p, found, path, first, upto))
  BY DEF CrashInPath
<1>2. PICK p \in [0 .. found -> Ids \cup {None}],
            upto \in found + 1 .. Len(path) - 1 :
          /\ Follows(p, found, path)
          /\ IsNextId(first, categories)
          /\ first + (upto - found) - 1 <= MaxCategory
          /\ categories' =
                With(categories, Inserted(s, p, found, path, first, upto))
  BY <1>1
<1>3. upto \in found .. Len(path) /\ first \in Nat \ {0}
  BY PathType, CatalogAssumption DEF Ids
<1>4. PathInserted(s, path, found, upto, first, p)
  BY <1>2, <1>3 DEF PathInserted
<1> QED
  BY <1>4

LastOf(found, upto, first) == first + (upto - found) - 1

NewCategory(s, path, found, first, p, c) ==
    [parent |-> IF c = first THEN p[found] ELSE c - 1,
     name |-> path[found + 1 + (c - first)], ws |-> s]

(* What was there stays; the new categories, from first on, form a chain    *)
(* under the last segment that was there.                                   *)
PathGrown(s, path, found, upto, first, p) ==
    /\ found \in Nat /\ upto \in Nat /\ found <= upto
    /\ upto <= Len(path) /\ Len(path) \in Nat
    /\ first \in Nat \ {0} /\ LastOf(found, upto, first) \in Nat
    /\ LastOf(found, upto, first) <= MaxCategory
    /\ DOMAIN categories' =
          DOMAIN categories \cup first .. LastOf(found, upto, first)
    /\ \A c \in DOMAIN categories :
          c < first /\ categories'[c] = categories[c]
    /\ p[found] \in DOMAIN categories \cup {None}
    /\ \A c \in first .. LastOf(found, upto, first) :
          /\ categories'[c] = NewCategory(s, path, found, first, p, c)
          /\ categories'[c].parent = IF c = first THEN p[found] ELSE c - 1
          /\ categories'[c].name = path[found + 1 + (c - first)]
          /\ categories'[c].name \in Names
          /\ categories'[c].ws = s

LEMMA InsertedRows ==
    ASSUME CategoriesType, NEW s \in Sessions, NEW path, NEW found, NEW upto,
           NEW first, NEW p, PathInserted(s, path, found, upto, first, p)
    PROVE  PathGrown(s, path, found, upto, first, p)
<1> DEFINE last == LastOf(found, upto, first)
           rows == Inserted(s, p, found, path, first, upto)
<1>1. /\ found \in Nat /\ upto \in Nat /\ found <= upto /\ upto <= Len(path)
      /\ Len(path) \in Nat /\ path \in Paths
      /\ first \in Nat \ {0} /\ last \in Nat /\ last <= MaxCategory
  BY PathType, CatalogAssumption DEF PathInserted, LastOf
<1>2. \A c \in DOMAIN categories : c < first /\ c \notin first .. last
  BY <1>1 DEF PathInserted, IsNextId, CategoriesType, Ids
<1>3. /\ DOMAIN rows = first .. last
      /\ \A c \in first .. last :
            rows[c] = NewCategory(s, path, found, first, p, c)
  BY <1>1 DEF Inserted, NewCategory, LastOf
<1>4. /\ DOMAIN categories' = DOMAIN categories \cup first .. last
      /\ \A c \in DOMAIN categories : categories'[c] = categories[c]
      /\ \A c \in first .. last : categories'[c] = rows[c]
  <2> HIDE DEF rows, last
  <2>1. categories' = With(categories, rows)
    BY DEF PathInserted, rows
  <2> QED
    BY <1>2, <1>3, <2>1 DEF With
<1>5. p[found] \in DOMAIN categories \cup {None}
  BY <1>1 DEF PathInserted, Follows, Segment
<1>6. \A c \in first .. last : path[found + 1 + (c - first)] \in Names
  <2> SUFFICES ASSUME NEW c \in first .. last
               PROVE  path[found + 1 + (c - first)] \in Names
    OBVIOUS
  <2>1. found + 1 + (c - first) \in 1 .. Len(path)
    BY <1>1 DEF LastOf
  <2> QED
    BY <1>1, <2>1, PathType
<1>7. \A c \in first .. last :
         /\ NewCategory(s, path, found, first, p, c).parent =
               IF c = first THEN p[found] ELSE c - 1
         /\ NewCategory(s, path, found, first, p, c).name =
               path[found + 1 + (c - first)]
         /\ NewCategory(s, path, found, first, p, c).name \in Names
         /\ NewCategory(s, path, found, first, p, c).ws = s
  BY <1>6 DEF NewCategory
<1> HIDE DEF rows
<1> QED
  BY <1>1, <1>2, <1>3, <1>4, <1>5, <1>7 DEF PathGrown

LEMMA PathStep ==
    ASSUME CatalogInv, NEW s \in Sessions, OpenIn(s),
           NEW path, NEW found, NEW upto, NEW first, NEW p,
           PathInserted(s, path, found, upto, first, p),
           UNCHANGED <<work_sessions, tags, items, item_tags>>
    PROVE  CatalogInv'
<1> DEFINE last == LastOf(found, upto, first)
<1>1. TypeParts
  BY TypeInParts DEF CatalogInv
<1>2. /\ found \in Nat /\ upto \in Nat /\ found <= upto
      /\ first \in Nat \ {0} /\ last \in Nat /\ last <= MaxCategory
      /\ DOMAIN categories' = DOMAIN categories \cup first .. last
      /\ \A c \in DOMAIN categories : c < first /\ categories'[c] = categories[c]
      /\ p[found] \in DOMAIN categories \cup {None}
      /\ \A c \in first .. last :
            /\ categories'[c] = NewCategory(s, path, found, first, p, c)
            /\ categories'[c].parent = IF c = first THEN p[found] ELSE c - 1
            /\ categories'[c].name \in Names
            /\ categories'[c].ws = s
  <2>1. CategoriesType
    BY <1>1 DEF TypeParts
  <2>2. PathGrown(s, path, found, upto, first, p)
    BY <2>1, InsertedRows
  <2> QED
    BY <2>2 DEF PathGrown
<1> HIDE DEF last
<1>3. CategoriesType'
  <2>1. DOMAIN categories' \subseteq Ids
    BY <1>1, <1>2, CatalogAssumption DEF TypeParts, CategoriesType, Ids
  <2>2. ASSUME NEW c \in DOMAIN categories
        PROVE  categories'[c] \in [parent : DOMAIN categories' \cup {None},
                                   name : Names, ws : Sessions]
    BY <1>1, <1>2 DEF TypeParts, CategoriesType
  <2>3. ASSUME NEW c \in first .. last
        PROVE  categories'[c] \in [parent : DOMAIN categories' \cup {None},
                                   name : Names, ws : Sessions]
    <3>1. c # first => c - 1 \in first .. last
      BY <1>2
    <3>2. (IF c = first THEN p[found] ELSE c - 1) \in DOMAIN categories' \cup {None}
      BY <1>2, <3>1
    <3>3. categories'[c] = [parent |-> IF c = first THEN p[found] ELSE c - 1,
                            name |-> path[found + 1 + (c - first)], ws |-> s]
          /\ categories'[c].name \in Names
      BY <1>2 DEF NewCategory
    <3> QED
      BY <3>2, <3>3
  <2> QED
    BY <1>2, <2>1, <2>2, <2>3 DEF CategoriesType
<1>4. TypeOK'
  BY <1>1, <1>2, <1>3, TypeInPartsNext
     DEF TypeParts, SessionsType, TagsType, ItemsType, LinksType
<1>5. OneAtATime'
  BY DEF CatalogInv, OneAtATime
<1>6. RowsStarted'
  <2>1. Started(categories)'
    BY <1>2 DEF CatalogInv, RowsStarted, Started, OpenIn
  <2> QED
    BY <2>1 DEF CatalogInv, RowsStarted, Started
<1>7. \A t \in Sessions : work_sessions[t] # "absent" => t <= s
  BY <1>1, CurrentIsLast DEF CatalogInv, OpenIn, CurrentIn, TypeParts
<1>8. \A c \in DOMAIN categories : categories[c].ws <= s
  BY <1>1, <1>7 DEF CatalogInv, RowsStarted, Started, TypeParts, CategoriesType
<1>9. \A c \in DOMAIN categories' : categories'[c].parent = None
         \/ categories'[categories'[c].parent].ws <= categories'[c].ws
  <2>1. ASSUME NEW c \in DOMAIN categories, categories[c].parent # None
        PROVE  categories'[categories'[c].parent].ws <= categories'[c].ws
    <3>1. categories[c].parent \in DOMAIN categories
      BY <1>1, <2>1 DEF TypeParts, CategoriesType
    <3> QED
      BY <1>2, <2>1, <3>1 DEF CatalogInv, Older
  <2>2. ASSUME NEW c \in first .. last, categories'[c].parent # None
        PROVE  categories'[categories'[c].parent].ws <= categories'[c].ws
    <3>1. c # first => c - 1 \in first .. last
      BY <1>2
    <3>2. categories'[c].ws = s
          /\ categories'[c].parent = IF c = first THEN p[found] ELSE c - 1
      BY <1>2
    <3>3. CASE c = first
      BY <1>2, <1>8, <2>2, <3>2, <3>3
    <3>4. CASE c # first
      BY <1>2, <3>1, <3>2, <3>4 DEF Sessions
    <3> QED
      BY <3>3, <3>4
  <2> QED
    BY <1>2, <2>1, <2>2
<1>10. Older'
  BY <1>1, <1>2, <1>9
     DEF CatalogInv, Older, TypeParts, TagsType, ItemsType, LinksType
<1> QED
  BY <1>4, <1>5, <1>6, <1>10 DEF CatalogInv

-----------------------------------------------------------------------------
(* The rollback.                                                            *)

LEMMA ChainOfOne ==
    ASSUME NEW c \in Ids \cup {None}
    PROVE  \E p \in Chains(0) : p[0] = c
<1> DEFINE p == [k \in 0 .. 0 |-> c]
<1>1. p \in [0 .. 0 -> Ids \cup {None}] /\ p[0] = c
  OBVIOUS
<1>2. p \in Chains(0)
  BY <1>1 DEF Chains
<1> QED
  BY <1>1, <1>2

(* A chain goes on upwards.                                                 *)
LEMMA ChainUp ==
    ASSUME CategoriesType, NEW n \in Nat, NEW p \in Chains(n),
           p[0] \in DOMAIN categories
    PROVE  \E q \in Chains(n + 1) : q[0] = categories[p[0]].parent
<1> DEFINE q == [k \in 0 .. n + 1 |-> IF k = 0 THEN categories[p[0]].parent
                                      ELSE p[k - 1]]
<1>1. /\ p \in [0 .. n -> Ids \cup {None}]
      /\ \A k \in 1 .. n : /\ p[k] \in DOMAIN categories
                            /\ categories[p[k]].parent = p[k - 1]
  BY DEF Chains
<1>2. categories[p[0]].parent \in Ids \cup {None}
  BY DEF CategoriesType
<1>3. q \in [0 .. n + 1 -> Ids \cup {None}]
  <2>1. ASSUME NEW k \in 0 .. n + 1, k # 0 PROVE k - 1 \in 0 .. n
    BY <2>1
  <2> QED
    BY <1>1, <1>2, <2>1
<1>4. ASSUME NEW k \in 1 .. n + 1
      PROVE  q[k] \in DOMAIN categories /\ categories[q[k]].parent = q[k - 1]
  <2>1. q[k] = p[k - 1] /\ k - 1 \in 0 .. n
    BY <1>4
  <2>2. CASE k = 1
    BY <2>1, <2>2
  <2>3. CASE k # 1
    <3>1. k - 1 \in 1 .. n /\ q[k - 1] = p[(k - 1) - 1]
      BY <1>4, <2>3
    <3> QED
      BY <1>1, <2>1, <3>1
  <2> QED
    BY <2>2, <2>3
<1>5. q \in Chains(n + 1)
  <2> HIDE DEF q
  <2> QED
    BY <1>3, <1>4 DEF Chains
<1>6. q[0] = categories[p[0]].parent
  OBVIOUS
<1> QED
  BY <1>5, <1>6

(* A rolled-back table keeps the rows of the other work sessions.           *)
KeptRows(table, kept, s) ==
    /\ DOMAIN kept = DOMAIN table \ CreatedIn(table, s)
    /\ \A x \in DOMAIN kept : kept[x] = table[x]

LEMMA AllDeleted ==
    ASSUME NEW table, NEW s, NEW held, CreatedIn(table, s) \cap held = {}
    PROVE  KeptRows(table, DeleteCreated(table, s, held), s)
BY DEF KeptRows, DeleteCreated

Due(s) == UNION {DueBy(s, r) : r \in 1 .. DepthGuard}

(* What a rollback leaves: every link, item and tag of the other sessions,  *)
(* and the categories but for those that some round of deletes reaches.     *)
RolledBack(s) ==
    /\ item_tags' = LinksLeft(s)
    /\ KeptRows(items, items', s)
    /\ KeptRows(tags, tags', s)
    /\ DOMAIN categories' = DOMAIN categories \ Due(s)
    /\ \A c \in DOMAIN categories' : categories'[c] = categories[c]

LEMMA RollbackLeaves ==
    ASSUME CatalogInv, NEW s \in Sessions, RollbackSession(s)
    PROVE  RolledBack(s)
<1>1. TypeParts
  BY TypeInParts DEF CatalogInv
<1>2. ASSUME NEW t \in Sessions, work_sessions[t] # "absent" PROVE t <= s
  BY <1>1, <1>2, CurrentIsLast DEF CatalogInv, RollbackSession, TypeParts
<1>3. \A l \in item_tags : items[l.item].ws <= s
  BY <1>1, <1>2 DEF TypeParts, LinksType, ItemsType, CatalogInv, RowsStarted, Started
<1>4. item_tags' = LinksLeft(s)
  BY DEF RollbackSession
<1>5. KeptRows(items, items', s)
  <2>1. CreatedIn(items, s) \cap {l.item : l \in item_tags'} = {}
    BY <1>4 DEF CreatedIn, LinksLeft
  <2>2. items' = DeleteCreated(items, s, {l.item : l \in item_tags'})
    BY DEF RollbackSession
  <2> QED
    BY <2>1, <2>2, AllDeleted
<1>6. KeptRows(tags, tags', s)
  <2>1. ASSUME NEW l \in item_tags' PROVE tags[l.tag].ws # s
    <3>1. /\ l \in item_tags /\ items[l.item].ws # s /\ items[l.item].ws <= s
          /\ tags[l.tag].ws <= items[l.item].ws
      BY <1>3, <1>4, <2>1 DEF LinksLeft, CatalogInv, Older
    <3>2. items[l.item].ws \in Int /\ tags[l.tag].ws \in Int
      BY <1>1, <3>1 DEF TypeParts, LinksType, ItemsType, TagsType, Sessions
    <3> QED
      BY <3>1, <3>2 DEF Sessions
  <2>2. CreatedIn(tags, s) \cap {l.tag : l \in item_tags'} = {}
    BY <2>1 DEF CreatedIn
  <2>3. tags' = DeleteCreated(tags, s, {l.tag : l \in item_tags'})
    BY DEF RollbackSession
  <2> QED
    BY <2>2, <2>3, AllDeleted
<1> DEFINE held == {items'[i].category : i \in DOMAIN items'}
                       \cup {tags'[t].scope : t \in DOMAIN tags'}
<1>7. ASSUME NEW c \in held PROVE c \notin CreatedIn(categories, s)
  <2>1. ASSUME NEW row, row.ws \in Sessions, row.ws # s,
               work_sessions[row.ws] # "absent",
               c = None \/ categories[c].ws <= row.ws
        PROVE  c \notin CreatedIn(categories, s)
    <3>1. row.ws <= s
      BY <1>2, <2>1
    <3>2. c \in DOMAIN categories => categories[c].ws \in Int /\ c # None
      BY <1>1, NoneIsNoId DEF TypeParts, CategoriesType, Sessions
    <3> QED
      BY <2>1, <3>1, <3>2 DEF CreatedIn, Sessions
  <2>2. CASE \E i \in DOMAIN items' : c = items'[i].category
    <3>1. PICK i \in DOMAIN items' : c = items'[i].category
      BY <2>2
    <3>2. /\ i \in DOMAIN items /\ items'[i] = items[i] /\ items[i].ws # s
          /\ items[i].ws \in Sessions /\ work_sessions[items[i].ws] # "absent"
          /\ items[i].category = None
             \/ categories[items[i].category].ws <= items[i].ws
      BY <1>1, <1>5 DEF KeptRows, CreatedIn, TypeParts, ItemsType, CatalogInv,
         RowsStarted, Started, Older
    <3> QED
      BY <2>1, <3>1, <3>2
  <2>3. CASE \E t \in DOMAIN tags' : c = tags'[t].scope
    <3>1. PICK t \in DOMAIN tags' : c = tags'[t].scope
      BY <2>3
    <3>2. /\ t \in DOMAIN tags /\ tags'[t] = tags[t] /\ tags[t].ws # s
          /\ tags[t].ws \in Sessions /\ work_sessions[tags[t].ws] # "absent"
          /\ tags[t].scope = None \/ categories[tags[t].scope].ws <= tags[t].ws
      BY <1>1, <1>6 DEF KeptRows, CreatedIn, TypeParts, TagsType, CatalogInv,
         RowsStarted, Started, Older
    <3> QED
      BY <2>1, <3>1, <3>2
  <2> QED
    BY <2>2, <2>3
<1>8. DeletedCategories(s, held) = Due(s)
  <2> HIDE DEF held
  <2>1. \A r \in 1 .. DepthGuard : DueBy(s, r) \cap held = {}
    BY <1>7 DEF DueBy
  <2> QED
    BY <2>1 DEF DeletedCategories, Due
<1>9. categories' = [c \in DOMAIN categories \ DeletedCategories(s, held)
                        |-> categories[c]]
  BY DEF RollbackSession
<1> QED
  BY <1>4, <1>5, <1>6, <1>8, <1>9 DEF RolledBack

(* Only categories of the session go, and none from under another.          *)
LEMMA DueAreCreated ==
    ASSUME NEW s, NEW c \in Due(s)
    PROVE  c \in DOMAIN categories /\ categories[c].ws = s
BY DEF Due, DueBy, CreatedIn

LEMMA ParentsStay ==
    ASSUME CategoriesType, NEW s, NEW c \in DOMAIN categories, c \notin Due(s),
           categories[c].ws = s, categories[c].parent # None
    PROVE  categories[c].parent \notin Due(s)
<1> SUFFICES ASSUME NEW r \in 1 .. DepthGuard, categories[c].parent \in DueBy(s, r)
             PROVE  FALSE
  BY DEF Due
<1>1. \A p \in Chains(r) : p[0] # categories[c].parent
  BY DEF DueBy
<1>2. r - 1 \in Nat /\ (r - 1) + 1 = r
  BY CatalogAssumption
<1>3. \E p \in Chains(r - 1) : p[0] = c
  <2>1. CASE r = 1
    BY <2>1, ChainOfOne DEF CategoriesType
  <2>2. CASE r # 1
    <3>1. r - 1 \in 1 .. DepthGuard
      BY <2>2, CatalogAssumption
    <3>2. c \notin DueBy(s, r - 1)
      BY <3>1 DEF Due
    <3> QED
      BY <3>2 DEF DueBy, CreatedIn
  <2> QED
    BY <2>1, <2>2
<1> QED
  BY <1>1, <1>2, <1>3, ChainUp

LEMMA RollbackStep ==
    ASSUME CatalogInv, NEW s \in Sessions, RollbackSession(s)
    PROVE  CatalogInv'
<1>1. TypeParts
  BY TypeInParts DEF CatalogInv
<1>2. RolledBack(s)
  BY RollbackLeaves
<1>3. /\ CurrentIn(s)
      /\ work_sessions' = [work_sessions EXCEPT ![s] = "rolled_back"]
  BY DEF RollbackSession
<1>4. SessionsType'
  BY <1>1, <1>3 DEF TypeParts, SessionsType
<1>5. OneAtATime'
  BY <1>1, <1>3 DEF CatalogInv, TypeParts, SessionsType, OneAtATime, CurrentIn, Sessions
<1>6. \A t \in Sessions : Kept(t)
  BY <1>1, <1>3 DEF TypeParts, SessionsType, Kept
<1>7. ASSUME NEW t \in Sessions, work_sessions[t] # "absent" PROVE t <= s
  BY <1>1, <1>3, <1>7, CurrentIsLast DEF CatalogInv, TypeParts
<1>8. /\ DOMAIN categories' \subseteq DOMAIN categories
      /\ \A c \in DOMAIN categories \ DOMAIN categories' : categories[c].ws = s
      /\ \A c \in DOMAIN categories' : categories'[c] = categories[c]
  BY <1>2, DueAreCreated DEF RolledBack
<1>9. /\ DOMAIN tags' \subseteq DOMAIN tags
      /\ \A t \in DOMAIN tags' : tags'[t] = tags[t] /\ tags[t].ws # s
      /\ \A t \in DOMAIN tags : tags[t].ws # s => t \in DOMAIN tags'
  BY <1>2 DEF RolledBack, KeptRows, CreatedIn
<1>10. /\ DOMAIN items' \subseteq DOMAIN items
       /\ \A i \in DOMAIN items' : items'[i] = items[i] /\ items[i].ws # s
       /\ \A i \in DOMAIN items : items[i].ws # s => i \in DOMAIN items'
  BY <1>2 DEF RolledBack, KeptRows, CreatedIn
<1>11. \A l \in item_tags' : l \in item_tags /\ items[l.item].ws # s
  BY <1>2 DEF RolledBack, LinksLeft
(* What an older row refers to is older still.                              *)
<1>12. ASSUME NEW c \in DOMAIN categories, NEW t \in Sessions, t # s,
              work_sessions[t] # "absent", categories[c].ws <= t
       PROVE  c \in DOMAIN categories'
  <2>1. t <= s
    BY <1>7, <1>12
  <2>2. categories[c].ws \in Int
    BY <1>1 DEF TypeParts, CategoriesType, Sessions
  <2> QED
    BY <1>8, <1>12, <2>1, <2>2 DEF Sessions
<1>13. CategoriesType'
  <2>1. ASSUME NEW c \in DOMAIN categories'
        PROVE  categories[c].parent \in DOMAIN categories' \cup {None}
    <3>1. /\ c \in DOMAIN categories /\ c \notin Due(s)
          /\ categories[c].parent \in DOMAIN categories \cup {None}
          /\ categories[c].ws \in Sessions
      BY <1>1, <1>2, <2>1 DEF RolledBack, TypeParts, CategoriesType
    <3>2. CASE categories[c].parent = None
      BY <3>2
    <3>3. CASE categories[c].parent # None /\ categories[c].ws = s
      BY <1>1, <1>2, <3>1, <3>3, ParentsStay DEF RolledBack, TypeParts
    <3>4. CASE categories[c].parent # None /\ categories[c].ws # s
      <4>1. work_sessions[categories[c].ws] # "absent"
            /\ categories[categories[c].parent].ws <= categories[c].ws
        BY <3>1, <3>4 DEF CatalogInv, RowsStarted, Started, Older
      <4> QED
        BY <1>12, <3>1, <3>4, <4>1
    <3> QED
      BY <3>2, <3>3, <3>4
  <2> QED
    BY <1>1, <1>8, <2>1 DEF TypeParts, CategoriesType
<1>14. TagsType'
  <2>1. ASSUME NEW t \in DOMAIN tags'
        PROVE  tags[t].scope \in DOMAIN categories' \cup {None}
    <3>1. /\ t \in DOMAIN tags /\ tags[t].ws \in Sessions /\ tags[t].ws # s
          /\ tags[t].scope \in DOMAIN categories \cup {None}
          /\ work_sessions[tags[t].ws] # "absent"
          /\ tags[t].scope = None \/ categories[tags[t].scope].ws <= tags[t].ws
      BY <1>1, <1>9, <2>1
         DEF TypeParts, TagsType, CatalogInv, RowsStarted, Started, Older
    <3> QED
      BY <1>12, <3>1
  <2> QED
    BY <1>1, <1>9, <2>1 DEF TypeParts, TagsType
<1>15. ItemsType'
  <2>1. ASSUME NEW i \in DOMAIN items'
        PROVE  items[i].category \in DOMAIN categories' \cup {None}
    <3>1. /\ i \in DOMAIN items /\ items[i].ws \in Sessions /\ items[i].ws # s
          /\ items[i].category \in DOMAIN categories \cup {None}
          /\ work_sessions[items[i].ws] # "absent"
          /\ items[i].category = None
             \/ categories[items[i].category].ws <= items[i].ws
      BY <1>1, <1>10, <2>1
         DEF TypeParts, ItemsType, CatalogInv, RowsStarted, Started, Older
    <3> QED
      BY <1>12, <3>1
  <2> QED
    BY <1>1, <1>10, <2>1 DEF TypeParts, ItemsType
<1>16. LinksType'
  <2>1. ASSUME NEW l \in item_tags'
        PROVE  l \in [item : DOMAIN items', tag : DOMAIN tags']
    <3>1. /\ l \in [item : DOMAIN items, tag : DOMAIN tags]
          /\ items[l.item].ws # s
          /\ tags[l.tag].ws <= items[l.item].ws
      BY <1>1, <1>11, <2>1 DEF TypeParts, LinksType, CatalogInv, Older
    <3>2. /\ items[l.item].ws \in Sessions /\ tags[l.tag].ws \in Sessions
          /\ items[l.item].ws <= s
      BY <1>1, <1>7, <3>1
         DEF TypeParts, ItemsType, TagsType, CatalogInv, RowsStarted, Started
    <3>3. tags[l.tag].ws # s
      BY <3>1, <3>2 DEF Sessions
    <3> QED
      BY <1>9, <1>10, <3>1, <3>3
  <2> QED
    BY <2>1 DEF LinksType
<1>17. TypeOK'
  BY <1>4, <1>13, <1>14, <1>15, <1>16, TypeInPartsNext DEF TypeParts
<1>18. RowsStarted'
  BY <1>1, <1>6, <1>8, <1>9, <1>10 DEF CatalogInv, RowsStarted, Started, Kept,
     TypeParts, CategoriesType, TagsType, ItemsType
<1>19. Older'
  BY <1>8, <1>9, <1>10, <1>11, <1>13, <1>14, <1>15, <1>16
     DEF CatalogInv, Older, CategoriesType, TagsType, ItemsType, LinksType
<1> QED
  BY <1>5, <1>17, <1>18, <1>19 DEF CatalogInv

-----------------------------------------------------------------------------
LEMMA CatalogInit == Init => CatalogInv
BY DEF Init, CatalogInv, TypeOK, OneAtATime, RowsStarted, Started, Older, Sessions

LEMMA CatalogStep == CatalogInv /\ [Next]_vars => CatalogInv'
<1> SUFFICES ASSUME CatalogInv, [Next]_vars PROVE CatalogInv'
  OBVIOUS
<1>1. CASE UNCHANGED vars
  <2>1. UNCHANGED <<work_sessions, categories, tags, items, item_tags>>
    BY <1>1 DEF vars
  <2>2. SessionsType' /\ OneAtATime' /\ \A t \in Sessions : Kept(t)
    BY <2>1, TypeInParts DEF CatalogInv, TypeParts, SessionsType, OneAtATime, Kept
  <2> QED
    BY <2>1, <2>2, SessionStep
<1>2. CASE Next
  <2>0. PICK s \in Sessions :
        \/ OpenSession(s)
        \/ FreezeOrRestore(s)
        \/ CommitSession(s)
        \/ RollbackSession(s)
        \/ \E path \in Paths : EnsureCategoryPath(s, path)
        \/ \E path \in Paths : CrashInPath(s, path)
        \/ \E name \in TagNames, scope \in Ids \cup {None} : EnsureTag(s, name, scope)
        \/ \E barcode \in Barcodes \cup {NoBarcode}, category \in Ids \cup {None},
              tagNames \in SUBSET TagNames :
                 \/ CreateItem(s, barcode, category, tagNames)
                 \/ CrashInCreateItem(s, barcode, category, tagNames)
        \/ \E barcode \in Barcodes : ScanNewItem(s, barcode)
    BY <1>2 DEF Next
  <2>0a. ItemsType
    BY TypeInParts DEF CatalogInv, TypeParts
  <2>1. CASE OpenSession(s)
    BY <2>1, OpenStep
  <2>2. CASE FreezeOrRestore(s) \/ CommitSession(s)
    BY <2>2, StatusStep
  <2>3. CASE RollbackSession(s)
    BY <2>3, RollbackStep
  <2>4. ASSUME NEW path \in Paths, EnsureCategoryPath(s, path) PROVE CatalogInv'
    BY <2>4, EnsurePathInserts, PathStep DEF EnsureCategoryPath
  <2>5. ASSUME NEW path \in Paths, CrashInPath(s, path) PROVE CatalogInv'
    BY <2>5, CrashInserts, PathStep DEF CrashInPath
  <2>6. ASSUME NEW name \in TagNames, NEW scope, EnsureTag(s, name, scope)
        PROVE  CatalogInv'
    BY <2>6, EnsureTagAdds, AddStep DEF EnsureTag
  <2>7. ASSUME NEW barcode \in Barcodes \cup {NoBarcode}, NEW category,
               NEW tagNames \in SUBSET TagNames,
               \/ CreateItem(s, barcode, category, tagNames)
               \/ CrashInCreateItem(s, barcode, category, tagNames)
        PROVE  CatalogInv'
    BY <2>0a, <2>7, CreateItemAdds, AddStep DEF CreateItem, CrashInCreateItem
  <2>8. ASSUME NEW barcode \in Barcodes, ScanNewItem(s, barcode) PROVE CatalogInv'
    BY <2>0a, <2>8, ScanNewItemAdds, AddStep DEF ScanNewItem
  <2> QED
    BY <2>0, <2>1, <2>2, <2>3, <2>4, <2>5, <2>6, <2>7, <2>8
<1> QED
  BY <1>1, <1>2

LEMMA CatalogInvariant == Spec => []CatalogInv
BY CatalogInit, CatalogStep, PTL DEF Spec

(* Every reference between the four tables leads to a row that exists,      *)
(* after any mixture of calls, crashes in the middle of them and rollbacks  *)
(* (TypeOK of the run): what a rollback takes away was created last, and    *)
(* only what was created with it or later can refer to it.                  *)
THEOREM TypeCorrect == Spec => []TypeOK
BY CatalogInvariant, PTL DEF CatalogInv

-----------------------------------------------------------------------------
(* Chains of categories.                                                    *)

(* A set of natural numbers has a least one.                                *)
LEMMA LeastNat ==
    ASSUME NEW S \in SUBSET Nat, S # {}
    PROVE  \E n \in S : \A m \in S : n <= m
<1> DEFINE R == OpToRel(<, Nat)
<1>1. IsWellFoundedOn(R, Nat)
  BY NatLessThanWellFounded
<1>2. \A x, y \in Nat : x < y => <<x, y>> \in R
  BY DEF OpToRel
<1> HIDE DEF R
<1>3. \E n \in S : \A m \in S : ~(<<m, n>> \in R)
  BY <1>1, WFMin
<1>4. PICK n \in S : \A m \in S : ~(<<m, n>> \in R)
  BY <1>3
<1>5. \A m \in S : ~(m < n)
  BY <1>2, <1>4
<1> QED
  BY <1>4, <1>5

(* A chain of categories gets no younger on its way up.                     *)
LEMMA ChainOlder ==
    ASSUME CategoriesType, Older, NEW n \in Nat, NEW p \in Chains(n), NEW k \in 1 .. n
    PROVE  categories[p[k]].ws <= categories[p[n]].ws
<1> DEFINE Ws(j) == categories[p[n - j]].ws
           late == {j \in 0 .. n - 1 : ~(Ws(j) <= Ws(0))}
<1>1. \A j \in 1 .. n : /\ p[j] \in DOMAIN categories
                        /\ categories[p[j]].parent = p[j - 1]
                        /\ categories[p[j]].ws \in Int
  BY DEF Chains, CategoriesType, Sessions
<1>2. \A j \in 0 .. n - 1 : n - j \in 1 .. n
  OBVIOUS
<1>3. late = {}
  <2>1. SUFFICES ASSUME late # {} PROVE FALSE
    OBVIOUS
  <2>2. late \in SUBSET Nat
    OBVIOUS
  <2>3. PICK j \in late : \A m \in late : j <= m
    <3> HIDE DEF late
    <3> QED
      BY <2>1, <2>2, LeastNat
  <2>4. j \in 1 .. n - 1
    <3>1. Ws(0) \in Int
      BY <1>1, <1>2, <2>3
    <3> QED
      BY <2>3, <3>1
  <2>5. j - 1 \in 0 .. n - 1 /\ n - (j - 1) = (n - j) + 1
        /\ (n - j) + 1 \in 1 .. n /\ n - j \in 1 .. n
    BY <2>4
  <2>6. Ws(j - 1) <= Ws(0)
    BY <2>3, <2>5
  <2>7. categories[p[n - j]].ws <= categories[p[(n - j) + 1]].ws
    <3>1. categories[p[(n - j) + 1]].parent = p[n - j]
          /\ p[n - j] \in DOMAIN categories /\ p[(n - j) + 1] \in DOMAIN categories
      BY <1>1, <2>5
    <3>2. p[n - j] # None
      BY <3>1, NoneIsNoId DEF CategoriesType
    <3> QED
      BY <3>1, <3>2 DEF Older
  <2>8. Ws(j) <= Ws(j - 1)
    BY <2>5, <2>7
  <2>9. Ws(j) \in Int /\ Ws(j - 1) \in Int /\ Ws(0) \in Int
    BY <1>1, <1>2, <2>4, <2>5
  <2> QED
    BY <2>3, <2>6, <2>8, <2>9
<1>4. n - k \in 0 .. n - 1 /\ n - (n - k) = k /\ n - 0 = n
  OBVIOUS
<1> QED
  BY <1>3, <1>4

-----------------------------------------------------------------------------
(* Links in scope.                                                          *)

(* Chains only grow, and a link is an earlier one or in scope already.      *)
LEMMA ScopeGrows ==
    ASSUME LinksInScope,
           \A c \in DOMAIN categories :
              c \in DOMAIN categories' /\ categories'[c] = categories[c],
           \A l \in item_tags' :
              \/ /\ l \in item_tags
                 /\ items'[l.item].category = items[l.item].category
                 /\ tags'[l.tag].scope = tags[l.tag].scope
              \/ WithinScope(items'[l.item].category, tags'[l.tag].scope)
    PROVE  LinksInScope'
<1>1. \A n : Chains(n) \subseteq Chains(n)'
  BY DEF Chains
<1>2. ASSUME NEW l \in item_tags'
      PROVE  \/ tags'[l.tag].scope = None
             \/ \E n \in 0 .. DepthGuard - 1 : \E p \in Chains(n)' :
                   p[0] = tags'[l.tag].scope /\ p[n] = items'[l.item].category
  <2>1. WithinScope(items'[l.item].category, tags'[l.tag].scope)
    BY <1>2 DEF LinksInScope
  <2> QED
    BY <1>1, <2>1 DEF WithinScope
<1> QED
  BY <1>2 DEF LinksInScope, WithinScope

LEMMA ScopeInit == Init => LinksInScope
BY DEF Init, LinksInScope

LEMMA ScopeCreate ==
    ASSUME CatalogInv, LinksInScope, NEW s \in Sessions,
           NEW barcode \in Barcodes \cup {NoBarcode}, NEW category,
           NEW tagNames \in SUBSET TagNames,
           \/ CreateItem(s, barcode, category, tagNames)
           \/ CrashInCreateItem(s, barcode, category, tagNames)
    PROVE  LinksInScope'
<1>1. TypeParts
  BY TypeInParts DEF CatalogInv
<1>2. /\ TagsAdded(s) /\ ItemsAdded(s)
      /\ ItemCreated(s, barcode, category, tagNames)
  BY <1>1, CreateItemAdds DEF TypeParts
<1>3. PICK id \in DOMAIN items' \ DOMAIN items, linked \in SUBSET tagNames :
        /\ items'[id].category = category
        /\ item_tags' = item_tags \cup [item : {id}, tag : linked]
        /\ \A t \in linked \ DOMAIN tags : tags'[t].scope = None
  BY <1>2 DEF ItemCreated
<1>4. \A t \in tagNames \cap DOMAIN tags : WithinScope(category, tags[t].scope)
  BY DEF CreateItem, CrashInCreateItem, ItemAccepted
<1>5. ASSUME NEW l \in item_tags
      PROVE  /\ items'[l.item].category = items[l.item].category
             /\ tags'[l.tag].scope = tags[l.tag].scope
  BY <1>1, <1>2 DEF TypeParts, LinksType, TagsAdded, ItemsAdded
<1>6. ASSUME NEW l \in [item : {id}, tag : linked]
      PROVE  WithinScope(items'[l.item].category, tags'[l.tag].scope)
  <2>1. l.item = id /\ l.tag \in linked
    BY <1>6
  <2>2. CASE l.tag \in DOMAIN tags
    <3>1. tags'[l.tag] = tags[l.tag]
      BY <1>2, <2>2 DEF TagsAdded
    <3> QED
      BY <1>3, <1>4, <2>1, <2>2, <3>1
  <2>3. CASE l.tag \notin DOMAIN tags
    BY <1>3, <2>1, <2>3 DEF WithinScope
  <2> QED
    BY <2>2, <2>3
<1>7. UNCHANGED categories
  BY DEF CreateItem, CrashInCreateItem
<1> QED
  BY <1>3, <1>5, <1>6, <1>7, ScopeGrows

(* The scope of a link that stays is above the category of its item, which  *)
(* is older than the session: nothing between them goes.                    *)
LEMMA ScopeRollback ==
    ASSUME CatalogInv, LinksInScope, NEW s \in Sessions, RollbackSession(s)
    PROVE  LinksInScope'
<1>1. TypeParts
  BY TypeInParts DEF CatalogInv
<1>2. RolledBack(s)
  BY RollbackLeaves
<1>3. ASSUME NEW t \in Sessions, work_sessions[t] # "absent" PROVE t <= s
  BY <1>1, <1>3, CurrentIsLast DEF CatalogInv, RollbackSession, TypeParts
<1>4. ASSUME NEW l \in item_tags'
      PROVE  \/ tags'[l.tag].scope = None
             \/ \E n \in 0 .. DepthGuard - 1 : \E p \in Chains(n)' :
                   p[0] = tags'[l.tag].scope /\ p[n] = items'[l.item].category
  <2> SUFFICES ASSUME tags'[l.tag].scope # None
               PROVE  \E n \in 0 .. DepthGuard - 1 : \E p \in Chains(n)' :
                   p[0] = tags'[l.tag].scope /\ p[n] = items'[l.item].category
    OBVIOUS
  <2>1. /\ l \in item_tags /\ items[l.item].ws # s
        /\ l.item \in DOMAIN items /\ l.tag \in DOMAIN tags
    BY <1>1, <1>2 DEF RolledBack, LinksLeft, TypeParts, LinksType
  <2>2. /\ items[l.item].ws \in Sessions /\ tags[l.tag].ws \in Sessions
        /\ tags[l.tag].ws <= items[l.item].ws
        /\ items[l.item].category \in DOMAIN categories \cup {None}
        /\ items[l.item].ws <= s
        /\ items[l.item].category = None
           \/ categories[items[l.item].category].ws <= items[l.item].ws
    BY <1>1, <1>3, <2>1 DEF TypeParts, ItemsType, TagsType, CatalogInv, RowsStarted,
       Started, Older
  <2>3. tags[l.tag].ws # s
    BY <2>1, <2>2 DEF Sessions
  <2>4. items'[l.item] = items[l.item] /\ tags'[l.tag] = tags[l.tag]
    BY <1>2, <2>1, <2>3 DEF RolledBack, KeptRows, CreatedIn
  <2>5. PICK n \in 0 .. DepthGuard - 1 : \E p \in Chains(n) :
                   p[0] = tags[l.tag].scope /\ p[n] = items[l.item].category
    BY <2>1, <2>4 DEF LinksInScope, WithinScope
  <2>6. PICK p \in Chains(n) :
                   p[0] = tags[l.tag].scope /\ p[n] = items[l.item].category
    BY <2>5
  <2>7. ASSUME NEW k \in 1 .. n PROVE p[k] \in DOMAIN categories'
    <3>1. n \in 1 .. n /\ n \in Nat
      OBVIOUS
    <3>2. /\ p[n] \in DOMAIN categories /\ p[k] \in DOMAIN categories
      BY <3>1 DEF Chains
    <3>3. p[n] # None
      BY <1>1, <3>2, NoneIsNoId DEF TypeParts, CategoriesType
    <3>4. categories[p[k]].ws <= categories[p[n]].ws
      BY <1>1, <3>1, ChainOlder DEF TypeParts, CatalogInv
    <3>5. categories[p[k]].ws \in Sessions /\ categories[p[n]].ws \in Sessions
      BY <1>1, <3>2 DEF TypeParts, CategoriesType
    <3>6. categories[p[k]].ws # s
      BY <2>1, <2>2, <2>6, <3>3, <3>4, <3>5 DEF Sessions
    <3> QED
      BY <1>2, <3>2, <3>6, DueAreCreated DEF RolledBack
  <2>8. p \in Chains(n)'
    BY <1>2, <2>7 DEF Chains, RolledBack
  <2> QED
    BY <2>4, <2>6, <2>8
<1> QED
  BY <1>4 DEF LinksInScope, WithinScope

LEMMA ScopeStep == CatalogInv /\ LinksInScope /\ [Next]_vars => LinksInScope'
<1> SUFFICES ASSUME CatalogInv, LinksInScope, [Next]_vars PROVE LinksInScope'
  OBVIOUS
<1>1. TypeParts
  BY TypeInParts DEF CatalogInv
<1>2. ASSUME UNCHANGED <<categories, tags, items, item_tags>> PROVE LinksInScope'
  BY <1>2, ScopeGrows
<1>3. ASSUME NEW s \in Sessions, TagsAdded(s), ItemsAdded(s), item_tags' = item_tags,
             UNCHANGED categories
      PROVE  LinksInScope'
  BY <1>1, <1>3, ScopeGrows
     DEF TypeParts, LinksType, TagsAdded, ItemsAdded
<1>4. ASSUME NEW s \in Sessions, NEW path, NEW found, NEW upto, NEW first, NEW p,
             PathInserted(s, path, found, upto, first, p),
             UNCHANGED <<tags, items, item_tags>>
      PROVE  LinksInScope'
  <2>1. PathGrown(s, path, found, upto, first, p)
    BY <1>1, <1>4, InsertedRows DEF TypeParts
  <2>2. \A c \in DOMAIN categories :
           c \in DOMAIN categories' /\ categories'[c] = categories[c]
    BY <2>1 DEF PathGrown
  <2> QED
    BY <1>4, <2>2, ScopeGrows
<1>5. CASE UNCHANGED vars
  BY <1>2, <1>5 DEF vars
<1>6. ASSUME NEW s \in Sessions,
             OpenSession(s) \/ FreezeOrRestore(s) \/ CommitSession(s)
      PROVE  LinksInScope'
  BY <1>2, <1>6 DEF OpenSession, FreezeOrRestore, CommitSession
<1>7. ASSUME NEW s \in Sessions, RollbackSession(s) PROVE LinksInScope'
  BY <1>7, ScopeRollback
<1>8. ASSUME NEW s \in Sessions, NEW path \in Paths, EnsureCategoryPath(s, path)
      PROVE  LinksInScope'
  BY <1>4, <1>8, EnsurePathInserts DEF EnsureCategoryPath
<1>9. ASSUME NEW s \in Sessions, NEW path \in Paths, CrashInPath(s, path)
      PROVE  LinksInScope'
  BY <1>4, <1>9, CrashInserts DEF CrashInPath
<1>10. ASSUME NEW s \in Sessions, NEW name \in TagNames, NEW scope,
              EnsureTag(s, name, scope)
       PROVE  LinksInScope'
  BY <1>3, <1>10, EnsureTagAdds DEF EnsureTag
<1>11. ASSUME NEW s \in Sessions, NEW barcode \in Barcodes, ScanNewItem(s, barcode)
       PROVE  LinksInScope'
  BY <1>1, <1>3, <1>11, ScanNewItemAdds DEF ScanNewItem, TypeParts
<1> QED
  BY <1>5, <1>6, <1>7, <1>8, <1>9, <1>10, <1>11, ScopeCreate DEF Next

(* An item never carries a tag outside the tag's scope (LinksInScope of the *)
(* run): create_item refuses such a tag before it writes, a tag that exists *)
(* keeps its scope, and a rollback leaves what lies between the item of an  *)
(* earlier session and the scope of its tags.                               *)
THEOREM ScopeCorrect == Spec => []LinksInScope
<1>1. CatalogInv /\ LinksInScope /\ [Next]_vars => (CatalogInv /\ LinksInScope)'
  BY CatalogStep, ScopeStep
<1> QED
  BY CatalogInit, ScopeInit, <1>1, CatalogInvariant, PTL DEF Spec

-----------------------------------------------------------------------------
(* The answer of ensure_category_path.                                      *)

SiblingsDiffer ==
    \A c, d \in DOMAIN categories :
        /\ categories[c].parent = categories[d].parent
        /\ categories[c].name = categories[d].name
        => c = d

LastAnswer ==
    answer.call = "path" =>
        \E p \in Chains(Len(answer.path)) :
            /\ p[0] = None /\ p[Len(answer.path)] = answer.id
            /\ \A k \in 1 .. Len(answer.path) :
                  categories[p[k]].name = answer.path[k]

LEMMA AnswerInParts == PathAnswered <=> LastAnswer /\ SiblingsDiffer
BY Zenon DEF PathAnswered, LastAnswer, SiblingsDiffer

LEMMA AnswerInPartsNext == PathAnswered' <=> LastAnswer' /\ SiblingsDiffer'
BY Zenon DEF PathAnswered, LastAnswer, SiblingsDiffer

LEMMA SiblingsGrown ==
    ASSUME CatalogInv, SiblingsDiffer, NEW s \in Sessions,
           NEW path, NEW found, NEW upto, NEW first, NEW p,
           PathInserted(s, path, found, upto, first, p)
    PROVE  SiblingsDiffer'
<1> DEFINE last == LastOf(found, upto, first)
<1>1. CategoriesType
  BY TypeInParts DEF CatalogInv, TypeParts
<1>2. PathGrown(s, path, found, upto, first, p)
  BY <1>1, InsertedRows
<1>3. /\ found \in Nat /\ upto \in Nat /\ first \in Nat \ {0} /\ last \in Nat
      /\ upto <= Len(path) /\ Len(path) \in Nat
      /\ DOMAIN categories' = DOMAIN categories \cup first .. last
      /\ \A c \in DOMAIN categories : c < first /\ categories'[c] = categories[c]
      /\ p[found] \in DOMAIN categories \cup {None}
      /\ \A c \in first .. last :
            /\ categories'[c].parent = IF c = first THEN p[found] ELSE c - 1
            /\ categories'[c].name = path[found + 1 + (c - first)]
  BY <1>2 DEF PathGrown
<1>4. \A c \in DOMAIN categories :
         /\ c \in Nat \ {0} /\ categories[c].parent \in DOMAIN categories \cup {None}
  BY <1>1, NoneIsNoId DEF CategoriesType, Ids
(* The first segment that was not there has no sibling of its name.         *)
<1>5. ASSUME first <= last, NEW c \in DOMAIN categories,
             categories[c].parent = p[found]
      PROVE  categories[c].name # categories'[first].name
  <2>1. found < Len(path)
    BY <1>3, <1>5 DEF LastOf
  <2>2. Segment(p[found], path[found + 1]) = {}
    BY <2>1 DEF PathInserted, Follows
  <2>3. first \in first .. last
    BY <1>3, <1>5
  <2>4. categories'[first].name = path[found + 1]
    <3>1. found + 1 + (first - first) = found + 1
      BY <1>3
    <3> QED
      BY <1>3, <2>3, <3>1
  <2> QED
    BY <1>5, <2>2, <2>4 DEF Segment
<1> HIDE DEF last
<1>6. ASSUME NEW c \in DOMAIN categories', NEW d \in DOMAIN categories',
             c \in first .. last,
             categories'[c].parent = categories'[d].parent,
             categories'[c].name = categories'[d].name
      PROVE  c = d
  <2>1. c \in Nat /\ first <= c /\ c <= last /\ first <= last
    BY <1>3, <1>6
  <2>2. CASE c = first /\ d \in DOMAIN categories
    BY <1>3, <1>5, <1>6, <2>1, <2>2
  <2>3. CASE c # first /\ d \in DOMAIN categories
    <3>1. categories'[d].parent = c - 1 /\ c - 1 \in Nat /\ c - 1 >= first
      BY <1>3, <1>6, <2>1, <2>3
    <3>2. categories[d].parent = c - 1
      BY <1>3, <2>3, <3>1
    <3>3. c - 1 \in DOMAIN categories \/ c - 1 = 0
      BY <1>4, <2>3, <3>2 DEF None
    <3> QED
      BY <1>3, <3>1, <3>3
  <2>4. CASE d \in first .. last
    <3>1. ASSUME NEW e \in first .. last
          PROVE  /\ e \in Int
                 /\ e = first => categories'[e].parent = p[found]
                 /\ e # first => categories'[e].parent = e - 1 /\ e - 1 >= first
      BY <1>3
    <3>2. p[found] < first /\ p[found] \in Int
      BY <1>3, <1>4 DEF None
    <3>3. CASE c = first
      BY <1>3, <1>6, <2>4, <3>1, <3>2, <3>3
    <3>4. CASE d = first
      BY <1>3, <1>6, <2>4, <3>1, <3>2, <3>4
    <3>5. CASE c # first /\ d # first
      BY <1>3, <1>6, <2>4, <3>1, <3>5
    <3> QED
      BY <3>3, <3>4, <3>5
  <2> QED
    BY <1>3, <2>2, <2>3, <2>4
<1>7. ASSUME NEW c \in DOMAIN categories, NEW d \in DOMAIN categories,
             categories'[c].parent = categories'[d].parent,
             categories'[c].name = categories'[d].name
      PROVE  c = d
  BY <1>3, <1>7 DEF SiblingsDiffer
<1> QED
  BY <1>3, <1>6, <1>7 DEF SiblingsDiffer

LEMMA PathAnswerStep ==
    ASSUME CatalogInv, NEW s \in Sessions, NEW path \in Paths,
           EnsureCategoryPath(s, path)
    PROVE  LastAnswer'
<1>1. CategoriesType
  BY TypeInParts DEF CatalogInv, TypeParts
<1>2. PICK found, first, p :
         /\ PathInserted(s, path, found, Len(path), first, p)
         /\ answer' = [call |-> "path", path |-> path,
                       id |-> IF found = Len(path) THEN p[found]
                              ELSE first + (Len(path) - found) - 1]
  BY EnsurePathInserts
<1> DEFINE n == Len(path)
           last == LastOf(found, n, first)
           q == [k \in 0 .. n |-> IF k <= found THEN p[k] ELSE first + (k - found) - 1]
<1>3. PathGrown(s, path, found, n, first, p)
  BY <1>1, <1>2, InsertedRows
<1>4. /\ found \in Nat /\ n \in Nat /\ first \in Nat \ {0} /\ last \in Nat
      /\ found <= n /\ last <= MaxCategory
      /\ DOMAIN categories' = DOMAIN categories \cup first .. last
      /\ \A c \in DOMAIN categories : c < first /\ categories'[c] = categories[c]
      /\ \A c \in first .. last :
            /\ categories'[c].parent = IF c = first THEN p[found] ELSE c - 1
            /\ categories'[c].name = path[found + 1 + (c - first)]
  BY <1>3 DEF PathGrown
<1>5. /\ p \in [0 .. found -> Ids \cup {None}] /\ p[0] = None
      /\ \A k \in 1 .. found : p[k] \in Segment(p[k - 1], path[k])
  BY <1>2 DEF PathInserted, Follows
<1>6. answer'.call = "path" /\ answer'.path = path
      /\ answer'.id = IF found = n THEN p[found] ELSE first + (n - found) - 1
  BY <1>2
<1>7. ASSUME NEW k \in 1 .. n, k > found
      PROVE  /\ q[k] = first + (k - found) - 1 /\ q[k] \in first .. last
             /\ q[k - 1] = IF q[k] = first THEN p[found] ELSE q[k] - 1
             /\ found + 1 + (q[k] - first) = k
  <2>1. q[k] = first + (k - found) - 1 /\ q[k] \in first .. last
    BY <1>4, <1>7 DEF LastOf
  <2>2. found + 1 + (q[k] - first) = k
    BY <1>4, <2>1
  <2>3. k - 1 \in 0 .. n
    BY <1>4
  <2>4. CASE k - 1 <= found
    <3>1. k - 1 = found /\ q[k] = first
      BY <1>4, <1>7, <2>1, <2>4
    <3> QED
      BY <1>4, <2>1, <2>2, <2>3, <3>1
  <2>5. CASE ~(k - 1 <= found)
    BY <1>4, <2>1, <2>2, <2>3, <2>5
  <2> QED
    BY <2>4, <2>5
<1>8. ASSUME NEW k \in 1 .. n
      PROVE  /\ q[k] \in DOMAIN categories'
             /\ categories'[q[k]].parent = q[k - 1]
             /\ categories'[q[k]].name = path[k]
  <2>1. CASE k <= found
    <3>1. k \in 1 .. found /\ k - 1 \in 0 .. n /\ k - 1 <= found
      BY <1>4, <2>1
    <3>2. q[k] = p[k] /\ q[k - 1] = p[k - 1]
      BY <1>4, <2>1, <3>1
    <3>3. /\ p[k] \in DOMAIN categories /\ categories[p[k]].parent = p[k - 1]
          /\ categories[p[k]].name = path[k]
      BY <1>5, <3>1 DEF Segment
    <3> QED
      BY <1>4, <3>2, <3>3
  <2>2. CASE k > found
    <3> HIDE DEF q
    <3>1. /\ q[k] \in first .. last
          /\ q[k - 1] = IF q[k] = first THEN p[found] ELSE q[k] - 1
          /\ found + 1 + (q[k] - first) = k
      BY <1>7, <2>2
    <3>2. categories'[q[k]].name = path[k]
      BY <1>4, <3>1
    <3> QED
      BY <1>4, <3>1, <3>2
  <2> QED
    BY <1>4, <2>1, <2>2
<1>9. q \in [0 .. n -> Ids \cup {None}]
  <2>1. ASSUME NEW k \in 0 .. n
        PROVE  (IF k <= found THEN p[k] ELSE first + (k - found) - 1) \in Ids \cup {None}
    <3>1. CASE k <= found
      BY <1>4, <1>5, <3>1
    <3>2. CASE ~(k <= found)
      BY <1>4, <3>2, CatalogAssumption DEF Ids, LastOf
    <3> QED
      BY <3>1, <3>2
  <2> QED
    BY <2>1
<1>10. q[0] = None /\ q[n] = answer'.id
  BY <1>4, <1>5, <1>6
<1>11. q \in Chains(n)'
  <2> HIDE DEF q
  <2> QED
    BY <1>8, <1>9 DEF Chains
<1> HIDE DEF q
<1> QED
  BY <1>6, <1>8, <1>10, <1>11 DEF LastAnswer

LEMMA AnswerInit == Init => PathAnswered
BY DEF Init, PathAnswered, NoAnswer

LEMMA AnswerStep == CatalogInv /\ PathAnswered /\ [Next]_vars => PathAnswered'
<1> SUFFICES ASSUME CatalogInv, LastAnswer, SiblingsDiffer, [Next]_vars
             PROVE  LastAnswer' /\ SiblingsDiffer'
  BY AnswerInParts, AnswerInPartsNext
<1>1. ASSUME UNCHANGED categories PROVE SiblingsDiffer'
  BY <1>1 DEF SiblingsDiffer
<1>2. ASSUME answer'.call # "path" PROVE LastAnswer'
  BY <1>2 DEF LastAnswer
<1>3. NoAnswer.call # "path"
  BY DEF NoAnswer
<1>4. CASE UNCHANGED vars
  BY <1>1, <1>4 DEF vars, LastAnswer, Chains
<1>5. ASSUME NEW s \in Sessions,
             OpenSession(s) \/ FreezeOrRestore(s) \/ CommitSession(s)
      PROVE  LastAnswer' /\ SiblingsDiffer'
  BY <1>1, <1>2, <1>3, <1>5 DEF OpenSession, FreezeOrRestore, CommitSession
<1>6. ASSUME NEW s \in Sessions, RollbackSession(s)
      PROVE  LastAnswer' /\ SiblingsDiffer'
  <2>1. RolledBack(s)
    BY <1>6, RollbackLeaves
  <2>2. SiblingsDiffer'
    BY <2>1 DEF RolledBack, SiblingsDiffer
  <2> QED
    BY <1>2, <1>3, <1>6, <2>2 DEF RollbackSession
<1>7. ASSUME NEW s \in Sessions, NEW path \in Paths, EnsureCategoryPath(s, path)
      PROVE  LastAnswer' /\ SiblingsDiffer'
  BY <1>7, PathAnswerStep, EnsurePathInserts, SiblingsGrown
<1>8. ASSUME NEW s \in Sessions, NEW path \in Paths, CrashInPath(s, path)
      PROVE  LastAnswer' /\ SiblingsDiffer'
  BY <1>2, <1>3, <1>8, CrashInserts, SiblingsGrown DEF CrashInPath
<1>9. ASSUME NEW s \in Sessions, NEW name, NEW scope, EnsureTag(s, name, scope)
      PROVE  LastAnswer' /\ SiblingsDiffer'
  <2>1. answer'.call # "path"
    BY <1>9 DEF EnsureTag
  <2> QED
    BY <1>1, <1>2, <1>9, <2>1 DEF EnsureTag
<1>10. ASSUME NEW s \in Sessions, NEW barcode, NEW category, NEW tagNames,
              \/ CreateItem(s, barcode, category, tagNames)
              \/ CrashInCreateItem(s, barcode, category, tagNames)
              \/ ScanNewItem(s, barcode)
       PROVE  LastAnswer' /\ SiblingsDiffer'
  BY <1>1, <1>2, <1>3, <1>10 DEF CreateItem, CrashInCreateItem, ScanNewItem
<1> QED
  BY <1>4, <1>5, <1>6, <1>7, <1>8, <1>9, <1>10 DEF Next

(* The id that ensure_category_path answers is that of the category whose   *)
(* path from the top is the one asked for, and no two siblings share a name *)
(* (PathAnswered of the run): the segments that are there are followed and  *)
(* what is inserted continues them, calls cut short by a crash included.    *)
THEOREM PathCorrect == Spec => []PathAnswered
<1>1. CatalogInv /\ PathAnswered /\ [Next]_vars => (CatalogInv /\ PathAnswered)'
  BY CatalogStep, AnswerStep
<1> QED
  BY CatalogInit, AnswerInit, <1>1, CatalogInvariant, PTL DEF Spec

-----------------------------------------------------------------------------
(* Rollback as a full undo.                                                 *)

DepthOf(depth, table) ==
    /\ depth[None] = 0
    /\ \A c \in DOMAIN table : depth[c] = depth[table[c].parent] + 1

LEMMA ChainDepth ==
    ASSUME NEW depth \in [Ids \cup {None} -> 0 .. MaxPath], DepthOf(depth, categories),
           NEW n \in Nat, NEW p \in Chains(n), NEW k \in 0 .. n
    PROVE  depth[p[k]] = depth[p[0]] + k
<1> DEFINE wrong == {j \in 0 .. n : depth[p[j]] # depth[p[0]] + j}
<1>1. /\ p \in [0 .. n -> Ids \cup {None}]
      /\ \A j \in 1 .. n : /\ p[j] \in DOMAIN categories
                            /\ categories[p[j]].parent = p[j - 1]
  BY DEF Chains
<1>2. \A j \in 0 .. n : depth[p[j]] \in Int
  BY <1>1, CatalogAssumption
<1>3. wrong = {}
  <2> SUFFICES ASSUME wrong # {} PROVE FALSE
    OBVIOUS
  <2>1. wrong \in SUBSET Nat
    OBVIOUS
  <2>2. PICK j \in wrong : \A m \in wrong : j <= m
    <3> HIDE DEF wrong
    <3> QED
      BY <2>1, LeastNat
  <2>3. j # 0 /\ j \in 1 .. n
    BY <1>2, <2>2
  <2>4. depth[p[j - 1]] = depth[p[0]] + (j - 1)
    BY <2>2, <2>3
  <2>5. depth[p[j]] = depth[p[j - 1]] + 1
    BY <1>1, <2>3 DEF DepthOf
  <2> QED
    BY <1>2, <2>2, <2>3, <2>4, <2>5
<1> QED
  BY <1>3

LEMMA ShallowPath ==
    ASSUME CatalogInv, Shallow, NEW s \in Sessions, NEW path, NEW found, NEW upto,
           NEW first, NEW p, PathInserted(s, path, found, upto, first, p)
    PROVE  Shallow'
<1>1. CategoriesType
  BY TypeInParts DEF CatalogInv, TypeParts
<1>2. PathGrown(s, path, found, upto, first, p)
  BY <1>1, InsertedRows
<1> DEFINE last == LastOf(found, upto, first)
<1>3. /\ found \in Nat /\ upto \in Nat /\ first \in Nat \ {0} /\ last \in Nat
      /\ upto <= Len(path) /\ Len(path) \in Nat /\ last <= MaxCategory
      /\ DOMAIN categories' = DOMAIN categories \cup first .. last
      /\ \A c \in DOMAIN categories : c < first /\ categories'[c] = categories[c]
      /\ p[found] \in DOMAIN categories \cup {None}
      /\ \A c \in first .. last :
            categories'[c].parent = IF c = first THEN p[found] ELSE c - 1
  BY <1>2 DEF PathGrown
<1>4. Len(path) <= MaxPath
  BY PathType DEF PathInserted
<1>5. PICK depth \in [Ids \cup {None} -> 0 .. MaxPath] : DepthOf(depth, categories)
  BY DEF Shallow, DepthOf
<1>6. p \in Chains(found)
  BY DEF PathInserted, Follows, Segment, Chains
<1>7. depth[p[found]] = found
  <2>1. p[0] = None /\ found \in 0 .. found
    BY <1>3 DEF PathInserted, Follows
  <2>2. depth[p[found]] = depth[p[0]] + found
    BY <1>3, <1>5, <1>6, <2>1, ChainDepth
  <2> QED
    BY <1>3, <1>5, <2>1, <2>2 DEF DepthOf
<1> DEFINE deeper == [c \in Ids \cup {None} |->
                        IF c \in first .. last THEN found + 1 + (c - first)
                        ELSE depth[c]]
<1>8. deeper \in [Ids \cup {None} -> 0 .. MaxPath]
  <2>1. ASSUME NEW c \in first .. last
        PROVE  found + 1 + (c - first) \in 0 .. MaxPath
    BY <1>3, <1>4, CatalogAssumption DEF LastOf
  <2> HIDE DEF last
  <2> QED
    BY <1>5, <2>1
<1>9. \A c \in DOMAIN categories \cup {None} :
         /\ c \in Ids \cup {None} /\ c \notin first .. last
         /\ deeper[c] = depth[c]
  <2>1. \A c \in DOMAIN categories \cup {None} :
           c \in Ids \cup {None} /\ c \notin first .. last
    BY <1>1, <1>3 DEF CategoriesType, None
  <2> HIDE DEF last
  <2> QED
    BY <2>1
<1>10. \A c \in first .. last : c \in Ids /\ deeper[c] = found + 1 + (c - first)
  <2>1. \A c \in first .. last : c \in Ids
    BY <1>3, CatalogAssumption DEF Ids
  <2> QED
    BY <2>1
<1> HIDE DEF deeper, last
<1>11. ASSUME NEW c \in DOMAIN categories'
       PROVE  deeper[c] = deeper[categories'[c].parent] + 1
  <2>1. CASE c \in DOMAIN categories
    <3>1. categories'[c].parent = categories[c].parent
          /\ categories[c].parent \in DOMAIN categories \cup {None}
      BY <1>1, <1>3, <2>1 DEF CategoriesType
    <3>2. deeper[c] = depth[c]
          /\ deeper[categories[c].parent] = depth[categories[c].parent]
      BY <1>9, <2>1, <3>1
    <3>3. depth[c] = depth[categories[c].parent] + 1
      BY <1>5, <2>1 DEF DepthOf
    <3> QED
      BY <3>1, <3>2, <3>3
  <2>2. CASE c = first /\ c \in first .. last
    <3>1. deeper[c] = found + 1 /\ deeper[p[found]] = found
      BY <1>3, <1>7, <1>9, <1>10, <2>2
    <3> QED
      BY <1>3, <2>2, <3>1
  <2>3. CASE c # first /\ c \in first .. last
    <3>1. c - 1 \in first .. last /\ c \in Int
      BY <1>3, <2>3
    <3>2. deeper[c - 1] = found + 1 + ((c - 1) - first)
          /\ deeper[c] = found + 1 + (c - first)
          /\ categories'[c].parent = c - 1
      BY <1>3, <1>10, <2>3, <3>1
    <3>3. found \in Int /\ first \in Int /\ c \in Int
      BY <1>3, <3>1
    <3>4. found + 1 + (c - first) = (found + 1 + ((c - 1) - first)) + 1
      BY <3>3
    <3> QED
      BY <3>2, <3>4
  <2> QED
    BY <1>3, <2>1, <2>2, <2>3
<1>12. deeper[None] = 0
  BY <1>5, <1>9 DEF DepthOf
<1> QED
  BY <1>8, <1>11, <1>12 DEF Shallow

LEMMA ShallowSubset ==
    ASSUME Shallow, DOMAIN categories' \subseteq DOMAIN categories,
           \A c \in DOMAIN categories' : categories'[c] = categories[c]
    PROVE  Shallow'
BY DEF Shallow

LEMMA ShallowStep == CatalogInv /\ Shallow /\ [Next]_vars => Shallow'
<1> SUFFICES ASSUME CatalogInv, Shallow, [Next]_vars PROVE Shallow'
  OBVIOUS
<1>1. CASE UNCHANGED categories
  BY <1>1 DEF Shallow
<1>2. ASSUME NEW s \in Sessions, RollbackSession(s) PROVE Shallow'
  BY <1>2, RollbackLeaves, ShallowSubset DEF RolledBack
<1>3. ASSUME NEW s \in Sessions, NEW path \in Paths,
             EnsureCategoryPath(s, path) \/ CrashInPath(s, path)
      PROVE  Shallow'
  BY <1>3, EnsurePathInserts, CrashInserts, ShallowPath
<1> QED
  BY <1>1, <1>2, <1>3 DEF Next, vars, OpenSession, FreezeOrRestore, CommitSession,
     EnsureTag, CreateItem, CrashInCreateItem, ScanNewItem

LEMMA ShallowInit == Init => Shallow
<1> SUFFICES ASSUME Init PROVE Shallow
  OBVIOUS
<1> DEFINE depth == [c \in Ids \cup {None} |-> 0]
<1>1. depth \in [Ids \cup {None} -> 0 .. MaxPath] /\ depth[None] = 0
  BY CatalogAssumption
<1>2. DOMAIN categories = {}
  BY DEF Init
<1> HIDE DEF depth
<1> QED
  BY <1>1, <1>2 DEF Shallow

LEMMA UndoneStep ==
    ASSUME MaxPath <= DepthGuard, CatalogInv, Shallow, NoTraceOfRolledBack,
           [Next]_vars
    PROVE  NoTraceOfRolledBack'
<1>0. TypeParts
  BY TypeInParts DEF CatalogInv
<1>1. SUFFICES ASSUME NEW u \in Sessions, work_sessions'[u] = "rolled_back"
      PROVE  /\ CreatedIn(categories, u)' = {}
             /\ CreatedIn(tags, u)' = {}
             /\ CreatedIn(items, u)' = {}
  BY DEF NoTraceOfRolledBack
<1>2. ASSUME work_sessions[u] = "rolled_back",
             \A c \in DOMAIN categories' :
                \/ c \in DOMAIN categories /\ categories'[c] = categories[c]
                \/ categories'[c].ws # u,
             \A t \in DOMAIN tags' :
                \/ t \in DOMAIN tags /\ tags'[t] = tags[t]
                \/ tags'[t].ws # u,
             \A i \in DOMAIN items' :
                \/ i \in DOMAIN items /\ items'[i] = items[i]
                \/ items'[i].ws # u
      PROVE  /\ CreatedIn(categories, u)' = {}
             /\ CreatedIn(tags, u)' = {}
             /\ CreatedIn(items, u)' = {}
  BY <1>2 DEF NoTraceOfRolledBack, CreatedIn
<1>3. ASSUME UNCHANGED <<categories, tags, items>>, work_sessions[u] = "rolled_back"
      PROVE  /\ CreatedIn(categories, u)' = {}
             /\ CreatedIn(tags, u)' = {}
             /\ CreatedIn(items, u)' = {}
  BY <1>2, <1>3
<1>4. CASE UNCHANGED vars
  BY <1>1, <1>3, <1>4 DEF vars
<1>5. ASSUME NEW s \in Sessions,
             OpenSession(s) \/ FreezeOrRestore(s) \/ CommitSession(s)
      PROVE  /\ CreatedIn(categories, u)' = {}
             /\ CreatedIn(tags, u)' = {}
             /\ CreatedIn(items, u)' = {}
  <2>1. work_sessions[u] = "rolled_back"
    BY <1>0, <1>1, <1>5 DEF TypeParts, SessionsType, OpenSession, FreezeOrRestore,
       CommitSession
  <2> QED
    BY <1>3, <1>5, <2>1 DEF OpenSession, FreezeOrRestore, CommitSession
<1>6. ASSUME NEW s \in Sessions, RollbackSession(s)
      PROVE  /\ CreatedIn(categories, u)' = {}
             /\ CreatedIn(tags, u)' = {}
             /\ CreatedIn(items, u)' = {}
  <2>1. RolledBack(s)
    BY <1>6, RollbackLeaves
  <2>2. /\ \A c \in DOMAIN categories' :
              c \in DOMAIN categories /\ categories'[c] = categories[c]
        /\ \A t \in DOMAIN tags' :
              t \in DOMAIN tags /\ tags'[t] = tags[t] /\ tags[t].ws # s
        /\ \A i \in DOMAIN items' :
              i \in DOMAIN items /\ items'[i] = items[i] /\ items[i].ws # s
    BY <2>1 DEF RolledBack, KeptRows, CreatedIn
  <2>3. CASE u # s
    <3>1. work_sessions[u] = "rolled_back"
      BY <1>0, <1>1, <1>6, <2>3 DEF TypeParts, SessionsType, RollbackSession
    <3> QED
      BY <1>2, <2>2, <3>1
  <2>4. CASE u = s
    <3>1. ASSUME NEW c \in DOMAIN categories, categories[c].ws = s
          PROVE  c \in Due(s)
      <4>1. DepthGuard \in 1 .. DepthGuard /\ DepthGuard \in Nat
        BY CatalogAssumption
      <4>2. SUFFICES ASSUME c \notin DueBy(s, DepthGuard) PROVE FALSE
        BY <4>1 DEF Due
      <4>3. PICK p \in Chains(DepthGuard) : p[0] = c
        BY <3>1, <4>2 DEF DueBy, CreatedIn
      <4>4. PICK depth \in [Ids \cup {None} -> 0 .. MaxPath] :
                DepthOf(depth, categories)
        BY DEF Shallow, DepthOf
      <4>5. depth[p[DepthGuard]] = depth[c] + DepthGuard
        BY <4>1, <4>3, <4>4, ChainDepth
      <4>6. /\ c \in Ids \cup {None} /\ categories[c].parent \in Ids \cup {None}
            /\ p[DepthGuard] \in Ids \cup {None}
        BY <1>0, <4>1, <4>3 DEF TypeParts, CategoriesType, Chains
      <4>7. depth[c] = depth[categories[c].parent] + 1
        BY <4>4 DEF DepthOf
      <4>8. /\ depth[categories[c].parent] \in 0 .. MaxPath
            /\ depth[p[DepthGuard]] \in 0 .. MaxPath
        BY <4>4, <4>6
      <4> QED
        BY <4>1, <4>5, <4>7, <4>8, CatalogAssumption
    <3>2. \A c \in DOMAIN categories' : categories'[c].ws # s
      BY <2>1, <2>2, <3>1 DEF RolledBack
    <3> QED
      BY <2>2, <2>4, <3>2 DEF CreatedIn
  <2> QED
    BY <2>3, <2>4
<1>7. ASSUME NEW s \in Sessions, OpenIn(s), UNCHANGED work_sessions
      PROVE  u # s /\ work_sessions[u] = "rolled_back"
  BY <1>1, <1>7 DEF OpenIn
<1>8. ASSUME NEW s \in Sessions, NEW path \in Paths,
             EnsureCategoryPath(s, path) \/ CrashInPath(s, path)
      PROVE  /\ CreatedIn(categories, u)' = {}
             /\ CreatedIn(tags, u)' = {}
             /\ CreatedIn(items, u)' = {}
  <2>1. PICK found, upto, first, p : PathInserted(s, path, found, upto, first, p)
    BY <1>8, EnsurePathInserts, CrashInserts
  <2>2. PathGrown(s, path, found, upto, first, p)
    BY <1>0, <2>1, InsertedRows DEF TypeParts
  <2>3. \A c \in DOMAIN categories' :
           \/ c \in DOMAIN categories /\ categories'[c] = categories[c]
           \/ categories'[c].ws = s
    BY <2>2 DEF PathGrown
  <2>4. OpenIn(s) /\ UNCHANGED <<work_sessions, tags, items>>
    BY <1>8 DEF EnsureCategoryPath, CrashInPath
  <2> QED
    BY <1>2, <1>7, <2>3, <2>4
<1>9. ASSUME NEW s \in Sessions, OpenIn(s), TagsAdded(s), ItemsAdded(s),
             UNCHANGED <<work_sessions, categories>>
      PROVE  /\ CreatedIn(categories, u)' = {}
             /\ CreatedIn(tags, u)' = {}
             /\ CreatedIn(items, u)' = {}
  <2>1. \A t \in DOMAIN tags' :
           \/ t \in DOMAIN tags /\ tags'[t] = tags[t]
           \/ tags'[t].ws = s
    BY <1>9 DEF TagsAdded
  <2>2. \A i \in DOMAIN items' :
           \/ i \in DOMAIN items /\ items'[i] = items[i]
           \/ items'[i].ws = s
    BY <1>9 DEF ItemsAdded
  <2> QED
    BY <1>2, <1>7, <1>9, <2>1, <2>2
<1>10. ASSUME NEW s \in Sessions, NEW name \in TagNames, NEW scope,
              EnsureTag(s, name, scope)
       PROVE  /\ CreatedIn(categories, u)' = {}
              /\ CreatedIn(tags, u)' = {}
              /\ CreatedIn(items, u)' = {}
  BY <1>9, <1>10, EnsureTagAdds DEF EnsureTag
<1>11. ASSUME NEW s \in Sessions, NEW barcode \in Barcodes \cup {NoBarcode},
              NEW category, NEW tagNames \in SUBSET TagNames,
              \/ CreateItem(s, barcode, category, tagNames)
              \/ CrashInCreateItem(s, barcode, category, tagNames)
       PROVE  /\ CreatedIn(categories, u)' = {}
              /\ CreatedIn(tags, u)' = {}
              /\ CreatedIn(items, u)' = {}
  BY <1>0, <1>9, <1>11, CreateItemAdds DEF CreateItem, CrashInCreateItem, TypeParts
<1>12. ASSUME NEW s \in Sessions, NEW barcode \in Barcodes, ScanNewItem(s, barcode)
       PROVE  /\ CreatedIn(categories, u)' = {}
              /\ CreatedIn(tags, u)' = {}
              /\ CreatedIn(items, u)' = {}
  BY <1>0, <1>9, <1>12, ScanNewItemAdds DEF ScanNewItem, TypeParts
<1> QED
  BY <1>4, <1>5, <1>6, <1>8, <1>10, <1>11, <1>12 DEF Next

LEMMA UndoneInit == Init => NoTraceOfRolledBack
BY DEF Init, NoTraceOfRolledBack

(* As long as no path is deeper than the rounds of deletes (64 in the       *)
(* code), rollback is a full undo of the catalog: a session that was rolled *)
(* back has left no category, tag or item, finished or cut short            *)
(* (NoTraceOfRolledBack of the run).                                        *)
THEOREM UndoneCorrect ==
    ASSUME MaxPath <= DepthGuard
    PROVE  Spec => []NoTraceOfRolledBack
<1> DEFINE Inv == CatalogInv /\ Shallow /\ NoTraceOfRolledBack
<1>1. Init => Inv
  BY CatalogInit, ShallowInit, UndoneInit
<1>2. Inv /\ [Next]_vars => Inv'
  BY CatalogStep, ShallowStep, UndoneStep
<1>3. Inv => NoTraceOfRolledBack
  OBVIOUS
<1> HIDE DEF Inv
<1> QED
  BY <1>1, <1>2, <1>3, PTL DEF Spec

=============================================================================
