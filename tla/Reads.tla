---------------------------------- MODULE Reads ----------------------------------
(***************************************************************************)
(* Requests that read by several statements and write nothing: the         *)
(* hierarchy of a composite object, a page of objects, the search of       *)
(* objects by name and the search of the index.                            *)
(*                                                                         *)
(* No transaction is begun for them, so each statement sees what is        *)
(* committed when it starts, and other requests commit in between.  One    *)
(* reader is enough: readers change nothing another reader sees.  What a   *)
(* query may return is bracketed between what held throughout the request  *)
(* and what held at some moment of it.                                     *)
(*                                                                         *)
(* The statements return, page and count rows.  Of `objects` an item has   *)
(* one row; of `searchables` it may have none, or several that match, since *)
(* nothing there is unique.                                                *)
(***************************************************************************)
EXTENDS Integers, FiniteSets

CONSTANTS
    Composites, Leaves, \* ids of composite and of other objects
    Tags,
    Links,              \* pairs <<composite, sub-object>> the table may hold
    FirstObjects, FirstMatching, FirstIndexed, FirstHidden,
    MaxDepth,           \* setting composite_hierarchy_max_depth
    Queries,
    MaxRows,            \* bound: rows of the index for one item
    MaxChanges          \* bound: transactions of others

Objects == Composites \cup Leaves
Items == Objects \cup Tags
Rows == Items \X (1 .. MaxRows)
Routes == {"hierarchy", "page", "search", "global"}
Senders == {"admin", "other"}

\* `root` is the object of a hierarchy, `excluded` the existing_ids of a search; a
\* page skips `first` items and holds `limit`.
Query == [route : Routes, sender : Senders, root : Objects,
          excluded : SUBSET Objects, first : Nat, limit : Nat]

ASSUME ReadsAssumption ==
    /\ Composites \cap Leaves = {} /\ Objects \cap Tags = {}
    /\ IsFiniteSet(Items)
    /\ Links \subseteq Composites \X Objects
    /\ FirstObjects \subseteq Objects
    /\ MaxDepth \in Nat \ {0} /\ MaxRows \in Nat \ {0} /\ MaxChanges \in Nat
    /\ FirstMatching \subseteq FirstObjects /\ FirstHidden \subseteq Items
    /\ FirstIndexed \in [Items -> 0 .. MaxRows]
    /\ \A o \in Objects \ FirstObjects : FirstIndexed[o] = 0
    /\ Queries \subseteq Query
    /\ \A q \in Queries : /\ q.limit > 0 /\ q.first % q.limit = 0
                          /\ q.route = "search" => q.first = 0
                          /\ q.route # "search" => q.excluded = {}

VARIABLES
    (* committed *)
    objects,  \* the objects there are
    unused,   \* ids the sequence has not given out
    links,    \* table composite
    hidden,   \* items not published, of another owner or with an unpublished tag
    matching, \* objects that match the name and the filters of a query
    indexed,  \* of each item, the rows of searchables that match the text of a query
    changes,  \* transactions committed by others
    (* the request *)
    pc, query, answer,
    depth, parents, composite, nonComposite, \* the hierarchy so far
    page, total,                             \* the rows of the page, and their number
    (* history *)
    alwaysLinks, everLinks, \* links that were there throughout, and at some moment
    alwaysRows, everRows    \* the same for the rows the query asks for

storeVars == <<objects, unused, links, hidden, matching, indexed, changes>>
hierarchyVars == <<depth, parents, composite, nonComposite>>
pageVars == <<page, total>>
historyVars == <<alwaysLinks, everLinks, alwaysRows, everRows>>
vars == <<storeVars, pc, query, answer, hierarchyVars, pageVars, historyVars>>

NoQuery == [route |-> "page", sender |-> "other", root |-> CHOOSE o \in Objects : TRUE,
            excluded |-> {}, first |-> 0, limit |-> 1]

TypeOK ==
    /\ objects \in SUBSET Objects /\ unused \in SUBSET Objects /\ objects \cap unused = {}
    /\ links \in SUBSET {l \in Links : {l[1], l[2]} \subseteq objects}
    /\ hidden \in SUBSET Items /\ matching \in SUBSET objects
    /\ indexed \in [Items -> 0 .. MaxRows] /\ \A o \in Objects \ objects : indexed[o] = 0
    /\ changes \in 0 .. MaxChanges
    /\ pc \in {"new", "root", "descend", "ids", "count", "done"}
    /\ query \in Queries \cup {NoQuery}
    /\ answer \in {0, 200, 400, 404}
    /\ depth \in Nat \ {0}
    /\ parents \in SUBSET composite /\ composite \in SUBSET Composites
    /\ nonComposite \in SUBSET Leaves
    /\ page \in SUBSET Rows /\ total \in Nat
    /\ alwaysLinks \in SUBSET links /\ links \in SUBSET everLinks /\ everLinks \in SUBSET Links
    /\ alwaysRows \in SUBSET everRows /\ everRows \in SUBSET Rows

Init ==
    /\ objects = FirstObjects /\ unused = Objects \ FirstObjects
    /\ links \in SUBSET {l \in Links : {l[1], l[2]} \subseteq FirstObjects}
    /\ hidden = FirstHidden /\ matching = FirstMatching /\ indexed = FirstIndexed
    /\ changes = 0
    /\ pc = "new" /\ query = NoQuery /\ answer = 0
    /\ depth = 1 /\ parents = {} /\ composite = {} /\ nonComposite = {}
    /\ page = {} /\ total = 0
    /\ alwaysLinks = links /\ everLinks = links
    /\ alwaysRows = {} /\ everRows = {}

-----------------------------------------------------------------------------
(* What a query asks for. *)

\* The auth filters of objects and of tags.
Visible(sender) == IF sender = "admin" THEN Items ELSE Items \ hidden

\* The one row that an object has in its table.
OneRow(S) == S \X {1}

\* The rows a route looks for, those it does not show included.
Candidates(q) ==
    CASE q.route = "hierarchy" -> OneRow(objects \cap {q.root})
      [] q.route = "page" -> OneRow(matching)
      [] q.route = "search" -> OneRow(matching \ q.excluded)
      [] q.route = "global" -> {row \in Rows : row[2] <= indexed[row[1]]}

Wanted(q) == {row \in Candidates(q) : row[1] \in Visible(q.sender)}

\* Mutant: the count forgets the auth filter.
CountedForAll(q) == Cardinality(Candidates(q))

\* SELECT count(*), with the filters of the page: rows are counted.
Counted(q) == Cardinality(Wanted(q))

\* The size of a page when there are n rows.
PageSize(q, n) == IF n <= q.first THEN 0 ELSE IF n - q.first < q.limit THEN n - q.first ELSE q.limit

\* ORDER BY, LIMIT and OFFSET: the keys of the order are left out, so any part of the
\* right size may be the page.
PagesOf(q, S) == {p \in SUBSET S : Cardinality(p) = PageSize(q, Cardinality(S))}

-----------------------------------------------------------------------------
(* The request. *)

Start ==
    /\ pc = "new"
    /\ \E q \in Queries :
         /\ query' = q
         /\ pc' = IF q.route = "hierarchy" THEN "root" ELSE "ids"
         /\ alwaysRows' = Wanted(q) /\ everRows' = Wanted(q)
    /\ alwaysLinks' = links /\ everLinks' = links
    /\ UNCHANGED <<storeVars, answer, hierarchyVars, pageVars>>

Answer(code) == pc' = "done" /\ answer' = code

\* The composites to read next: those not yet in the hierarchy.
NextParents(new) == new \ composite

\* Mutant: one level too many.
MoreLevels(ps, d) == ps # {} /\ d <= MaxDepth

\* The loop goes on?
MoreToRead(ps, d) == ps # {} /\ d < MaxDepth

\* First statement: the object, if its sender may see it.
ReadRoot ==
    /\ pc = "root"
    /\ IF <<query.root, 1>> \notin Wanted(query)
       THEN Answer(404) /\ UNCHANGED hierarchyVars
       ELSE IF query.root \notin Composites
       THEN Answer(400) /\ UNCHANGED hierarchyVars
       ELSE /\ parents' = {query.root} /\ composite' = {query.root}
            /\ IF MoreToRead(parents', depth) THEN pc' = "descend" /\ UNCHANGED answer ELSE Answer(200)
            /\ UNCHANGED <<depth, nonComposite>>
    /\ UNCHANGED <<storeVars, query, pageVars, historyVars>>

\* One statement for each level: the sub-objects of the last composites found,
\* whoever may see them.
Descend ==
    /\ pc = "descend"
    /\ LET new == {l[2] : l \in {k \in links : k[1] \in parents}}
       IN /\ nonComposite' = nonComposite \cup (new \ Composites)
          /\ parents' = NextParents(new \cap Composites)
          /\ composite' = composite \cup parents'
    /\ depth' = depth + 1
    /\ IF MoreToRead(parents', depth') THEN UNCHANGED <<pc, answer>> ELSE Answer(200)
    /\ UNCHANGED <<storeVars, query, pageVars, historyVars>>

\* The rows of a page, or of a search; an empty page of objects is refused at once, one
\* of the index after the count.
ReadIds ==
    /\ pc = "ids"
    /\ page' \in PagesOf(query, Wanted(query))
    /\ IF page' = {} /\ query.route # "global" THEN Answer(404)
       ELSE IF query.route = "search" THEN Answer(200)
       ELSE pc' = "count" /\ UNCHANGED answer
    /\ UNCHANGED <<storeVars, query, total, hierarchyVars, historyVars>>

Count ==
    /\ pc = "count"
    /\ total' = Counted(query)
    /\ Answer(IF page = {} THEN 404 ELSE 200)
    /\ UNCHANGED <<storeVars, query, page, hierarchyVars, historyVars>>

Read == ReadRoot \/ Descend \/ ReadIds \/ Count

-----------------------------------------------------------------------------
(* Transactions of other requests, as they commit. *)

\* The history follows what is committed while the request runs.
Commits ==
    /\ changes < MaxChanges /\ changes' = changes + 1
    /\ UNCHANGED <<pc, query, answer, hierarchyVars, pageVars>>
    /\ alwaysLinks' = alwaysLinks \cap links' /\ everLinks' = everLinks \cup links'
    /\ alwaysRows' = alwaysRows \cap Wanted(query)'
    /\ everRows' = IF pc = "new" THEN everRows ELSE everRows \cup Wanted(query)'

\* /objects/add and /objects/bulk_upsert: the new object may be linked at once.
AddObject(o) ==
    /\ o \in unused /\ unused' = unused \ {o}
    /\ objects' = objects \cup {o}
    /\ \E ls \in SUBSET {l \in Links : l[2] = o /\ l[1] \in objects} : links' = links \cup ls
    /\ matching' = matching \cup {o}
    /\ UNCHANGED <<hidden, indexed>>
    /\ Commits

\* /objects/update and bulk_upsert of a composite: its rows are replaced.
Relink(c) ==
    /\ c \in objects
    /\ \E ls \in SUBSET {l \in Links : l[1] = c /\ l[2] \in objects} :
         links' = ls \cup {l \in links : l[1] # c}
    /\ links' # links
    /\ UNCHANGED <<objects, unused, hidden, matching, indexed>>
    /\ Commits

\* ON DELETE CASCADE of both foreign keys of composite.
LinksWithout(o) == {l \in links : o \notin {l[1], l[2]}}

\* /objects/delete and bulk_upsert: links and index rows go with the object.
DeleteObject(o) ==
    /\ o \in objects
    /\ objects' = objects \ {o}
    /\ links' = LinksWithout(o)
    /\ matching' = matching \ {o}
    /\ indexed' = [indexed EXCEPT ![o] = 0]
    /\ UNCHANGED <<unused, hidden>>
    /\ Commits

\* An update of an item's name, type of display, publication, owner or tags.
ChangeItem(i) ==
    /\ i \in objects \cup Tags
    /\ matching' \in {matching \cup ({i} \cap Objects), matching \ {i}}
    /\ hidden' \in {hidden \cup {i}, hidden \ {i}}
    /\ UNCHANGED <<objects, unused, links, indexed>>
    /\ Commits

\* A task or the job has rewritten the rows of an item: with another text, or with a
\* second row that an overlapping writer left, or without it.
Reindex(i) ==
    /\ i \in objects \cup Tags
    /\ \E n \in 0 .. MaxRows : indexed' = [indexed EXCEPT ![i] = n]
    /\ UNCHANGED <<objects, unused, links, hidden, matching>>
    /\ Commits

Change ==
    \/ \E o \in Objects : AddObject(o) \/ DeleteObject(o)
    \/ \E c \in Composites : Relink(c)
    \/ \E i \in Items : ChangeItem(i) \/ Reindex(i)

Finished == pc = "done" /\ UNCHANGED vars

Next == Start \/ Read \/ Change \/ Finished

Spec == Init /\ [][Next]_vars

-----------------------------------------------------------------------------
(* Properties. *)

\* The objects at most n links away from o.
Further(ls, S) == S \cup {l[2] : l \in {m \in ls : m[1] \in S}}
Within(ls, o, n) ==
    LET reach[k \in 0 .. n] == IF k = 0 THEN {o} ELSE Further(ls, reach[k - 1])
    IN reach[n]

Found == composite \cup nonComposite

\* A hierarchy that is answered holds every object that was linked to the root, within
\* the depth of the setting, throughout the request, and only objects that links which
\* existed at some moment of it connect to the root; composites and others are told
\* apart.  (view_composite_hierarchy, cycles and changes between levels included.)
\* A refusal means that the sender could not see the root at some moment, or that the
\* root is no composite.
HierarchyIsBracketed ==
    pc = "done" /\ query.route = "hierarchy" =>
    CASE answer = 200 ->
           /\ Within(alwaysLinks, query.root, MaxDepth - 1) \subseteq Found
           /\ Found \subseteq Within(everLinks, query.root, MaxDepth - 1)
           /\ <<query.root, 1>> \in everRows
      [] answer = 404 -> <<query.root, 1>> \notin alwaysRows
      [] answer = 400 -> query.root \in Leaves

\* A page holds rows that matched, of items that its sender could see, at some moment of
\* the request, as many as it has room for; the total lies between the rows that were
\* there throughout and all those seen; "not found" is never said of a page that was not
\* empty throughout.  Rows are items for the routes that read `objects`; the search of the
\* index shows and counts an item once for each of its rows.
\* (view_page_object_ids, search_objects, get_search_results.)
PagesAreBracketed ==
    pc = "done" /\ query.route # "hierarchy" =>
    /\ page \subseteq everRows
    /\ PageSize(query, Cardinality(alwaysRows)) <= Cardinality(page)
    /\ Cardinality(page) <= PageSize(query, Cardinality(everRows))
    /\ answer = 404 <=> page = {}
    /\ query.route \in {"page", "global"} /\ answer = 200 =>
         Cardinality(alwaysRows) <= total /\ total <= Cardinality(everRows)
=================================================================================
