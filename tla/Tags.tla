---------------------------------- MODULE Tags ----------------------------------
(***************************************************************************)
(* Tags and the tags of objects: the tables `tags` and `objects_tags` and  *)
(* the requests that write and read them, statement by statement.          *)
(*                                                                         *)
(* The database is PostgreSQL at READ COMMITTED: a statement sees what was *)
(* committed when it started and what its own transaction wrote; the rows  *)
(* and index entries a transaction writes are locked until it ends.  Names *)
(* are unique without regard to case, so an INSERT of a name waits for any *)
(* transaction that holds it.  A cycle of waits is broken by PostgreSQL,   *)
(* which aborts one of the transactions.                                   *)
(***************************************************************************)
EXTENDS Integers, FiniteSets

CONSTANTS
    Names,      \* tag names
    Lower,      \* lower(): Names -> Names
    Objects,
    FirstTags,  \* the committed tags at the start: a sequence of rows
    FirstPairs, \* the pairs of objects_tags at the start
    MaxTag,     \* bound: ids the sequence of tags may give out
    Requests,
    Bodies,     \* what a request may ask for
    NoRow, NoTag

TagIds == 1 .. MaxTag
Issuers == {"admin", "user", "anonymous"}
Routes == {"tags_add", "tags_update", "tags_delete", "update_tags", "page", "view", "search"}

\* Routes with the check tags_modify.
ModifyingRoutes == {"tags_add", "tags_update", "tags_delete"}

TagRow == [name : Names, published : BOOLEAN]

\* `ids` are the tags the body names, `names` the added tags that are strings (or the
\* name of the added or updated tag), `objects` what they are added to; `removedIds`
\* and `removedFrom` are the same for what is removed.  A page skips `first` tags and
\* holds `limit`.
Body == [route : Routes, issuer : Issuers, ids : SUBSET TagIds, names : SUBSET Names,
         published : BOOLEAN, objects : SUBSET Objects,
         removedIds : SUBSET TagIds, removedFrom : SUBSET Objects, first : Nat, limit : Nat]

ASSUME TagAssumption ==
    /\ Lower \in [Names -> Names] /\ \A n \in Names : Lower[Lower[n]] = Lower[n]
    /\ NoRow \notin TagRow /\ NoTag \notin TagIds /\ MaxTag \in Nat
    /\ Bodies \subseteq Body
    /\ \A b \in Bodies : b.route \in {"tags_add", "tags_update"} => \E n \in Names : b.names = {n}
    /\ \A b \in Bodies : b.route = "tags_update" => \E t \in TagIds : b.ids = {t}
    /\ \A b \in Bodies : b.route = "page" => b.limit > 0 /\ b.first % b.limit = 0
ASSUME FirstTagsAreUnique ==
    /\ \E k \in 0 .. MaxTag : FirstTags \in [1 .. k -> TagRow]
    /\ \A s, t \in DOMAIN FirstTags : Lower[FirstTags[s].name] = Lower[FirstTags[t].name] => s = t
    /\ FirstPairs \subseteq Objects \X DOMAIN FirstTags

VARIABLES
    (* committed *)
    tags,     \* tag id -> row
    objects,  \* the objects there are
    pairs,    \* table objects_tags
    lastTag,  \* the last id taken from the sequence
    (* requests *)
    pc, body, answer,
    toInsert, \* names add_tags_by_name has still to insert
    found,    \* lower name -> tag id, the map add_tags_by_name returns
    page,     \* ids and count of a page
    (* what its transaction has written *)
    rows,     \* tag id -> row inserted or updated
    added, removed, \* pairs
    (* history *)
    feasible, \* could the request be carried out when it arrived?
    changed   \* tags, objects and pairs that others changed while it ran

tableVars == <<tags, objects, pairs, lastTag>>
localVars == <<toInsert, found, page>>
writeVars == <<rows, added, removed>>
vars == <<tableVars, pc, body, answer, localVars, writeVars, feasible, changed>>

Step == {"new", "insert", "lock", "unique", "lookup", "names", "check_added", "add",
         "check_removed", "remove", "commit", "delete", "page", "count", "view", "search", "done"}
Changes == [tags : SUBSET TagIds, objects : SUBSET Objects, pairs : SUBSET (Objects \X TagIds)]
Nothing == [tags |-> {}, objects |-> {}, pairs |-> {}]
NoBody == [route |-> "view", issuer |-> "anonymous", ids |-> {}, names |-> {}, published |-> TRUE,
           objects |-> {}, removedIds |-> {}, removedFrom |-> {}, first |-> 0, limit |-> 1]

TypeOK ==
    /\ tags \in [TagIds -> TagRow \cup {NoRow}]
    /\ objects \in SUBSET Objects
    /\ pairs \in SUBSET (Objects \X TagIds)
    /\ lastTag \in 0 .. MaxTag
    /\ pc \in [Requests -> Step]
    /\ body \in [Requests -> Body]
    /\ answer \in [Requests -> {0, 200, 400, 401, 403, 404, 500}]
    /\ toInsert \in [Requests -> SUBSET Names]
    /\ found \in [Requests -> [Names -> TagIds \cup {NoTag}]]
    /\ page \in [Requests -> [ids : SUBSET TagIds, total : Nat]]
    /\ rows \in [Requests -> [TagIds -> TagRow \cup {NoRow}]]
    /\ added \in [Requests -> SUBSET (Objects \X TagIds)]
    /\ removed \in [Requests -> SUBSET (Objects \X TagIds)]
    /\ feasible \in [Requests -> BOOLEAN]
    /\ changed \in [Requests -> Changes]

Init ==
    /\ tags = [t \in TagIds |-> IF t \in DOMAIN FirstTags THEN FirstTags[t] ELSE NoRow]
    /\ objects = Objects
    /\ pairs = FirstPairs
    /\ \E k \in 0 .. MaxTag : DOMAIN FirstTags = 1 .. k /\ lastTag = k
    /\ pc = [r \in Requests |-> "new"]
    /\ body = [r \in Requests |-> NoBody]
    /\ answer = [r \in Requests |-> 0]
    /\ toInsert = [r \in Requests |-> {}]
    /\ found = [r \in Requests |-> [n \in Names |-> NoTag]]
    /\ page = [r \in Requests |-> [ids |-> {}, total |-> 0]]
    /\ rows = [r \in Requests |-> [t \in TagIds |-> NoRow]]
    /\ added = [r \in Requests |-> {}]
    /\ removed = [r \in Requests |-> {}]
    /\ feasible = [r \in Requests |-> TRUE]
    /\ changed = [r \in Requests |-> Nothing]

-----------------------------------------------------------------------------
(* Helpers: what a statement of r sees, and what it waits for. *)

Open(r) == pc[r] \notin {"new", "done"}

\* The tags as r sees them.
Seen(r) == [t \in TagIds |-> IF rows[r][t] # NoRow THEN rows[r][t] ELSE tags[t]]

\* The index entries under r's control: the names it gave, and those it took away.
HeldNames(r) ==
    {Lower[rows[r][t].name] : t \in {u \in TagIds : rows[r][u] # NoRow /\ pc[r] # "unique"}}
    \cup {Lower[tags[t].name] : t \in {u \in TagIds : rows[r][u] # NoRow /\ tags[u] # NoRow}}

\* Mutant: inserted pairs keep no lock on their ends.
HeldRemovals(r) == removed[r]

HeldPairs(r) == added[r] \cup removed[r]
TagsOf(ps) == {p[2] : p \in ps}
ObjectsOf(ps) == {p[1] : p \in ps}

\* Mutant: names are compared with regard to case.
NamedExactly(table, n) == {t \in TagIds : table[t] # NoRow /\ table[t].name = n}

\* Which tag has a name, without regard to case?
Named(table, n) == {t \in TagIds : table[t] # NoRow /\ Lower[table[t].name] = Lower[n]}

\* get_tags_auth_filter_clause
VisibleTags(issuer) ==
    {t \in TagIds : tags[t] # NoRow /\ (issuer = "admin" \/ tags[t].published)}

\* The tags a page or a search is about: the text they have selects names.
Matching(b) == {t \in VisibleTags(b.issuer) : tags[t].name \in b.names}

\* The size of a page when n tags match.
PageSize(b, n) == IF n <= b.first THEN 0 ELSE IF n - b.first < b.limit THEN n - b.first ELSE b.limit

\* LIMIT and OFFSET.  What they are ordered by is left out: any tags that match may be
\* the page, if they are as many as it has room for.
PagesOf(b) ==
    {p \in SUBSET Matching(b) : Cardinality(p) = PageSize(b, Cardinality(Matching(b)))}

TheTag(r) == CHOOSE t \in TagIds : rows[r][t] # NoRow
TheName(r) == CHOOSE n \in Names : body[r].names = {n}

\* Mutant: tags that existed are forgotten.
NewTagsToAdd(r) ==
    body[r].objects \X {t \in TagIds : rows[r][t] # NoRow}

\* add_objects_tags, delete_objects_tags: every object with every tag.
PairsToAdd(r) ==
    IF body[r].route = "update_tags"
    THEN body[r].objects \X (body[r].ids \cup {found[r][Lower[n]] : n \in body[r].names})
    ELSE body[r].objects \X {TheTag(r)}
PairsToRemove(r) ==
    IF body[r].route = "update_tags" THEN body[r].objects \X body[r].removedIds
    ELSE body[r].removedFrom \X {TheTag(r)}

\* Could a request be carried out alone, from the state it arrives in?
Feasible(b) ==
    /\ b.route = "tags_add" => \A n \in b.names : Named(tags, n) = {}
    /\ b.route = "tags_update" =>
          /\ \A t \in b.ids : tags[t] # NoRow
          /\ \A n \in b.names : Named(tags, n) \subseteq b.ids
    /\ b.route = "update_tags" => \A t \in b.ids : tags[t] # NoRow
    /\ b.route \in {"tags_add", "tags_update", "update_tags"} => b.objects \subseteq objects
    /\ b.route = "tags_delete" => \E t \in b.ids : tags[t] # NoRow
    /\ b.route = "view" => b.ids \cap VisibleTags(b.issuer) # {}
    /\ b.route = "page" => Cardinality(Matching(b)) > b.first
    /\ b.route = "search" => Matching(b) \ b.ids # {}

Goto(r, step) == pc' = [pc EXCEPT ![r] = step]

\* Mutant: an answer without a rollback.
AnswerOnly(r, status) ==
    Goto(r, "done") /\ answer' = [answer EXCEPT ![r] = status] /\ UNCHANGED writeVars

\* connection_middleware: the transaction is rolled back, and an answer sent.
Refuse(r, status) ==
    /\ Goto(r, "done")
    /\ answer' = [answer EXCEPT ![r] = status]
    /\ rows' = [rows EXCEPT ![r] = [t \in TagIds |-> NoRow]]
    /\ added' = [added EXCEPT ![r] = {}]
    /\ removed' = [removed EXCEPT ![r] = {}]

\* The other requests' view of a change: history.
Notice(others, ts, os, ps) ==
    changed' = [q \in Requests |->
        IF q \notin others \/ ~Open(q) THEN changed[q]
        ELSE [tags |-> changed[q].tags \cup ts, objects |-> changed[q].objects \cup os,
              pairs |-> changed[q].pairs \cup ps]]

-----------------------------------------------------------------------------
(* Waits.  The lock of an objects row, which /objects/update_tags takes last, is part *)
(* of its commit: who holds it waits for nothing.                                     *)

WaitsFor(r, q) ==
    /\ q # r
    /\ \/ pc[r] \in {"insert", "unique"} /\ Lower[TheName(r)] \in HeldNames(q)
       \/ pc[r] = "names" /\ \E n \in toInsert[r] : Lower[n] \in HeldNames(q)
       \/ pc[r] = "lock" /\ \E t \in body[r].ids : tags[t] # NoRow /\ rows[q][t] # NoRow
       \/ pc[r] = "add" /\ HeldPairs(q) \cap PairsToAdd(r) # {}
       \/ pc[r] = "remove" /\ removed[q] \cap PairsToRemove(r) \cap pairs # {}
       \/ /\ pc[r] = "delete"
          /\ \E t \in body[r].ids : tags[t] # NoRow /\ (rows[q][t] # NoRow \/ t \in TagsOf(HeldPairs(q)))

Blocked(r) == \E q \in Requests : WaitsFor(r, q)

\* A set of requests each of which waits for another of them.
Deadlocked(r) ==
    \E S \in SUBSET Requests :
        /\ r \in S
        /\ \A p \in S : (\E q \in S : WaitsFor(p, q)) /\ (\E q \in S : WaitsFor(q, p))

-----------------------------------------------------------------------------
(* Requests *)

\* The check of the route, then the handler.
FirstStep(b) ==
    CASE b.route = "tags_add" -> "insert"
      [] b.route = "tags_update" -> "lock"
      [] b.route = "tags_delete" -> "delete"
      [] b.route = "update_tags" -> "lookup"
      [] OTHER -> b.route

Begin(r) ==
    /\ pc[r] = "new"
    /\ \E b \in Bodies :
          /\ body' = [body EXCEPT ![r] = b]
          /\ feasible' = [feasible EXCEPT ![r] = Feasible(b)]
          /\ IF b.route \in ModifyingRoutes /\ b.issuer # "admin"
             THEN /\ Goto(r, "done")
                  /\ answer' = [answer EXCEPT ![r] = IF b.issuer = "anonymous" THEN 401 ELSE 403]
             ELSE Goto(r, FirstStep(b)) /\ UNCHANGED answer
    /\ UNCHANGED <<tableVars, localVars, writeVars, changed>>

\* INSERT of /tags/add: waits for its name, then violates the unique index or has it.
InsertTag(r) ==
    /\ pc[r] = "insert" /\ ~Blocked(r)
    /\ IF Named(tags, TheName(r)) # {}
       THEN Refuse(r, 400) /\ UNCHANGED lastTag
       ELSE /\ lastTag < MaxTag
            /\ lastTag' = lastTag + 1
            /\ rows' = [rows EXCEPT ![r][lastTag + 1] = [name |-> TheName(r), published |-> body[r].published]]
            /\ Goto(r, "add")
            /\ UNCHANGED <<answer, added, removed>>
    /\ UNCHANGED <<tags, objects, pairs, body, localVars, feasible, changed>>

\* UPDATE of /tags/update, its row: it is locked, and the new name is not in the index yet.
LockTag(r) ==
    /\ pc[r] = "lock" /\ ~Blocked(r)
    /\ \E t \in body[r].ids :
          IF tags[t] = NoRow THEN Refuse(r, 404)
          ELSE /\ rows' = [rows EXCEPT ![r][t] = [name |-> TheName(r), published |-> body[r].published]]
               /\ Goto(r, "unique")
               /\ UNCHANGED <<answer, added, removed>>
    /\ UNCHANGED <<tableVars, body, localVars, feasible, changed>>

\* UPDATE of /tags/update, its index entry.
RenameTag(r) ==
    /\ pc[r] = "unique" /\ ~Blocked(r)
    /\ IF Named(Seen(r), TheName(r)) # {TheTag(r)}
       THEN Refuse(r, 400)
       ELSE Goto(r, "add") /\ UNCHANGED <<answer, writeVars>>
    /\ UNCHANGED <<tableVars, body, localVars, feasible, changed>>

\* Mutant: names are made unique with regard to case.
AllNewNames(ns) == {{n \in ns : Named(tags, n) = {}}}

\* The names to insert: of those the SELECT does not find each once, without regard to case.
NewNames(ns) ==
    LET unknown == {n \in ns : Named(tags, n) = {}} IN
    {given \in SUBSET unknown :
        /\ {Lower[n] : n \in given} = {Lower[n] : n \in unknown}
        /\ \A m, n \in given : Lower[m] = Lower[n] => m = n}

\* /objects/update_tags adds tags by name, for admins only.
LookUpNames(r) ==
    /\ pc[r] = "lookup"
    /\ IF (body[r].names # {} /\ body[r].issuer # "admin") \/ body[r].issuer = "anonymous"
       THEN /\ Refuse(r, IF body[r].issuer = "anonymous" THEN 401 ELSE 403)
            /\ UNCHANGED localVars
       ELSE \E given \in NewNames(body[r].names) :
            /\ toInsert' = [toInsert EXCEPT ![r] = given]
            /\ found' = [found EXCEPT ![r] =
                  [n \in Names |->
                      LET known == {t \in TagIds : \E m \in body[r].names : Lower[m] = n /\ t \in Named(tags, m)}
                      IN IF known = {} THEN NoTag ELSE CHOOSE t \in known : TRUE]]
            /\ Goto(r, IF given = {} THEN "check_added" ELSE "names")
            /\ UNCHANGED <<answer, page, writeVars>>
    /\ UNCHANGED <<tableVars, body, feasible, changed>>

\* One row of the INSERT of add_tags_by_name, in the order of a Python set.
InsertName(r) ==
    /\ pc[r] = "names"
    /\ \E n \in toInsert[r] :
          /\ \A q \in Requests \ {r} : Lower[n] \notin HeldNames(q)
          /\ IF Named(Seen(r), n) # {} THEN Refuse(r, 400) /\ UNCHANGED <<lastTag, localVars>>
             ELSE /\ lastTag < MaxTag
                  /\ lastTag' = lastTag + 1
                  /\ rows' = [rows EXCEPT ![r][lastTag + 1] = [name |-> n, published |-> TRUE]]
                  /\ found' = [found EXCEPT ![r][Lower[n]] = lastTag + 1]
                  /\ toInsert' = [toInsert EXCEPT ![r] = @ \ {n}]
                  /\ Goto(r, IF toInsert[r] = {n} THEN "check_added" ELSE "names")
                  /\ UNCHANGED <<answer, page, added, removed>>
    /\ UNCHANGED <<tags, objects, pairs, body, feasible, changed>>

\* Mutant: tags are not checked.
MayTagAll(r, ids) == TRUE

\* authorize_objects_tagging counts the non-published among the tags.
MayTag(r, ids) == body[r].issuer = "admin" \/ \A t \in ids : Seen(r)[t] # NoRow => Seen(r)[t].published

CheckAdded(r) ==
    /\ pc[r] = "check_added"
    /\ IF MayTag(r, TagsOf(PairsToAdd(r))) THEN Goto(r, "add") /\ UNCHANGED <<answer, writeVars>>
       ELSE Refuse(r, 403)
    /\ UNCHANGED <<tableVars, body, localVars, feasible, changed>>

\* INSERT ... ON CONFLICT DO NOTHING: a pair that is there is skipped and not locked.
AddPairs(r) ==
    /\ pc[r] = "add" /\ ~Blocked(r)
    /\ LET new == PairsToAdd(r) \ pairs IN
       IF \E p \in new : p[1] \notin objects \/ Seen(r)[p[2]] = NoRow
       THEN Refuse(r, 400)
       ELSE /\ added' = [added EXCEPT ![r] = new]
            /\ Goto(r, CASE body[r].route = "tags_add" -> "commit"
                         [] body[r].route = "tags_update" -> "remove"
                         [] OTHER -> "check_removed")
            /\ UNCHANGED <<answer, rows, removed>>
    /\ UNCHANGED <<tableVars, body, localVars, feasible, changed>>

\* The tags checked before are in the cache applicable_tag_ids.
CheckRemoved(r) ==
    /\ pc[r] = "check_removed"
    /\ IF MayTag(r, body[r].removedIds \ TagsOf(PairsToAdd(r)))
       THEN Goto(r, "remove") /\ UNCHANGED <<answer, writeVars>>
       ELSE Refuse(r, 403)
    /\ UNCHANGED <<tableVars, body, localVars, feasible, changed>>

RemovePairs(r) ==
    /\ pc[r] = "remove" /\ ~Blocked(r)
    /\ removed' = [removed EXCEPT ![r] = PairsToRemove(r) \cap (pairs \cup added[r])]
    /\ Goto(r, "commit")
    /\ UNCHANGED <<tableVars, body, answer, localVars, rows, added, feasible, changed>>

\* /objects/update_tags also sets modified_at of its objects here.
Commit(r) ==
    /\ pc[r] = "commit"
    /\ tags' = Seen(r)
    /\ pairs' = (pairs \cup added[r]) \ removed[r]
    /\ Notice(Requests \ {r}, {t \in TagIds : rows[r][t] # NoRow}, {}, HeldPairs(r))
    /\ Refuse(r, 200)
    /\ UNCHANGED <<objects, lastTag, body, localVars, feasible>>

\* /tags/delete is one statement; it waits for whoever refers to the tags.
DeleteTags(r) ==
    /\ pc[r] = "delete" /\ ~Blocked(r)
    /\ LET gone == {t \in body[r].ids : tags[t] # NoRow} IN
       /\ tags' = [t \in TagIds |-> IF t \in gone THEN NoRow ELSE tags[t]]
       /\ pairs' = {p \in pairs : p[2] \notin gone}
       /\ Notice(Requests \ {r}, gone, {}, {p \in pairs : p[2] \in gone})
       /\ Refuse(r, IF gone = {} THEN 404 ELSE 200)
    /\ UNCHANGED <<objects, lastTag, body, localVars, feasible>>

\* A page of the tags whose names match, then their number: two statements.  A page past
\* the last of them is refused before the second.
ReadPage(r) ==
    /\ pc[r] = "page"
    /\ \E ids \in PagesOf(body[r]) :
          IF ids = {} THEN Refuse(r, 404) /\ UNCHANGED page
          ELSE /\ page' = [page EXCEPT ![r].ids = ids]
               /\ Goto(r, "count") /\ UNCHANGED <<answer, writeVars>>
    /\ UNCHANGED <<tableVars, body, toInsert, found, feasible, changed>>

\* Mutant: the count is of published tags, whoever asks.
CountPublished(r) ==
    /\ pc[r] = "count"
    /\ page' = [page EXCEPT ![r].total = Cardinality({t \in Matching(body[r]) : tags[t].published})]
    /\ Refuse(r, 200)
    /\ UNCHANGED <<tableVars, body, toInsert, found, feasible, changed>>

CountPage(r) ==
    /\ pc[r] = "count"
    /\ page' = [page EXCEPT ![r].total = Cardinality(Matching(body[r]))]
    /\ Refuse(r, 200)
    /\ UNCHANGED <<tableVars, body, toInsert, found, feasible, changed>>

\* /tags/view
ViewTags(r) ==
    /\ pc[r] = "view"
    /\ page' = [page EXCEPT ![r].ids = body[r].ids \cap VisibleTags(body[r].issuer)]
    /\ Refuse(r, IF page'[r].ids = {} THEN 404 ELSE 200)
    /\ UNCHANGED <<tableVars, body, toInsert, found, feasible, changed>>

\* /tags/search: at most maximum_values of the tags that match, but not those there already.
SearchTags(r) ==
    /\ pc[r] = "search"
    /\ IF Matching(body[r]) \ body[r].ids = {} THEN Refuse(r, 404) /\ UNCHANGED page
       ELSE \E ids \in SUBSET (Matching(body[r]) \ body[r].ids) \ {{}} :
            page' = [page EXCEPT ![r].ids = ids] /\ Refuse(r, 200)
    /\ UNCHANGED <<tableVars, body, toInsert, found, feasible, changed>>

\* /objects/delete, in its effect on tags: its pairs go with an object.
DeleteObject(o) ==
    /\ o \in objects
    /\ \A q \in Requests : o \notin ObjectsOf(HeldPairs(q))
    /\ objects' = objects \ {o}
    /\ pairs' = {p \in pairs : p[1] # o}
    /\ Notice(Requests, {}, {o}, {p \in pairs : p[1] = o})
    /\ UNCHANGED <<tags, lastTag, pc, body, answer, localVars, writeVars, feasible>>

\* PostgreSQL aborts a transaction of a cycle: DeadlockDetected is an OperationalError.
AbortDeadlocked(r) ==
    /\ Deadlocked(r)
    /\ Refuse(r, 500)
    /\ UNCHANGED <<tableVars, body, localVars, feasible, changed>>

\* Any other exception, a lost connection, or the end of the process.
Fail(r) ==
    /\ Open(r)
    /\ Refuse(r, 500)
    /\ UNCHANGED <<tableVars, body, localVars, feasible, changed>>

Work(r) ==
    \/ InsertTag(r) \/ LockTag(r) \/ RenameTag(r) \/ LookUpNames(r) \/ InsertName(r)
    \/ CheckAdded(r) \/ AddPairs(r) \/ CheckRemoved(r) \/ RemovePairs(r) \/ Commit(r)
    \/ DeleteTags(r) \/ ReadPage(r) \/ CountPage(r) \/ ViewTags(r) \/ SearchTags(r) \/ AbortDeadlocked(r)

Next ==
    \/ \E r \in Requests : Begin(r) \/ Work(r) \/ Fail(r)
    \/ \E o \in Objects : DeleteObject(o)

\* The event loop runs every ready coroutine, and PostgreSQL answers every statement it
\* has the locks for; a cycle of waits is broken.
Spec == Init /\ [][Next]_vars /\ \A r \in Requests : WF_vars(Work(r))

-----------------------------------------------------------------------------
(* Properties *)

\* Two committed tags never differ only in the case of their names, whatever requests
\* look names up and insert them at the same time.
NamesAreUnique ==
    \A s, t \in TagIds : tags[s] # NoRow /\ tags[t] # NoRow /\ Lower[tags[s].name] = Lower[tags[t].name] => s = t

\* No pair of objects_tags outlives its tag or its object: an insert that has checked
\* both ends keeps them until it commits.
PairsHaveEnds == \A p \in pairs : p[1] \in objects /\ tags[p[2]] # NoRow

\* A request that could be carried out when it arrived is refused (400 or 404) only
\* if another request changed something while it ran.
RefusalsHaveCause ==
    \A r \in Requests : answer[r] \in {400, 404} /\ feasible[r] => changed[r] # Nothing

\* The count of a page leaves room for the page and for all that come before it, unless
\* tags changed between the two.
PagesAddUp ==
    \A r \in Requests : body[r].route = "page" /\ answer[r] = 200 =>
        body[r].first + Cardinality(page[r].ids) <= page[r].total \/ changed[r].tags # {}

\* Objects tagged by name have, when the request commits, a tag of that name, unless the
\* request removed it too, or another one changed the tag or removed the pair meanwhile
\* (which it can: neither the SELECT nor ON CONFLICT DO NOTHING locks what it finds).
TagsAreAsNamed ==
    [][\A r \in Requests : pc[r] = "commit" /\ pc'[r] = "done" /\ answer'[r] = 200 /\ body[r].route = "update_tags" =>
          \A n \in body[r].names, o \in body[r].objects :
              LET t == found[r][Lower[n]] IN
              \/ t \in body[r].removedIds
              \/ t \in changed[r].tags \/ <<o, t>> \in changed[r].pairs
              \/ <<o, t>> \in pairs' /\ tags'[t] # NoRow /\ Lower[tags'[t].name] = Lower[n]]_vars

\* A request of a non-admin adds an unpublished tag to an object only if the tag was
\* unpublished while the request ran.
UnpublishedTagsAreForAdmins ==
    [][\A r \in Requests : pc[r] = "commit" /\ pc'[r] = "done" /\ answer'[r] = 200 /\ body[r].issuer # "admin" =>
          \A t \in TagsOf(added[r]) : t \in changed[r].tags \/ tags'[t].published]_vars

\* Every request is answered, whatever names and rows it waits for.
RequestsEnd == \A r \in Requests : Open(r) ~> pc[r] = "done"

=============================================================================
