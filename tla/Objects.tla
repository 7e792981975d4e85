-------------------------------- MODULE Objects --------------------------------
(***************************************************************************)
(* Objects, their data and the contents of composite objects: the requests *)
(* /objects/add, update, bulk_upsert, delete and view, as statements on    *)
(* the tables `objects`, the data tables of the four types, and the items  *)
(* of to-do lists and composite objects.                                   *)
(*                                                                         *)
(* A request's transaction is what it has put and cut so far.  Statements  *)
(* see what was committed when they start, less what their own transaction *)
(* has cut, and what it has put (READ COMMITTED).  A row of `objects` is   *)
(* locked by its UPDATE and its DELETE, and shared by the foreign keys of  *)
(* items that are inserted, until the transaction ends; DELETE cascades to *)
(* data and items, and waits for who is rewriting them.  Data tables are   *)
(* written only under the lock of the object, so a request's statements on *)
(* them are one step.                                                      *)
(***************************************************************************)
EXTENDS Integers, FiniteSets

CONSTANTS
    MaxId,     \* bound: ids the sequence of objects may give out
    MaxNew,    \* bound: new objects of one request
    Users, Admins,
    Editors,   \* users with can_edit_objects
    First,     \* the committed tables at the start
    FirstId,   \* the last id given out at the start
    Taggable,  \* objects that others may tag with unpublished tags, or free of them
    Requests, Bodies,
    Unset, NoSpec, NoOne

Ids == 1 .. MaxId
NewIds == -MaxNew .. -1
Refs == Ids \cup NewIds \* ids in a body: an existing object's, or negative for a new one
Types == {"link", "markdown", "to_do_list", "composite"}
Anonymous == "anonymous"
Writers == Requests \cup {NoOne}

\* `by` is the request that wrote a row.
ObjectRow == [id : Ids, type : Types, owner : Users, published : BOOLEAN, by : Writers]
DataRow == [id : Ids, table : Types, by : Writers]
\* The items of a composite object; those of a to-do list are one row with sub = 0.
ItemRow == [id : Ids, sub : Ids \cup {0}, by : Writers]
Tables == [objects : SUBSET ObjectRow, data : SUBSET DataRow, items : SUBSET ItemRow]
NoRows == [objects |-> {}, data |-> {}, items |-> {}]

\* What a body says of an object: `owner` may be left out, except in /objects/bulk_upsert.
Spec1 == [type : Types, owner : Users \cup {Unset}, published : BOOLEAN]
Routes == {"add", "update", "bulk_upsert", "delete", "view"}

\* `main` is the object of /objects/add and update, and `writes` also what its
\* `subobjects` carry; `links` are the pairs (composite object, sub-object); `gone` what is
\* deleted, or marked for full deletion.
Body == [route : Routes, issuer : Users \cup {Anonymous}, main : Refs,
         writes : [Refs -> Spec1 \cup {NoSpec}], links : SUBSET (Refs \X Refs),
         gone : SUBSET Ids, withSubobjects : BOOLEAN, ids : SUBSET Ids, dataIds : SUBSET Ids]

Asked(b) == {c \in Refs : b.writes[c] # NoSpec}
LinksFrom(b, c) == {s \in Refs : <<c, s>> \in b.links}
Linked(b) == {l[2] : l \in b.links}

\* What the schemas of the bodies let through.  The sub-objects of a body of
\* /objects/add or update may carry attributes and data, but are not composite themselves.
AcceptedUntyped(b) ==
    /\ b.main \in Asked(b)
    /\ b.route = "add" <=> b.main \in NewIds
    /\ \A l \in b.links : l[1] = b.main
    /\ \A c \in Asked(b) \ {b.main} : b.writes[c].type # "composite" /\ c \in Linked(b)
    /\ Asked(b) # {b.main} \/ b.links # {} => b.writes[b.main].type = "composite"
    /\ b.writes[b.main].type = "composite" => b.links # {}

AcceptedTyped(b) ==
    /\ Asked(b) # {} /\ \A c \in Asked(b) : b.writes[c].owner # Unset
    /\ \A l \in b.links : l[1] \in Asked(b) /\ b.writes[l[1]].type = "composite"
    /\ b.gone \cap Asked(b) = {}

\* What is marked for full deletion is not kept as a sub-object.
MarkedAreNotKept(b) == b.gone \cap Linked(b) = {}

Accepted(b) ==
    /\ b.route \in {"add", "update"} => AcceptedUntyped(b)
    /\ b.route = "bulk_upsert" => AcceptedTyped(b)
    /\ b.route \notin {"delete", "view"} => Linked(b) \cap NewIds \subseteq Asked(b)
    /\ MarkedAreNotKept(b)

IdsOf(rows) == {w.id : w \in rows}

\* Every object has one row of data, in the table of its type, to-do lists have the items
\* and composite objects the contents that were written with it, and there is nothing
\* else in these tables.
IsWhole(tables) ==
    /\ \A o, p \in tables.objects : o.id = p.id => o = p
    /\ \A o \in tables.objects : \E d \in tables.data :
          /\ {e \in tables.data : e.id = o.id} = {d} /\ d.table = o.type
          /\ \A i \in tables.items : i.id = o.id =>
                i.by = d.by /\ o.type = IF i.sub = 0 THEN "to_do_list" ELSE "composite"
          /\ o.type = "to_do_list" => o.id \in IdsOf(tables.items)
    /\ IdsOf(tables.data) \cup IdsOf(tables.items) \subseteq IdsOf(tables.objects)

\* The tables at the start are those of earlier requests.
ASSUME FirstIsWhole ==
    /\ IsWhole(First)
    /\ IdsOf(First.objects) \subseteq 1 .. FirstId
    /\ \A i \in First.items : i.sub = 0 \/ i.sub \in IdsOf(First.objects)
    /\ \A d \in First.data : d.by = NoOne
ASSUME ObjectAssumption ==
    /\ MaxId \in Nat /\ MaxNew \in Nat \ {0} /\ FirstId \in 0 .. MaxId
    /\ Admins \subseteq Users /\ Editors \subseteq Users /\ Anonymous \notin Users
    /\ NoOne \notin Requests /\ First \in Tables /\ Taggable \subseteq Ids
    /\ Bodies \subseteq Body /\ \A b \in Bodies : Accepted(b)

VARIABLES
    db,       \* what is committed
    hidden,   \* the objects that have an unpublished tag
    lastId,   \* the last id taken from the sequence
    pc, body, answer,
    part,     \* is the request busy with the main object, or with its sub-objects?
    todo,     \* rows a statement, or a loop of statements, has still to lock
    ids,      \* the ids new objects were given
    put, cut, \* rows its transaction has inserted or deleted
    shared,   \* rows of `objects` its foreign keys share
    checked,  \* cache modifiable_object_ids
    doomed,   \* the objects it deletes
    shown,    \* what a view has read
    feasible, \* history: could the request be carried out when it arrived?
    changed   \* history: objects that others changed while it ran

tableVars == <<db, hidden, lastId>>
writeVars == <<put, cut, shared>>
workVars == <<part, todo, ids, checked, doomed, shown>>
vars == <<tableVars, pc, body, answer, writeVars, workVars, feasible, changed>>

Step == {"new", "insert", "authorize", "check", "update", "data", "exist", "unlink", "link",
         "marked", "subobjects", "exclusive", "authorize_delete", "delete", "cascade", "commit",
         "attributes", "types", "rows", "items", "done"}
Shown == [attributes : SUBSET Ids, types : SUBSET Types, rows : SUBSET DataRow, items : SUBSET ItemRow]
NothingShown == [attributes |-> {}, types |-> {}, rows |-> {}, items |-> {}]
NoBody == [route |-> "view", issuer |-> Anonymous, main |-> -1, writes |-> [c \in Refs |-> NoSpec],
           links |-> {}, gone |-> {}, withSubobjects |-> FALSE, ids |-> {}, dataIds |-> {}]
Lost == 599 \* the answer of a request that failed for a reason outside of the model

TypeOK ==
    /\ db \in Tables
    /\ hidden \in SUBSET Ids
    /\ lastId \in 0 .. MaxId
    /\ pc \in [Requests -> Step]
    /\ body \in [Requests -> Body]
    /\ answer \in [Requests -> {0, 200, 400, 401, 403, 404, 500, Lost}]
    /\ part \in [Requests -> {"main", "subobjects"}]
    /\ todo \in [Requests -> SUBSET Ids]
    /\ ids \in [Requests -> [NewIds -> Ids \cup {0}]]
    /\ put \in [Requests -> Tables]
    /\ cut \in [Requests -> Tables]
    /\ shared \in [Requests -> SUBSET Ids]
    /\ checked \in [Requests -> SUBSET Ids]
    /\ doomed \in [Requests -> SUBSET Ids]
    /\ shown \in [Requests -> Shown]
    /\ feasible \in [Requests -> BOOLEAN]
    /\ changed \in [Requests -> SUBSET Ids]

Init ==
    /\ db = First
    /\ hidden = {}
    /\ lastId = FirstId
    /\ pc = [r \in Requests |-> "new"]
    /\ body = [r \in Requests |-> NoBody]
    /\ answer = [r \in Requests |-> 0]
    /\ part = [r \in Requests |-> "main"]
    /\ todo = [r \in Requests |-> {}]
    /\ ids = [r \in Requests |-> [c \in NewIds |-> 0]]
    /\ put = [r \in Requests |-> NoRows]
    /\ cut = [r \in Requests |-> NoRows]
    /\ shared = [r \in Requests |-> {}]
    /\ checked = [r \in Requests |-> {}]
    /\ doomed = [r \in Requests |-> {}]
    /\ shown = [r \in Requests |-> NothingShown]
    /\ feasible = [r \in Requests |-> TRUE]
    /\ changed = [r \in Requests |-> {}]

-----------------------------------------------------------------------------
(* What a request sees *)

Open(r) == pc[r] \notin {"new", "done"}
Typed(r) == body[r].route = "bulk_upsert"
IsAdmin(r) == body[r].issuer \in Admins

Plus(s, t) == [objects |-> s.objects \cup t.objects, data |-> s.data \cup t.data, items |-> s.items \cup t.items]
Less(s, t) == [objects |-> s.objects \ t.objects, data |-> s.data \ t.data, items |-> s.items \ t.items]
Seen(r) == Plus(Less(db, cut[r]), put[r])

RowsOf(tables, x) == {o \in tables.objects : o.id = x}

\* Mutant: the contents of composite objects keep what was deleted.
OwnRows(tables, xs) ==
    [NoRows EXCEPT !.data = {d \in tables.data : d.id \in xs}, !.items = {i \in tables.items : i.id \in xs}]

\* Rows that go with objects when these are deleted: the foreign keys cascade.
RowsWith(tables, xs) ==
    [objects |-> {o \in tables.objects : o.id \in xs},
     data |-> {d \in tables.data : d.id \in xs},
     items |-> {i \in tables.items : i.id \in xs \/ i.sub \in xs}]

\* get_objects_auth_filter_clause
Visible(issuer, tables) ==
    {o \in tables.objects :
        \/ issuer \in Admins
        \/ (o.published \/ o.owner = issuer) /\ o.id \notin hidden}

\* The id an object of the body has in the database (map_objects_ids, id_mapping).
IdOf(r, c) == IF c \in NewIds THEN ids[r][c] ELSE c

\* The objects of the body that are written now: the main one first, then its sub-objects.
Pieces(r) ==
    IF Typed(r) THEN Asked(body[r])
    ELSE IF part[r] = "main" THEN {body[r].main} ELSE Asked(body[r]) \ {body[r].main}
Existing(r) == Pieces(r) \cap Ids
SimplePieces(r) == {c \in Pieces(r) : body[r].writes[c].type # "composite"}

\* The composite objects whose contents are written.
Composites(r) == {c \in Asked(body[r]) : body[r].writes[c].type = "composite"}
CompositeIds(r) == {IdOf(r, c) : c \in Composites(r)}

\* authorize_object_owner_modification, forbid_non_admin_changing_object_owner
OwnersAllowed(r, cs) ==
    IsAdmin(r) \/ \A c \in cs : body[r].writes[c].owner \in {body[r].issuer, Unset}

\* Mutant: only objects that were checked before are checked.
MayModifyChecked(r, xs) ==
    IsAdmin(r) \/ \A o \in Seen(r).objects : o.id \in xs \cap checked[r] => o.owner = body[r].issuer

\* authorize_objects_modification: objects that do not exist pass, and enter the cache.
MayModify(r, xs) ==
    IsAdmin(r) \/ \A o \in Seen(r).objects : o.id \in xs \ checked[r] => o.owner = body[r].issuer

Goto(r, step) == pc' = [pc EXCEPT ![r] = step]
Put(r, tables) == put' = [put EXCEPT ![r] = Plus(@, tables)]
Replace(r, old, new) ==
    /\ cut' = [cut EXCEPT ![r] = Plus(@, old)]
    /\ put' = [put EXCEPT ![r] = Plus(Less(@, old), new)]

\* Mutant: the transaction does not end with the request.
EndHolding(r, status) ==
    /\ Goto(r, "done")
    /\ answer' = [answer EXCEPT ![r] = status]
    /\ UNCHANGED <<put, cut, shared, part, todo, checked, doomed, shown, body, feasible>>

\* connection_middleware: the transaction ends, and what it held is let go.
End(r, status) ==
    /\ Goto(r, "done")
    /\ answer' = [answer EXCEPT ![r] = status]
    /\ put' = [put EXCEPT ![r] = NoRows]
    /\ cut' = [cut EXCEPT ![r] = NoRows]
    /\ shared' = [shared EXCEPT ![r] = {}]
    /\ part' = [part EXCEPT ![r] = "main"]
    /\ todo' = [todo EXCEPT ![r] = {}]
    /\ checked' = [checked EXCEPT ![r] = {}]
    /\ doomed' = [doomed EXCEPT ![r] = {}]
    /\ shown' = [shown EXCEPT ![r] = NothingShown]
    /\ UNCHANGED <<body, feasible>>

Refuse(r, status) ==
    /\ End(r, status)
    /\ ids' = [ids EXCEPT ![r] = [c \in NewIds |-> 0]]
    /\ UNCHANGED <<tableVars, changed>>

Notice(others, xs) ==
    changed' = [q \in Requests |-> IF q \in others /\ Open(q) THEN changed[q] \cup xs ELSE changed[q]]

\* Could a request be carried out alone, from the state it arrives in?
Feasible(b) ==
    LET known == IF b.route = "bulk_upsert" THEN Visible(b.issuer, db) ELSE db.objects IN
    /\ \A c \in Asked(b) \cap Ids : \E o \in known : o.id = c /\ o.type = b.writes[c].type
    /\ Linked(b) \cap Ids \subseteq IdsOf(db.objects)
    /\ b.route = "view" => IdsOf(Visible(b.issuer, db)) \cap (b.ids \cup b.dataIds) # {}

-----------------------------------------------------------------------------
(* Locks *)

Gone(q) == IdsOf(cut[q].objects) \ IdsOf(put[q].objects)
Held(q) == IdsOf(cut[q].objects) \cup IdsOf(put[q].objects)

\* Who keeps r from locking the row x?
Holders(r, x) ==
    {q \in Requests \ {r} :
        \/ pc[r] = "update" /\ x \in Held(q)
        \/ pc[r] = "delete" /\ x \in Held(q) \cup shared[q]
        \/ pc[r] = "link" /\ x \in Gone(q)}

\* Items a DELETE touches: of rewritten composite objects, or of deleted objects.
TouchedItems(r) ==
    IF pc[r] = "unlink" THEN {i \in db.items : i.id \in CompositeIds(r)}
    ELSE RowsWith(db, Gone(r)).items

WaitsFor(r, q) ==
    \/ /\ todo[r] # {} /\ \A x \in todo[r] : Holders(r, x) # {}
       /\ \E x \in todo[r] : q \in Holders(r, x)
    \/ /\ pc[r] \in {"unlink", "cascade"} /\ q # r
       /\ TouchedItems(r) \cap cut[q].items # {}

Blocked(r) == \E q \in Requests : WaitsFor(r, q)
Deadlocked(r) ==
    \E S \in SUBSET Requests :
        /\ r \in S
        /\ \A p \in S : (\E q \in S : WaitsFor(p, q)) /\ (\E q \in S : WaitsFor(q, p))

-----------------------------------------------------------------------------
(* Requests that write *)

FirstStep(b) ==
    CASE b.route \in {"add", "bulk_upsert"} -> "insert"
      [] b.route = "update" -> "authorize"
      [] b.route = "view" -> "attributes"
      [] b.route = "delete" -> IF b.withSubobjects THEN "subobjects" ELSE "authorize_delete"

\* The check of the route; /objects/bulk_upsert has none, and its first statement about
\* objects requires a login.
RouteRefusal(b) ==
    IF b.route # "view" /\ b.issuer = Anonymous THEN 401
    ELSE IF b.route \in {"add", "update", "delete"} /\ b.issuer \notin Admins \cup Editors THEN 403
    ELSE 0

Begin(r) ==
    /\ pc[r] = "new"
    /\ \E b \in Bodies :
          /\ body' = [body EXCEPT ![r] = b]
          /\ feasible' = [feasible EXCEPT ![r] = Feasible(b)]
          /\ IF RouteRefusal(b) # 0
             THEN /\ Goto(r, "done") /\ answer' = [answer EXCEPT ![r] = RouteRefusal(b)]
                  /\ UNCHANGED doomed
             ELSE /\ Goto(r, FirstStep(b)) /\ UNCHANGED answer
                  /\ doomed' = [doomed EXCEPT ![r] = IF b.route \in {"bulk_upsert", "delete"} THEN b.gone ELSE {}]
    /\ UNCHANGED <<tableVars, writeVars, part, todo, ids, checked, shown, changed>>

\* Mutant: the ids of new objects are paired with the body's in the wrong order.
Unsorted(c, new) == Cardinality({d \in new : d <= c})

\* New ids ascend in the order of the rows, which is that of the body's ids, descending.
Rank(c, new) == Cardinality({d \in new : d >= c})

\* INSERT of the attributes of new objects; their ids are read back, sorted and paired.
InsertObjects(r) ==
    /\ pc[r] = "insert"
    /\ LET new == Pieces(r) \cap NewIds
           spec(c) == body[r].writes[c]
           row(c) == [id |-> lastId + Cardinality({d \in new : d >= c}), type |-> spec(c).type, by |-> r,
                      owner |-> IF spec(c).owner = Unset THEN body[r].issuer ELSE spec(c).owner,
                      published |-> spec(c).published]
       IN IF ~OwnersAllowed(r, new) THEN Refuse(r, 403)
          ELSE /\ lastId + Cardinality(new) <= MaxId
               /\ lastId' = lastId + Cardinality(new)
               /\ ids' = [ids EXCEPT ![r] = [c \in NewIds |-> IF c \in new THEN lastId + Rank(c, new) ELSE @[c]]]
               /\ Put(r, [NoRows EXCEPT !.objects = {row(c) : c \in new}])
               /\ LET composite == ~Typed(r) /\ part[r] = "main" /\ SimplePieces(r) = {} IN
                  /\ part' = [part EXCEPT ![r] = IF composite THEN "subobjects" ELSE @]
                  /\ Goto(r, IF composite THEN "insert" ELSE IF Existing(r) # {} THEN "authorize" ELSE "data")
               /\ UNCHANGED <<db, hidden, body, answer, cut, shared, todo, checked, doomed, shown, feasible, changed>>

\* May the issuer write the objects, and give them the owners the body names?
Authorize(r) ==
    /\ pc[r] = "authorize"
    /\ IF ~OwnersAllowed(r, Existing(r)) \/ ~MayModify(r, Existing(r)) THEN Refuse(r, 403)
       ELSE /\ checked' = [checked EXCEPT ![r] = @ \cup Existing(r)]
            /\ todo' = [todo EXCEPT ![r] = Existing(r)]
            /\ Goto(r, IF Typed(r) THEN "check" ELSE "update")
            /\ UNCHANGED <<tableVars, body, answer, writeVars, part, ids, doomed, shown, feasible, changed>>

\* Do the objects exist, with the types the body gives them?  A SELECT; nothing is locked.
HaveTypes(r, cs) ==
    \A c \in cs : \E o \in Visible(body[r].issuer, Seen(r)) :
        o.id = IdOf(r, c) /\ o.type = body[r].writes[c].type

CheckExisting(r) ==
    /\ pc[r] = "check"
    /\ IF HaveTypes(r, Existing(r))
       THEN Goto(r, "update") /\ UNCHANGED <<tableVars, body, answer, writeVars, workVars, feasible, changed>>
       ELSE Refuse(r, 400)

\* UPDATE of one object; the loop goes on until there are no more.
UpdateObject(r, x) ==
    /\ pc[r] = "update" /\ x \in todo[r] /\ Holders(r, x) = {}
    /\ LET spec == body[r].writes[x]
           old == RowsOf(Seen(r), x)
           new == {[o EXCEPT !.published = spec.published, !.by = r,
                             !.owner = IF spec.owner = Unset THEN @ ELSE spec.owner,
                             !.type = IF Typed(r) THEN spec.type ELSE @] : o \in old}
           mistyped == \E o \in new : o.type # spec.type
           composite == ~Typed(r) /\ part[r] = "main" /\ spec.type = "composite"
       IN IF ~Typed(r) /\ (old = {} \/ (part[r] = "main" /\ mistyped)) THEN Refuse(r, 400)
          ELSE /\ Replace(r, [NoRows EXCEPT !.objects = old], [NoRows EXCEPT !.objects = new])
               /\ todo' = [todo EXCEPT ![r] = @ \ {x}]
               /\ Goto(r, IF todo[r] # {x} THEN "update" ELSE IF composite THEN "insert" ELSE "data")
               /\ part' = [part EXCEPT ![r] = IF composite THEN "subobjects" ELSE @]
               /\ UNCHANGED <<tableVars, body, answer, shared, ids, checked, doomed, shown, feasible, changed>>

\* Rows of data that are replaced: those of an object in the table of its type.
OldData(r) ==
    {d \in Seen(r).data : \E c \in SimplePieces(r) : d.id = IdOf(r, c) /\ d.table = body[r].writes[c].type}
NewData(r) ==
    {[id |-> IdOf(r, c), table |-> body[r].writes[c].type, by |-> r] : c \in SimplePieces(r)}

\* The items of to-do lists are replaced with them.
ListsWritten(r) == IdsOf({d \in NewData(r) : d.table = "to_do_list"})
OldListItems(r) == {i \in Seen(r).items : i.id \in ListsWritten(r)}
NewListItems(r) == {[id |-> x, sub |-> 0, by |-> r] : x \in ListsWritten(r)}

\* /objects/add and update: an UPDATE of data that finds no row.
DataIsMissing(r) == ~(SimplePieces(r) \cap Ids \subseteq IdsOf(OldData(r)))

\* The data of everything but composite objects.  /objects/bulk_upsert checks the types
\* again and replaces what there is; the other routes insert new data, and update data of
\* the type the body gives.
WriteData(r) ==
    /\ pc[r] = "data"
    /\ IF IF Typed(r) THEN ~HaveTypes(r, Pieces(r)) ELSE DataIsMissing(r) THEN Refuse(r, 400)
       ELSE /\ Replace(r, [objects |-> {}, data |-> OldData(r), items |-> OldListItems(r)],
                          [objects |-> {}, data |-> NewData(r), items |-> NewListItems(r)])
            /\ Goto(r, IF Typed(r) THEN IF Composites(r) # {} THEN "unlink" ELSE "authorize_delete"
                       ELSE IF part[r] = "main" THEN "commit" ELSE "exist")
            /\ UNCHANGED <<tableVars, body, answer, shared, part, todo, ids, checked, doomed, shown, feasible, changed>>

Subobjects(r) == {IdOf(r, s) : s \in Linked(body[r])}

\* /objects/add and update look the sub-objects up.
CheckSubobjects(r) ==
    /\ pc[r] = "exist"
    /\ IF Subobjects(r) \subseteq IdsOf(Seen(r).objects)
       THEN Goto(r, "unlink") /\ UNCHANGED <<tableVars, body, answer, writeVars, workVars, feasible, changed>>
       ELSE Refuse(r, 400)

\* Mutant: the old contents stay.
KeptItems(r) == {}

\* The contents that are replaced.
OldItems(r) == {i \in Seen(r).items : i.id \in CompositeIds(r)}

\* The properties of composite objects are replaced, and their contents deleted.
Unlink(r) ==
    /\ pc[r] = "unlink" /\ ~Blocked(r)
    /\ LET properties == {d \in Seen(r).data : d.id \in CompositeIds(r) /\ d.table = "composite"} IN
       Replace(r, [objects |-> {}, data |-> properties, items |-> OldItems(r)],
               [NoRows EXCEPT !.data = {[id |-> x, table |-> "composite", by |-> r] : x \in CompositeIds(r)}])
    /\ todo' = [todo EXCEPT ![r] = Subobjects(r)]
    /\ Goto(r, "link")
    /\ UNCHANGED <<tableVars, body, answer, shared, part, ids, checked, doomed, shown, feasible, changed>>

AfterLink(r) == IF Typed(r) THEN "authorize_delete" ELSE "marked"

\* Mutant: new sub-objects are left out.
ItemsOfExisting(r) == {[id |-> IdOf(r, l[1]), sub |-> l[2], by |-> r] : l \in body[r].links \cap (Refs \X Ids)}

NewItems(r) == {[id |-> IdOf(r, l[1]), sub |-> IdOf(r, l[2]), by |-> r] : l \in body[r].links}

\* INSERT of the contents: the foreign keys share the sub-objects, one by one.
Link(r) ==
    /\ pc[r] = "link"
    /\ \/ /\ todo[r] = {}
          /\ Put(r, [NoRows EXCEPT !.items = NewItems(r)])
          /\ Goto(r, AfterLink(r))
          /\ UNCHANGED <<tableVars, body, answer, cut, shared, workVars, feasible, changed>>
       \/ \E x \in todo[r] :
          /\ Holders(r, x) = {}
          /\ IF RowsOf(Seen(r), x) = {} THEN Refuse(r, 500)
             ELSE /\ shared' = [shared EXCEPT ![r] = @ \cup {x}]
                  /\ todo' = [todo EXCEPT ![r] = @ \ {x}]
                  /\ UNCHANGED <<tableVars, pc, body, answer, put, cut, part, ids, checked, doomed, shown, feasible, changed>>

\* Mutant: marked sub-objects are deleted though they are referenced.
AllMarked(r) == body[r].gone

\* Of the sub-objects marked for full deletion, those no composite object refers to.
Unreferenced(r) == body[r].gone \ {i.sub : i \in Seen(r).items}

FindMarked(r) ==
    /\ pc[r] = "marked"
    /\ doomed' = [doomed EXCEPT ![r] = Unreferenced(r)]
    /\ Goto(r, IF doomed'[r] = {} THEN "commit" ELSE "authorize_delete")
    /\ UNCHANGED <<tableVars, body, answer, writeVars, part, todo, ids, checked, shown, feasible, changed>>

\* /objects/delete with delete_subobjects: the contents, then which of them others have.
FindSubobjects(r) ==
    /\ pc[r] = "subobjects"
    /\ todo' = [todo EXCEPT ![r] = {i.sub : i \in {j \in db.items : j.id \in body[r].gone}} \ {0}]
    /\ Goto(r, "exclusive")
    /\ UNCHANGED <<tableVars, body, answer, writeVars, part, ids, checked, doomed, shown, feasible, changed>>

FindExclusive(r) ==
    /\ pc[r] = "exclusive"
    /\ LET elsewhere == {i.sub : i \in {j \in db.items : j.id \notin body[r].gone}} IN
       doomed' = [doomed EXCEPT ![r] = @ \cup (todo[r] \ elsewhere)]
    /\ todo' = [todo EXCEPT ![r] = {}]
    /\ Goto(r, "authorize_delete")
    /\ UNCHANGED <<tableVars, body, answer, writeVars, part, ids, checked, shown, feasible, changed>>

AuthorizeDelete(r) ==
    /\ pc[r] = "authorize_delete"
    /\ IF ~MayModify(r, doomed[r]) THEN Refuse(r, 403)
       ELSE /\ checked' = [checked EXCEPT ![r] = @ \cup doomed[r]]
            /\ todo' = [todo EXCEPT ![r] = doomed[r]]
            /\ Goto(r, IF doomed[r] = {} THEN "commit" ELSE "delete")
            /\ UNCHANGED <<tableVars, body, answer, writeVars, part, ids, doomed, shown, feasible, changed>>

\* One row of the DELETE; objects that do not exist are passed over.
DeleteRow(r, x) ==
    /\ pc[r] = "delete" /\ x \in todo[r] /\ Holders(r, x) = {}
    /\ LET row == [NoRows EXCEPT !.objects = RowsOf(Seen(r), x)] IN Replace(r, row, NoRows)
    /\ todo' = [todo EXCEPT ![r] = @ \ {x}]
    /\ Goto(r, IF todo[r] = {x} THEN "cascade" ELSE "delete")
    /\ UNCHANGED <<tableVars, body, answer, shared, part, ids, checked, doomed, shown, feasible, changed>>

Cascade(r) ==
    /\ pc[r] = "cascade" /\ ~Blocked(r)
    /\ LET gone == RowsWith(Seen(r), Gone(r)) IN Replace(r, gone, NoRows)
    /\ Goto(r, "commit")
    /\ UNCHANGED <<tableVars, body, answer, shared, workVars, feasible, changed>>

\* The objects a transaction changes, those whose place in composite objects it changes too.
TouchedBy(r) ==
    LET touched(t) == IdsOf(t.objects) \cup IdsOf(t.data) \cup IdsOf(t.items) \cup ({i.sub : i \in t.items} \ {0})
    IN touched(put[r]) \cup touched(cut[r])

\* The end of the transaction, or of the DELETE of /objects/delete, which has none.
Commit(r) ==
    /\ pc[r] = "commit"
    /\ db' = Seen(r)
    /\ Notice(Requests \ {r}, TouchedBy(r))
    /\ End(r, 200)
    /\ UNCHANGED <<hidden, lastId, ids>>

-----------------------------------------------------------------------------
(* Views: statements without a transaction *)

TypeOrder == <<"link", "markdown", "to_do_list", "composite">>
NextType(ts) == TypeOrder[CHOOSE k \in 1 .. 4 : TypeOrder[k] \in ts /\ \A j \in 1 .. k - 1 : TypeOrder[j] \notin ts]
Show(r, field, value) == shown' = [shown EXCEPT ![r][field] = value]
ViewUnchanged(r) == UNCHANGED <<tableVars, body, answer, writeVars, part, todo, ids, checked, doomed, feasible, changed>>

\* The objects of a table the issuer may see (get_objects_data_auth_filter_clause).
VisibleIds(r) == IdsOf(Visible(body[r].issuer, db)) \cap body[r].dataIds

ViewAttributes(r) ==
    /\ pc[r] = "attributes"
    /\ Show(r, "attributes", IdsOf(Visible(body[r].issuer, db)) \cap body[r].ids)
    /\ Goto(r, "types") /\ ViewUnchanged(r)

\* Mutant: the types are those of the objects whose attributes were asked for.
ViewTypesOfAttributes(r) ==
    /\ pc[r] = "types"
    /\ Show(r, "types", {o.type : o \in {v \in db.objects : v.id \in shown[r].attributes}})
    /\ Goto(r, "rows") /\ ViewUnchanged(r)

\* For fewer than four ids their types are looked up.
ViewTypes(r) ==
    /\ pc[r] = "types"
    /\ Show(r, "types",
            IF Cardinality(body[r].dataIds) < 4
            THEN {o.type : o \in {v \in Visible(body[r].issuer, db) : v.id \in body[r].dataIds}} ELSE Types)
    /\ Goto(r, "rows") /\ ViewUnchanged(r)

RowsShown(r, t) == {d \in db.data : d.table = t /\ d.id \in VisibleIds(r)}

\* The tables of data are read one by one, and those of to-do lists and composite objects
\* together with their items.
ViewRows(r) ==
    /\ pc[r] = "rows"
    /\ shown[r].types # {}
    /\ LET t == NextType(shown[r].types) IN
       /\ shown' = [shown EXCEPT ![r].rows = @ \cup RowsShown(r, t),
                                 ![r].types = IF t \in {"link", "markdown"} THEN @ \ {t} ELSE @]
       /\ Goto(r, IF t \in {"link", "markdown"} THEN "rows" ELSE "items")
    /\ ViewUnchanged(r)

ItemsShown(r, t) == {i \in db.items : (i.sub = 0 <=> t = "to_do_list") /\ i.id \in VisibleIds(r)}

\* Items of an object that the statement before did not return raise a KeyError; a to-do
\* list without items fails its validation, which is answered as a bad request.
ViewItems(r) ==
    /\ pc[r] = "items"
    /\ LET t == NextType(shown[r].types)
           items == ItemsShown(r, t)
           found == IdsOf({d \in shown[r].rows : d.table = t})
       IN IF IdsOf(items) \ found # {} THEN Refuse(r, 500)
          ELSE IF t = "to_do_list" /\ found \ IdsOf(items) # {} THEN Refuse(r, 400)
          ELSE /\ shown' = [shown EXCEPT ![r].items = @ \cup items, ![r].types = @ \ {t}]
               /\ Goto(r, "rows") /\ ViewUnchanged(r)

FinishView(r) ==
    /\ pc[r] = "rows"
    /\ shown[r].types = {}
    /\ Refuse(r, IF shown[r].attributes = {} /\ shown[r].rows = {} THEN 404 ELSE 200)

-----------------------------------------------------------------------------
(* The rest of the world *)

\* Others tag an object with an unpublished tag, publish the tag or remove it: the object
\* is there (objects_tags has its foreign key), but no lock of it is waited for.
Retag(x) ==
    /\ x \in IdsOf(db.objects)
    /\ hidden' = (hidden \cup {x}) \ (hidden \cap {x})
    /\ Notice(Requests, {x})
    /\ UNCHANGED <<db, lastId, pc, body, answer, writeVars, workVars, feasible>>

\* PostgreSQL aborts a transaction of a cycle of waits.
AbortDeadlocked(r) == Deadlocked(r) /\ Refuse(r, Lost)

\* Any other exception, a lost connection, or the end of the process.
Fail(r) == Open(r) /\ Refuse(r, Lost)

\* /objects/add and update and /objects/bulk_upsert; /objects/delete, which others end with.
Upsert(r) ==
    \/ InsertObjects(r) \/ Authorize(r) \/ CheckExisting(r) \/ WriteData(r) \/ CheckSubobjects(r)
    \/ (\E x \in Ids : UpdateObject(r, x))
    \/ Unlink(r) \/ Link(r) \/ FindMarked(r)
Delete(r) ==
    \/ FindSubobjects(r) \/ FindExclusive(r) \/ AuthorizeDelete(r)
    \/ (\E x \in Ids : DeleteRow(r, x))
    \/ Cascade(r) \/ Commit(r)
View(r) == ViewAttributes(r) \/ ViewTypes(r) \/ ViewRows(r) \/ ViewItems(r) \/ FinishView(r)

Work(r) == Upsert(r) \/ Delete(r) \/ View(r) \/ AbortDeadlocked(r)

Next ==
    \/ \E r \in Requests : Begin(r) \/ Work(r) \/ Fail(r)
    \/ \E x \in Taggable : Retag(x)

\* The event loop runs every ready coroutine, PostgreSQL answers every statement it has
\* the locks for, and breaks cycles of waits.
Spec == Init /\ [][Next]_vars /\ \A r \in Requests : WF_vars(Work(r))

-----------------------------------------------------------------------------
(* Properties *)

\* The tables stay whole, object by object, whatever requests write and delete the same
\* objects, and wherever one of them fails.  (add_objects, update_objects, bulk_upsert_*,
\* delete_objects and the cascades of their foreign keys.)
ObjectsAreWhole == IsWhole(db)

\* A composite object contains what its last writer asked for, with new sub-objects in the
\* places of the negative ids, less what was deleted since.
ContentsAreAsAsked ==
    \A d \in {e \in db.data : e.table = "composite"} : \A r \in Requests : d.by = r =>
        {i.sub : i \in {j \in db.items : j.id = d.id}} =
            {IdOf(r, l[2]) : l \in {k \in body[r].links : IdOf(r, k[1]) = d.id}} \cap IdsOf(db.objects)

\* A request that could be carried out when it arrived is refused, or fails over what it
\* finds in the database, only if others changed something while it ran.
RefusalsHaveCause ==
    \A r \in Requests : answer[r] \in {400, 404, 500} /\ feasible[r] => changed[r] # {}

Commits(r) == pc[r] = "commit" /\ pc'[r] = "done" /\ answer'[r] = 200

\* An object that is deleted because it was a sub-object was in no other composite object,
\* unless it was put into one while the request ran.
SharedSubobjectsSurvive ==
    [][\A r \in Requests : Commits(r) /\ body[r].route \in {"add", "update", "delete"} =>
          LET named == IF body[r].route = "delete" THEN body[r].gone ELSE {}
              rewritten == named \cup IF body[r].route = "delete" THEN {} ELSE CompositeIds(r)
          IN \A x \in Gone(r) \ named : x \in changed[r] \/ \A i \in db.items : i.sub = x => i.id \in rewritten]_vars

\* A user who is not an admin changes and deletes only objects that are his, or whose
\* owner changed while the request ran: what authorization has cached is not older than that.
OwnersKeepTheirObjects ==
    [][\A r \in Requests : Commits(r) /\ body[r].issuer \notin Admins =>
          \A o \in db.objects : o.id \in Held(r) => o.owner = body[r].issuer \/ o.id \in changed[r]]_vars

ShowsWhatIsThere(r) ==
    /\ shown[r].attributes = body[r].ids \cap IdsOf(Visible(body[r].issuer, db))
    /\ shown[r].rows = {d \in db.data : d.id \in VisibleIds(r)}
    /\ shown[r].items = {i \in db.items : i.id \in VisibleIds(r)}

\* The view of a request during which nothing it asked for changed is what is committed,
\* of all that the issuer may see: its statements are many, the answer is one.
ViewsAreExact ==
    [][\A r \in Requests : pc[r] = "rows" /\ pc'[r] = "done" /\ answer'[r] = 200 /\ (body[r].ids \cup body[r].dataIds) \cap changed[r] = {} =>
          ShowsWhatIsThere(r)]_vars

\* The tables as documents: their writer is that of the data.
Documents ==
    [x \in Ids |->
        IF x \notin IdsOf(db.objects) THEN NoSpec
        ELSE [type |-> (CHOOSE o \in db.objects : o.id = x).type,
              contents |-> {i.sub : i \in {j \in db.items : j.id = x}} \ {0},
              by |-> (CHOOSE d \in db.data : d.id = x).by]]

\* Ids that were given out and that no object has, or may still get.
PastIds ==
    (1 .. lastId) \ (IdsOf(db.objects) \cup UNION {{ids[r][c] : c \in NewIds} : r \in {q \in Requests : Open(q)}})

Store == INSTANCE ObjectStore WITH
    NoDoc <- NoSpec, docs <- Documents, past <- PastIds,
    saved <- {r \in Requests : answer[r] = 200 /\ body[r].route # "view"}

\* The marker of what is not there is not a document.
ASSUME MarkerAssumption == NoSpec \notin Store!Doc

\* The requests, statement by statement, implement a store of documents that whole
\* requests write.
RequestsAreAtomic == Store!StoreSpec

\* Every request is answered, whatever it waits for.
RequestsEnd == \A r \in Requests : Open(r) ~> pc[r] = "done"

=============================================================================
