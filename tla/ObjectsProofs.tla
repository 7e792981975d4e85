------------------------------ MODULE ObjectsProofs ------------------------------
(***************************************************************************)
(* Proofs about Objects, for every set of users, requests and bodies, any  *)
(* number of ids, and any tables at the start that are whole.              *)
(***************************************************************************)
EXTENDS Objects, FiniteSetTheorems, TLAPS

-----------------------------------------------------------------------------
(* The inductive invariant *)

\* Where the handler of each route goes.
StepsOf(route) ==
    CASE route \in {"add", "update"} ->
           {"insert", "authorize", "update", "data", "exist", "unlink", "link", "marked",
            "authorize_delete", "delete", "cascade", "commit"}
      [] route = "bulk_upsert" ->
           {"insert", "authorize", "check", "update", "data", "unlink", "link",
            "authorize_delete", "delete", "cascade", "commit"}
      [] route = "delete" ->
           {"subobjects", "exclusive", "authorize_delete", "delete", "cascade", "commit"}
      [] OTHER -> {"attributes", "types", "rows", "items"}

MainIsComposite(r) == body[r].writes[body[r].main].type = "composite"

\* Sub-objects are written after a composite main object, and before its contents; what
\* is not composite is written and done.
RouteShape(r) ==
    /\ ~ Open(r) => put[r] = NoRows /\ cut[r] = NoRows /\ part[r] = "main"
    /\ Open(r) =>
          /\ body[r] \in Bodies /\ pc[r] \in StepsOf(body[r].route)
          /\ body[r].route # "view" => body[r].issuer \in Users
          /\ part[r] = "subobjects" => body[r].route \in {"add", "update"} /\ MainIsComposite(r)
    /\ Open(r) /\ ~ Typed(r) /\ part[r] = "main" =>
          /\ pc[r] \notin {"exist", "unlink", "link"}
          /\ pc[r] = "insert" => body[r].route = "add"
          /\ pc[r] = "data" => ~ MainIsComposite(r)

Upserting == {"insert", "authorize", "check", "update", "data", "exist", "unlink", "link"}

\* The new objects that have been given ids ...
Given(r) ==
    LET new == Asked(body[r]) \cap NewIds IN
    CASE pc[r] = "insert" -> IF part[r] = "main" THEN {} ELSE {body[r].main} \cap NewIds
      [] pc[r] \in {"authorize", "check", "update", "data"} ->
           IF Typed(r) \/ part[r] = "subobjects" THEN new ELSE {body[r].main} \cap NewIds
      [] pc[r] \in {"exist", "unlink", "link"} -> new
      [] OTHER -> {}

\* ... and those of them that wait for their data.
Pending(r) ==
    CASE pc[r] \in {"exist", "unlink"} -> Composites(r) \cap NewIds
      [] pc[r] = "link" -> {}
      [] OTHER -> Given(r)
PendingIds(r) == {ids[r][c] : c \in Pending(r)}

\* The rows of an object.
NothingAt(t, x) ==
    /\ \A o \in t.objects : o.id # x
    /\ \A d \in t.data : d.id # x
    /\ \A i \in t.items : i.id # x
ObjectAt(t, x, o, d) ==
    /\ o \in t.objects /\ o.id = x /\ \A p \in t.objects : p.id = x => p = o
    /\ d \in t.data /\ d.id = x /\ d.table = o.type /\ \A e \in t.data : e.id = x => e = d
    /\ \A i \in t.items : i.id = x => i.by = d.by /\ o.type = IF i.sub = 0 THEN "to_do_list" ELSE "composite"
    /\ o.type = "to_do_list" => \E i \in t.items : i.id = x
WholeAt(t, x) == NothingAt(t, x) \/ \E o \in t.objects, d \in t.data : ObjectAt(t, x, o, d)

\* An object that waits for its data.
BareAt(t, x, type) ==
    /\ \E o \in t.objects : o.id = x /\ o.type = type /\ \A p \in t.objects : p.id = x => p = o
    /\ \A d \in t.data : d.id # x
    /\ \A i \in t.items : i.id # x

\* Ids are taken from the sequence, and one transaction holds a row.
IdsAreTaken ==
    /\ \A o \in db.objects : o.id <= lastId
    /\ \A r \in Requests : \A x \in Held(r) : x <= lastId
RowsAreLocked == \A r, q \in Requests : r # q => Held(r) \cap Held(q) = {}

\* A transaction writes rows of what it holds; of others it cuts contents it has deleted.
WritesAreHeld(r) ==
    /\ IdsOf(put[r].data) \cup IdsOf(put[r].items) \cup IdsOf(cut[r].data) \subseteq Held(r)
    /\ IdsOf(put[r].objects) \subseteq Held(r)
    /\ \A i \in cut[r].items : i.id \in Held(r) \/ i.sub \in Gone(r)

\* What it holds is whole as it sees it, but for what it has still to write or to delete.
SeenIsWhole(r) ==
    /\ \A c \in Given(r) : ids[r][c] \in Ids
    /\ \A c \in Pending(r) : /\ ids[r][c] \in IdsOf(put[r].objects)
                             /\ BareAt(Seen(r), ids[r][c], body[r].writes[c].type)
    /\ \A x \in Held(r) \ (PendingIds(r) \cup Gone(r)) : WholeAt(Seen(r), x)

\* Deletions come last, and take the data and contents of an object along.
DeletesAreLast(r) ==
    /\ pc[r] \notin {"delete", "cascade", "commit"} => Gone(r) = {}
    /\ \A x \in Gone(r) : /\ \A o \in Seen(r).objects : o.id # x
                          /\ pc[r] = "commit" => NothingAt(Seen(r), x)

\* Objects keep their types.
TypesKept(r) == \A o \in put[r].objects, p \in db.objects : o.id = p.id => o.type = p.type

\* An object that is gone for good.
Dead(x) ==
    /\ x <= lastId
    /\ \A o \in db.objects : o.id # x
    /\ \A q \in Requests : x \notin IdsOf(put[q].objects)

\* What has become of the existing objects of a body: /objects/bulk_upsert has seen them,
\* the others miss none of theirs.
ExistingAreHeld(r) ==
    /\ pc[r] = "check" => todo[r] = Existing(r)
    /\ pc[r] = "update" => todo[r] \subseteq Existing(r)
    /\ pc[r] \in {"update", "data"} =>
          \A x \in Existing(r) \ (IF pc[r] = "update" THEN todo[r] ELSE {}) :
              x \in IdsOf(put[r].objects) \/ (Typed(r) /\ Dead(x))
    /\ pc[r] = "update" /\ Typed(r) =>
          \A x \in Existing(r) :
              /\ x \in IdsOf(put[r].objects) \cup IdsOf(db.objects) \/ Dead(x)
              /\ \A o \in put[r].objects \cup db.objects : o.id = x => o.type = body[r].writes[x].type

\* The composite objects are written by the time their contents are.
CompositesAreHeld(r) ==
    /\ pc[r] \in Upserting /\ (part[r] = "subobjects" \/ pc[r] \in {"unlink", "link"}) =>
          \A c \in Composites(r) : \E o \in put[r].objects : o.id = IdOf(r, c) /\ o.type = "composite"
    /\ pc[r] = "link" =>
          \A d \in Seen(r).data : d.id \in CompositeIds(r) => d.by = r

RequestInv(r) ==
    /\ RouteShape(r) /\ WritesAreHeld(r) /\ SeenIsWhole(r) /\ DeletesAreLast(r)
    /\ TypesKept(r) /\ ExistingAreHeld(r) /\ CompositesAreHeld(r)

IInv ==
    /\ TypeOK
    /\ IdsAreTaken /\ RowsAreLocked
    /\ \A x \in Ids : WholeAt(db, x)
    /\ \A r \in Requests : RequestInv(r)

-----------------------------------------------------------------------------
(* Rows *)

\* In u, the object x has what it has in t, but for contents.
Keeps(t, u, x) ==
    /\ \A o \in t.objects \cup u.objects : o.id = x => o \in t.objects /\ o \in u.objects
    /\ \A d \in t.data \cup u.data : d.id = x => d \in t.data /\ d \in u.data
    /\ \A i \in t.items \cup u.items : i.id = x => i \in t.items /\ (i \in u.items \/ i.sub # 0)

LEMMA KeepsWhole ==
  ASSUME NEW t, NEW u, NEW x, Keeps(t, u, x), WholeAt(t, x)
  PROVE  WholeAt(u, x)
<1>1. CASE NothingAt(t, x)
  BY <1>1 DEF Keeps, WholeAt, NothingAt
<1>2. ASSUME NEW o \in t.objects, NEW d \in t.data, ObjectAt(t, x, o, d)
      PROVE  o \in u.objects /\ d \in u.data /\ ObjectAt(u, x, o, d)
  <2>1. o \in u.objects /\ d \in u.data
    BY <1>2 DEF Keeps, ObjectAt
  <2>2. o.type = "to_do_list" => \E i \in u.items : i.id = x
    BY <1>2 DEF Keeps, ObjectAt
  <2> QED
    BY <1>2, <2>1, <2>2 DEF Keeps, ObjectAt
<1> QED
  BY <1>1, <1>2 DEF WholeAt

LEMMA KeepsBare ==
  ASSUME NEW t, NEW u, NEW x, NEW type, Keeps(t, u, x), BareAt(t, x, type)
  PROVE  BareAt(u, x, type)
  BY DEF Keeps, BareAt

LEMMA KeepsNothing ==
  ASSUME NEW t, NEW u, NEW x, Keeps(t, u, x), NothingAt(t, x)
  PROVE  NothingAt(u, x)
  BY DEF Keeps, NothingAt

\* What a statement that replaces rows does to the tables of its request.
LEMMA Replaced ==
  ASSUME TypeOK, NEW r \in Requests, NEW old, NEW new, Replace(r, old, new), db' = db
  PROVE  /\ \A q \in Requests \ {r} : put'[q] = put[q] /\ cut'[q] = cut[q]
         /\ cut'[r].objects = cut[r].objects \cup old.objects
         /\ cut'[r].data = cut[r].data \cup old.data
         /\ cut'[r].items = cut[r].items \cup old.items
         /\ put'[r].objects = (put[r].objects \ old.objects) \cup new.objects
         /\ put'[r].data = (put[r].data \ old.data) \cup new.data
         /\ put'[r].items = (put[r].items \ old.items) \cup new.items
         /\ Seen(r)'.objects = (Seen(r).objects \ old.objects) \cup new.objects
         /\ Seen(r)'.data = (Seen(r).data \ old.data) \cup new.data
         /\ Seen(r)'.items = (Seen(r).items \ old.items) \cup new.items
<1>1. /\ cut' = [cut EXCEPT ![r] = Plus(@, old)]
      /\ put' = [put EXCEPT ![r] = Plus(Less(@, old), new)]
      /\ cut \in [Requests -> Tables] /\ put \in [Requests -> Tables]
  BY DEF Replace, TypeOK
<1>2. cut'[r] = Plus(cut[r], old) /\ put'[r] = Plus(Less(put[r], old), new)
  BY <1>1
<1>3. \A q \in Requests \ {r} : put'[q] = put[q] /\ cut'[q] = cut[q]
  BY <1>1
<1>4. /\ cut'[r].objects = cut[r].objects \cup old.objects
      /\ cut'[r].data = cut[r].data \cup old.data
      /\ cut'[r].items = cut[r].items \cup old.items
      /\ put'[r].objects = (put[r].objects \ old.objects) \cup new.objects
      /\ put'[r].data = (put[r].data \ old.data) \cup new.data
      /\ put'[r].items = (put[r].items \ old.items) \cup new.items
  BY <1>2 DEF Plus, Less
<1>5. /\ Seen(r)'.objects = (db.objects \ cut'[r].objects) \cup put'[r].objects
      /\ Seen(r)'.data = (db.data \ cut'[r].data) \cup put'[r].data
      /\ Seen(r)'.items = (db.items \ cut'[r].items) \cup put'[r].items
  BY DEF Seen, Plus, Less
<1>6. /\ Seen(r).objects = (db.objects \ cut[r].objects) \cup put[r].objects
      /\ Seen(r).data = (db.data \ cut[r].data) \cup put[r].data
      /\ Seen(r).items = (db.items \ cut[r].items) \cup put[r].items
  BY DEF Seen, Plus, Less
<1> QED
  BY <1>3, <1>4, <1>5, <1>6

\* It leaves the tables of which it replaces nothing.
LEMMA NotReplaced ==
  ASSUME TypeOK, NEW r \in Requests, NEW old, NEW new, Replace(r, old, new), db' = db
  PROVE  /\ old.objects = {} /\ new.objects = {} =>
               Seen(r)'.objects = Seen(r).objects /\ put'[r].objects = put[r].objects /\ cut'[r].objects = cut[r].objects
         /\ old.data = {} /\ new.data = {} =>
               Seen(r)'.data = Seen(r).data /\ put'[r].data = put[r].data /\ cut'[r].data = cut[r].data
         /\ old.items = {} /\ new.items = {} =>
               Seen(r)'.items = Seen(r).items /\ put'[r].items = put[r].items /\ cut'[r].items = cut[r].items
<1>1. /\ cut'[r].objects = cut[r].objects \cup old.objects
      /\ put'[r].objects = (put[r].objects \ old.objects) \cup new.objects
      /\ Seen(r)'.objects = (Seen(r).objects \ old.objects) \cup new.objects
  BY Replaced
<1>2. /\ cut'[r].data = cut[r].data \cup old.data
      /\ put'[r].data = (put[r].data \ old.data) \cup new.data
      /\ Seen(r)'.data = (Seen(r).data \ old.data) \cup new.data
  BY Replaced
<1>3. /\ cut'[r].items = cut[r].items \cup old.items
      /\ put'[r].items = (put[r].items \ old.items) \cup new.items
      /\ Seen(r)'.items = (Seen(r).items \ old.items) \cup new.items
  BY Replaced
<1> QED
  BY <1>1, <1>2, <1>3

\* Likewise one that only inserts.
LEMMA Inserted ==
  ASSUME TypeOK, NEW r \in Requests, NEW new, Put(r, new), cut' = cut, db' = db
  PROVE  /\ \A q \in Requests \ {r} : put'[q] = put[q] /\ cut'[q] = cut[q]
         /\ put'[r].objects = put[r].objects \cup new.objects
         /\ put'[r].data = put[r].data \cup new.data
         /\ put'[r].items = put[r].items \cup new.items
         /\ Seen(r)'.objects = Seen(r).objects \cup new.objects
         /\ Seen(r)'.data = Seen(r).data \cup new.data
         /\ Seen(r)'.items = Seen(r).items \cup new.items
<1>1. put' = [put EXCEPT ![r] = Plus(@, new)] /\ put \in [Requests -> Tables]
  BY DEF Put, TypeOK
<1>2. put'[r] = Plus(put[r], new) /\ \A q \in Requests \ {r} : put'[q] = put[q] /\ cut'[q] = cut[q]
  BY <1>1
<1>3. /\ put'[r].objects = put[r].objects \cup new.objects
      /\ put'[r].data = put[r].data \cup new.data
      /\ put'[r].items = put[r].items \cup new.items
  BY <1>2 DEF Plus
<1> QED
  BY <1>2, <1>3 DEF Seen, Plus, Less

\* What a request sees.
LEMMA SeenRows ==
  ASSUME NEW r \in Requests
  PROVE  /\ Seen(r).objects = (db.objects \ cut[r].objects) \cup put[r].objects
         /\ Seen(r).data = (db.data \ cut[r].data) \cup put[r].data
         /\ Seen(r).items = (db.items \ cut[r].items) \cup put[r].items
  BY DEF Seen, Plus, Less

\* A request sees of what it does not hold what is committed, but for contents.
LEMMA SeesCommitted ==
  ASSUME IInv, NEW r \in Requests, NEW x, x \notin Held(r)
  PROVE  Keeps(db, Seen(r), x)
<1>1. /\ \A o \in put[r].objects \cup cut[r].objects : o.id # x
      /\ \A d \in put[r].data \cup cut[r].data : d.id # x
      /\ \A i \in put[r].items : i.id # x
      /\ \A i \in cut[r].items : i.id = x => i.sub \in Gone(r)
  BY DEF IInv, RequestInv, WritesAreHeld, Held, IdsOf
<1>2. 0 \notin Gone(r)
  BY DEF IInv, TypeOK, Tables, ObjectRow, Ids, Gone, IdsOf
<1> QED
  BY <1>1, <1>2, SeenRows DEF Keeps

\* Nothing has an id that was not given out.
LEMMA NothingBeyond ==
  ASSUME IInv, NEW r \in Requests, NEW x \in Ids, x > lastId
  PROVE  NothingAt(Seen(r), x)
<1>1. lastId \in Nat /\ \A o \in db.objects \cup put[r].objects \cup cut[r].objects : o.id \in Int
  BY ObjectAssumption DEF IInv, TypeOK, Tables, ObjectRow, Ids
<1>2. x \notin Held(r)
  BY <1>1 DEF IInv, IdsAreTaken, Ids
<1>3. NothingAt(db, x)
  <2>1. \A o \in db.objects : o.id # x
    BY <1>1 DEF IInv, IdsAreTaken, Ids
  <2>2. WholeAt(db, x)
    BY DEF IInv
  <2> QED
    BY <2>1, <2>2 DEF WholeAt, ObjectAt
<1> QED
  BY <1>2, <1>3, SeesCommitted, KeepsNothing

\* Objects have one row.
LEMMA OneRow ==
  ASSUME IInv, NEW r \in Requests,
         NEW o \in Seen(r).objects, NEW p \in Seen(r).objects, o.id = p.id
  PROVE  o = p /\ o.id \in Ids
<1>1. o.id \in Ids
  BY SeenRows DEF IInv, TypeOK, Tables, ObjectRow
<1>2. CASE o.id \notin Held(r)
  <2>1. WholeAt(db, o.id)
    BY <1>1 DEF IInv
  <2> QED
    BY <1>1, <1>2, <2>1, SeesCommitted, KeepsWhole DEF WholeAt, NothingAt, ObjectAt
<1>3. CASE o.id \in PendingIds(r)
  BY <1>1, <1>3 DEF IInv, RequestInv, SeenIsWhole, PendingIds, BareAt
<1>4. CASE o.id \in Gone(r)
  BY <1>4 DEF IInv, RequestInv, DeletesAreLast
<1>5. CASE o.id \in Held(r) \ (PendingIds(r) \cup Gone(r))
  BY <1>1, <1>5 DEF IInv, RequestInv, SeenIsWhole, WholeAt, NothingAt, ObjectAt
<1> QED
  BY <1>2, <1>3, <1>4, <1>5

-----------------------------------------------------------------------------
(* Steps of one request *)

\* A step of r that commits nothing.
StepOf(r) ==
    /\ db' = db /\ lastId' \in lastId .. MaxId
    /\ \A q \in Requests \ {r} :
          /\ pc'[q] = pc[q] /\ body'[q] = body[q] /\ part'[q] = part[q] /\ todo'[q] = todo[q]
          /\ ids'[q] = ids[q] /\ put'[q] = put[q] /\ cut'[q] = cut[q]

\* It writes objects that it saw, or new ones.
WritesSeen(r) ==
    \A x \in IdsOf(put'[r].objects) : x \in IdsOf(Seen(r).objects) \/ x > lastId

LEMMA DeadStays ==
  ASSUME IInv, NEW r \in Requests, StepOf(r), WritesSeen(r), NEW x \in Ids, Dead(x)
  PROVE  Dead(x)'
<1>1. x \notin IdsOf(Seen(r).objects)
  BY SeenRows DEF Dead, IdsOf
<1>2. x \in Int /\ x <= lastId /\ lastId \in Int /\ lastId' \in Int /\ lastId <= lastId'
  BY ObjectAssumption DEF StepOf, IInv, TypeOK, Dead, Ids
<1>3. \A y \in IdsOf(put'[r].objects) : y # x
  BY <1>1, <1>2 DEF WritesSeen, Dead
<1>4. \A q \in Requests : x \notin IdsOf(put'[q].objects)
  BY <1>3 DEF StepOf, Dead
<1>5. x <= lastId' /\ \A o \in db'.objects : o.id # x
  BY <1>2 DEF Dead, StepOf
<1> QED
  BY <1>4, <1>5 DEF Dead

\* What is kept of the invariant by a step that leaves everything of a request alone.
LEMMA OthersStay ==
  ASSUME IInv, NEW r \in Requests, StepOf(r), WritesSeen(r), NEW q \in Requests \ {r}
  PROVE  RequestInv(q)'
<1>1. /\ pc'[q] = pc[q] /\ body'[q] = body[q] /\ part'[q] = part[q] /\ todo'[q] = todo[q]
      /\ ids'[q] = ids[q] /\ put'[q] = put[q] /\ cut'[q] = cut[q] /\ db' = db
  BY DEF StepOf
<1>2. Seen(q)' = Seen(q) /\ Held(q)' = Held(q) /\ Gone(q)' = Gone(q)
  BY <1>1 DEF Seen, Held, Gone
<1>3. /\ Given(q)' = Given(q) /\ Pending(q)' = Pending(q) /\ PendingIds(q)' = PendingIds(q)
      /\ Existing(q)' = Existing(q) /\ Typed(q)' = Typed(q) /\ Open(q)' = Open(q)
      /\ Composites(q)' = Composites(q) /\ CompositeIds(q)' = CompositeIds(q)
      /\ \A c \in Refs : IdOf(q, c)' = IdOf(q, c)
  BY <1>1 DEF Given, Pending, PendingIds, Existing, Pieces, Typed, Open, Composites, CompositeIds, IdOf
<1>4. RequestInv(q)
  BY DEF IInv
<1>5. RouteShape(q)'
  BY <1>1, <1>3, <1>4 DEF RequestInv, RouteShape, MainIsComposite
<1>6. WritesAreHeld(q)'
  BY <1>1, <1>2, <1>4 DEF RequestInv, WritesAreHeld
<1>7. SeenIsWhole(q)'
  BY <1>1, <1>2, <1>3, <1>4 DEF RequestInv, SeenIsWhole
<1>8. DeletesAreLast(q)'
  BY <1>1, <1>2, <1>4 DEF RequestInv, DeletesAreLast
<1>9. TypesKept(q)'
  BY <1>1, <1>4 DEF RequestInv, TypesKept
<1>10. ExistingAreHeld(q)'
  <2>1. \A x \in Existing(q) : Dead(x) => Dead(x)'
    BY DeadStays DEF Existing
  <2> QED
    BY <1>1, <1>3, <1>4, <2>1 DEF RequestInv, ExistingAreHeld
<1>11. CompositesAreHeld(q)'
  <2>1. \A c \in Composites(q) : IdOf(q, c)' = IdOf(q, c)
    BY <1>3 DEF Composites, Asked
  <2> QED
    BY <1>1, <1>2, <1>3, <1>4, <2>1 DEF RequestInv, CompositesAreHeld
<1> QED
  BY <1>5, <1>6, <1>7, <1>8, <1>9, <1>10, <1>11 DEF RequestInv

\* A step of r that locks only what nobody has locked keeps the invariant, if it keeps
\* that of r.
LEMMA StepKeeps ==
  ASSUME IInv, TypeOK', NEW r \in Requests, StepOf(r), WritesSeen(r), RequestInv(r)',
         \A x \in Held(r)' \ Held(r) : x <= lastId' /\ \A q \in Requests \ {r} : x \notin Held(q)
  PROVE  IInv'
<1>1. db' = db /\ \A q \in Requests \ {r} : Held(q)' = Held(q)
  BY DEF StepOf, Held
<1>2. lastId \in Int /\ lastId' \in Int /\ lastId <= lastId'
  BY ObjectAssumption DEF StepOf, IInv, TypeOK
<1>3. \A q \in Requests : Held(q) \subseteq Int
  BY DEF IInv, TypeOK, Tables, ObjectRow, Ids, Held, IdsOf
<1>4. IdsAreTaken'
  <2>1. \A o \in db.objects : o.id \in Int /\ o.id <= lastId
    BY DEF IInv, TypeOK, Tables, ObjectRow, Ids, IdsAreTaken
  <2>2. ASSUME NEW q \in Requests, NEW x \in Held(q)'
        PROVE  x <= lastId'
    <3>1. CASE x \in Held(q)
      BY <1>2, <1>3, <3>1 DEF IInv, IdsAreTaken
    <3>2. CASE x \notin Held(q)
      BY <1>1, <2>2, <3>2
    <3> QED
      BY <3>1, <3>2
  <2> QED
    BY <1>1, <1>2, <2>1, <2>2 DEF IdsAreTaken
<1>5. RowsAreLocked'
  BY <1>1 DEF IInv, RowsAreLocked
<1>6. \A x \in Ids : WholeAt(db, x)'
  BY <1>1 DEF IInv
<1>7. \A q \in Requests : RequestInv(q)'
  BY OthersStay
<1> QED
  BY <1>4, <1>5, <1>6, <1>7 DEF IInv

\* A request that has ended holds nothing.
LEMMA Ended ==
  ASSUME NEW r \in Requests,
         pc'[r] = "done" /\ put'[r] = NoRows /\ cut'[r] = NoRows /\ part'[r] = "main"
  PROVE  RequestInv(r)' /\ Held(r)' = {}
<1>1. Held(r)' = {} /\ Gone(r)' = {} /\ Given(r)' = {} /\ Pending(r)' = {} /\ ~ Open(r)'
  BY DEF Held, Gone, IdsOf, NoRows, Given, Pending, Open
<1>2. RouteShape(r)'
  BY <1>1 DEF RouteShape
<1>3. WritesAreHeld(r)' /\ TypesKept(r)'
  BY <1>1 DEF WritesAreHeld, TypesKept, NoRows, IdsOf
<1>4. SeenIsWhole(r)' /\ DeletesAreLast(r)'
  BY <1>1 DEF SeenIsWhole, DeletesAreLast
<1>5. ExistingAreHeld(r)' /\ CompositesAreHeld(r)'
  BY DEF ExistingAreHeld, CompositesAreHeld, Upserting
<1> QED
  BY <1>1, <1>2, <1>3, <1>4, <1>5 DEF RequestInv

LEMMA RefuseKeeps ==
  ASSUME IInv, TypeOK', NEW r \in Requests, NEW status, Refuse(r, status)
  PROVE  IInv'
<1> USE DEF Refuse, End, Goto, tableVars
<1>1. StepOf(r)
  BY ObjectAssumption DEF StepOf, IInv, TypeOK
<1>2. pc'[r] = "done" /\ put'[r] = NoRows /\ cut'[r] = NoRows /\ part'[r] = "main"
  BY DEF IInv, TypeOK
<1>3. RequestInv(r)' /\ Held(r)' = {}
  BY <1>2, Ended
<1>4. WritesSeen(r)
  BY <1>2 DEF WritesSeen, NoRows, IdsOf
<1> QED
  BY <1>1, <1>3, <1>4, StepKeeps

\* A step that neither writes nor locks, before a request deletes.
LEMMA ReadKeeps ==
  ASSUME IInv, TypeOK', NEW r \in Requests, StepOf(r), lastId' = lastId,
         put' = put, cut' = cut, ids' = ids, body' = body,
         Given(r)' = Given(r), Pending(r)' = Pending(r),
         pc[r] \notin {"delete", "cascade", "commit"},
         RouteShape(r)', ExistingAreHeld(r)', CompositesAreHeld(r)'
  PROVE  IInv'
<1>1. Seen(r)' = Seen(r) /\ Held(r)' = Held(r) /\ Gone(r)' = Gone(r) /\ PendingIds(r)' = PendingIds(r)
  BY DEF StepOf, Seen, Held, Gone, PendingIds
<1>2. RequestInv(r)
  BY DEF IInv
<1>3. WritesAreHeld(r)' /\ TypesKept(r)'
  BY <1>1, <1>2 DEF RequestInv, WritesAreHeld, TypesKept, StepOf
<1>4. SeenIsWhole(r)'
  BY <1>1, <1>2 DEF RequestInv, SeenIsWhole
<1>5. Gone(r) = {}
  BY <1>2 DEF RequestInv, DeletesAreLast
<1>6. DeletesAreLast(r)'
  BY <1>1, <1>5 DEF DeletesAreLast
<1>7. RequestInv(r)'
  BY <1>3, <1>4, <1>6 DEF RequestInv
<1>8. WritesSeen(r)
  BY SeenRows DEF WritesSeen, IdsOf
<1> QED
  BY <1>1, <1>7, <1>8, StepKeeps

LEMMA BeginKeeps ==
  ASSUME IInv, TypeOK', NEW r \in Requests, Begin(r)
  PROVE  IInv'
<1> USE DEF Begin, Goto, tableVars, writeVars
<1>1. PICK b \in Bodies :
         /\ body' = [body EXCEPT ![r] = b]
         /\ IF RouteRefusal(b) # 0 THEN Goto(r, "done") ELSE Goto(r, FirstStep(b))
  OBVIOUS
<1>2. StepOf(r)
  BY <1>1, ObjectAssumption DEF StepOf, IInv, TypeOK
<1>3. put'[r] = NoRows /\ cut'[r] = NoRows /\ part'[r] = "main"
  BY DEF IInv, RequestInv, RouteShape, Open
<1>4. body'[r] = b /\ pc'[r] = IF RouteRefusal(b) # 0 THEN "done" ELSE FirstStep(b)
  BY <1>1 DEF IInv, TypeOK
<1>5. WritesSeen(r)
  BY <1>3 DEF WritesSeen, NoRows, IdsOf
<1>6. CASE RouteRefusal(b) # 0
  BY <1>2, <1>3, <1>4, <1>5, <1>6, Ended, StepKeeps
<1>7. CASE RouteRefusal(b) = 0
  <2>1. Accepted(b) /\ b \in Body
    BY ObjectAssumption
  <2>2. b.route # "view" => b.issuer \in Users
    BY <1>7, <2>1 DEF RouteRefusal, Body
  <2>3. FirstStep(b) \in StepsOf(b.route) /\ FirstStep(b) \in {"insert", "authorize", "attributes", "subobjects", "authorize_delete"}
    <3>1. b.route \in {"add", "update", "bulk_upsert", "delete", "view"}
      BY <2>1 DEF Body, Routes
    <3>2. CASE b.route \in {"add", "bulk_upsert"}
      BY <3>2 DEF FirstStep, StepsOf
    <3>3. CASE b.route = "update"
      BY <3>3 DEF FirstStep, StepsOf
    <3>4. CASE b.route = "delete"
      BY <3>4 DEF FirstStep, StepsOf
    <3>5. CASE b.route = "view"
      BY <3>5 DEF FirstStep, StepsOf
    <3> QED
      BY <3>1, <3>2, <3>3, <3>4, <3>5
  <2>4. FirstStep(b) = "insert" => b.route \in {"add", "bulk_upsert"}
    BY <2>1 DEF FirstStep, Body, Routes
  <2>5. RouteShape(r)'
    BY <1>3, <1>4, <1>7, <2>2, <2>3, <2>4 DEF RouteShape, Open, Typed
  <2>6. Given(r)' = {} /\ Pending(r)' = {}
    <3>1. FirstStep(b) = "authorize" => b.route = "update" /\ b.main \notin NewIds
      BY <2>1 DEF FirstStep, Body, Routes, Accepted, AcceptedUntyped
    <3> QED
      BY <1>3, <1>4, <1>7, <2>3, <3>1 DEF Given, Pending, Typed
  <2>7. Held(r)' = {} /\ Gone(r)' = {}
    BY <1>3 DEF Held, Gone, IdsOf, NoRows
  <2>8. WritesAreHeld(r)' /\ TypesKept(r)' /\ SeenIsWhole(r)' /\ DeletesAreLast(r)'
    BY <1>3, <2>6, <2>7 DEF WritesAreHeld, TypesKept, SeenIsWhole, DeletesAreLast, NoRows, IdsOf
  <2>9. ExistingAreHeld(r)' /\ CompositesAreHeld(r)'
    BY <1>3, <1>4, <1>7, <2>3 DEF ExistingAreHeld, CompositesAreHeld
  <2> QED
    BY <1>2, <1>5, <2>5, <2>7, <2>8, <2>9, StepKeeps DEF RequestInv
<1> QED
  BY <1>6, <1>7

LEMMA AuthorizeKeeps ==
  ASSUME IInv, TypeOK', NEW r \in Requests, Authorize(r)
  PROVE  IInv'
<1>1. CASE Refuse(r, 403)
  BY <1>1, RefuseKeeps
<1>2. CASE ~ Refuse(r, 403)
  <2> USE <1>2 DEF Authorize, Goto, tableVars, writeVars
  <2>1. StepOf(r) /\ lastId' = lastId /\ put' = put /\ cut' = cut /\ ids' = ids /\ body' = body /\ part' = part
    BY ObjectAssumption DEF StepOf, IInv, TypeOK
  <2>2. pc[r] = "authorize" /\ pc'[r] = (IF Typed(r) THEN "check" ELSE "update") /\ todo'[r] = Existing(r)
    BY DEF IInv, TypeOK
  <2>3. Typed(r)' = Typed(r) /\ Existing(r)' = Existing(r)
    BY <2>1 DEF Typed, Existing, Pieces
  <2>4. Given(r)' = Given(r) /\ Pending(r)' = Pending(r)
    BY <2>1, <2>2, <2>3 DEF Given, Pending
  <2>5. RouteShape(r)
    BY DEF IInv, RequestInv
  <2>6. RouteShape(r)'
    BY <2>1, <2>2, <2>3, <2>5 DEF RouteShape, Open, Typed, StepsOf, MainIsComposite
  <2>7. ExistingAreHeld(r)'
    BY <2>1, <2>2, <2>3 DEF ExistingAreHeld
  <2>8. CompositesAreHeld(r)'
    BY <2>1, <2>2 DEF IInv, RequestInv, CompositesAreHeld, Upserting, Composites, IdOf
  <2> QED
    BY <2>1, <2>2, <2>4, <2>6, <2>7, <2>8, ReadKeeps
<1> QED
  BY <1>1, <1>2

LEMMA CheckExistingKeeps ==
  ASSUME IInv, TypeOK', NEW r \in Requests, CheckExisting(r)
  PROVE  IInv'
<1>1. CASE Refuse(r, 400)
  BY <1>1, RefuseKeeps
<1>2. CASE ~ Refuse(r, 400)
  <2> USE <1>2 DEF CheckExisting, Goto, tableVars, writeVars, workVars
  <2>1. /\ StepOf(r) /\ lastId' = lastId /\ db' = db
        /\ put' = put /\ cut' = cut /\ ids' = ids /\ body' = body /\ part' = part
    BY ObjectAssumption DEF StepOf, IInv, TypeOK
  <2>2. pc[r] = "check" /\ pc'[r] = "update" /\ todo'[r] = todo[r] /\ HaveTypes(r, Existing(r))
    BY DEF IInv, TypeOK
  <2>3. Typed(r)' = Typed(r) /\ Existing(r)' = Existing(r)
    BY <2>1 DEF Typed, Existing, Pieces
  <2>4. Given(r)' = Given(r) /\ Pending(r)' = Pending(r)
    BY <2>1, <2>2, <2>3 DEF Given, Pending
  <2>5. RequestInv(r)
    BY DEF IInv
  <2>6. RouteShape(r)'
    BY <2>1, <2>2, <2>3, <2>5 DEF RequestInv, RouteShape, Open, Typed, StepsOf, MainIsComposite
  <2>7. CompositesAreHeld(r)'
    BY <2>1, <2>2, <2>5 DEF RequestInv, CompositesAreHeld, Upserting, Composites, IdOf
  <2>8. todo[r] = Existing(r)
    BY <2>2, <2>5 DEF RequestInv, ExistingAreHeld
  <2>9. ASSUME NEW x \in Existing(r)
        PROVE  /\ x \in IdsOf(put[r].objects) \cup IdsOf(db.objects)
               /\ \A o \in put[r].objects \cup db.objects : o.id = x => o.type = body[r].writes[x].type
    <3>1. x \in Ids /\ IdOf(r, x) = x
      BY <2>9, ObjectAssumption DEF Existing, IdOf, Ids, NewIds
    <3>2. PICK o \in Seen(r).objects : o.id = x /\ o.type = body[r].writes[x].type
      BY <2>2, <2>9, <3>1 DEF HaveTypes, Visible
    <3>3. \A p \in put[r].objects : p.id = x => p = o
      BY <3>2, SeenRows, OneRow
    <3>4. \A p \in db.objects : p.id = x => p.type = o.type
      <4>1. CASE o \in put[r].objects
        BY <2>5, <3>2, <4>1 DEF RequestInv, TypesKept
      <4>2. CASE o \in db.objects
        <5>1. WholeAt(db, x)
          BY <3>1 DEF IInv
        <5> QED
          BY <3>2, <4>2, <5>1 DEF WholeAt, NothingAt, ObjectAt
      <4> QED
        BY <4>1, <4>2, <3>2, SeenRows
    <3> QED
      BY <3>2, <3>3, <3>4, SeenRows DEF IdsOf
  <2>10. ExistingAreHeld(r)'
    BY <2>1, <2>2, <2>3, <2>8, <2>9 DEF ExistingAreHeld
  <2> QED
    BY <2>1, <2>2, <2>4, <2>6, <2>7, <2>10, ReadKeeps
<1> QED
  BY <1>1, <1>2

\* The ids of new objects are different, and follow those that were given out.
LEMMA Ranks ==
  ASSUME NEW new \in SUBSET NewIds
  PROVE  /\ Cardinality(new) \in Nat
         /\ \A c \in new : Rank(c, new) \in 1 .. Cardinality(new)
         /\ \A c, d \in new : Rank(c, new) = Rank(d, new) => c = d
<1> DEFINE From(c) == {d \in new : d >= c}
<1>1. IsFiniteSet(new)
  <2>1. IsFiniteSet(NewIds)
    BY FS_Interval, ObjectAssumption DEF NewIds
  <2> QED
    BY <2>1, FS_Subset
<1>2. Cardinality(new) \in Nat
  BY <1>1, FS_CardinalityType
<1>3. ASSUME NEW c \in new
      PROVE  IsFiniteSet(From(c)) /\ Rank(c, new) = Cardinality(From(c)) /\ Rank(c, new) \in 1 .. Cardinality(new)
  <2>1. From(c) \subseteq new /\ c \in From(c) /\ IsFiniteSet(From(c))
    <3>1. c \in Int
      BY ObjectAssumption DEF NewIds
    <3> QED
      BY <1>1, <3>1, FS_Subset
  <2>2. Cardinality(From(c)) \in Nat /\ Cardinality(From(c)) <= Cardinality(new) /\ Cardinality(From(c)) # 0
    BY <1>1, <2>1, FS_Subset, FS_EmptySet, FS_CardinalityType
  <2> QED
    BY <1>2, <2>1, <2>2 DEF Rank
<1>4. ASSUME NEW c \in new, NEW d \in new, c < d
      PROVE  Rank(c, new) # Rank(d, new)
  <2>1. \A e \in new : e \in Int
    BY ObjectAssumption DEF NewIds
  <2>2. From(d) \subseteq From(c) /\ c \in From(c) /\ c \notin From(d)
    BY <1>4, <2>1
  <2> HIDE DEF From
  <2> QED
    BY <1>3, <2>2, FS_Subset
<1>5. \A c, d \in new : c # d => c < d \/ d < c
  BY ObjectAssumption DEF NewIds
<1> QED
  BY <1>2, <1>3, <1>4, <1>5

LEMMA InsertKeeps ==
  ASSUME IInv, TypeOK', NEW r \in Requests, InsertObjects(r)
  PROVE  IInv'
<1>1. CASE Refuse(r, 403)
  BY <1>1, RefuseKeeps
<1>2. CASE ~ Refuse(r, 403)
  <2> DEFINE new == Pieces(r) \cap NewIds
             spec(c) == body[r].writes[c]
             id(c) == lastId + Rank(c, new)
             row(c) == [id |-> id(c), type |-> spec(c).type, by |-> r,
                        owner |-> IF spec(c).owner = Unset THEN body[r].issuer ELSE spec(c).owner,
                        published |-> spec(c).published]
             rows == {row(c) : c \in new}
             composite == ~Typed(r) /\ part[r] = "main" /\ SimplePieces(r) = {}
  <2>1. /\ pc[r] = "insert" /\ lastId' = lastId + Cardinality(new) /\ lastId + Cardinality(new) <= MaxId
        /\ ids' = [ids EXCEPT ![r] = [c \in NewIds |-> IF c \in new THEN id(c) ELSE @[c]]]
        /\ Put(r, [NoRows EXCEPT !.objects = rows])
        /\ part' = [part EXCEPT ![r] = IF composite THEN "subobjects" ELSE @]
        /\ Goto(r, IF composite THEN "insert" ELSE IF Existing(r) # {} THEN "authorize" ELSE "data")
        /\ db' = db /\ body' = body /\ cut' = cut /\ todo' = todo
    BY <1>2 DEF InsertObjects, Rank
  <2> HIDE DEF composite
  <2>2. /\ Cardinality(new) \in Nat /\ lastId \in Nat
        /\ \A c \in new : Rank(c, new) \in 1 .. Cardinality(new)
        /\ \A c, d \in new : Rank(c, new) = Rank(d, new) => c = d
    <3>1. new \in SUBSET NewIds /\ lastId \in Nat
      BY ObjectAssumption DEF IInv, TypeOK
    <3> HIDE DEF new
    <3> QED
      BY <3>1, Ranks
  <2>3. /\ \A c \in new : id(c) \in Ids /\ id(c) > lastId /\ id(c) <= lastId'
        /\ \A c, d \in new : id(c) = id(d) => c = d
    <3> HIDE DEF new
    <3> QED
      BY <2>1, <2>2, ObjectAssumption DEF Ids
  <2> HIDE DEF id
  <2>4. StepOf(r)
    BY <2>1, <2>2, ObjectAssumption DEF StepOf, IInv, TypeOK, Goto, Put
  <2>5. /\ ids'[r] = [c \in NewIds |-> IF c \in new THEN id(c) ELSE ids[r][c]]
        /\ part'[r] = (IF composite THEN "subobjects" ELSE part[r])
        /\ pc'[r] = IF composite THEN "insert" ELSE IF Existing(r) # {} THEN "authorize" ELSE "data"
    BY <2>1 DEF IInv, TypeOK, Goto
  <2>6. /\ put'[r].objects = put[r].objects \cup rows /\ put'[r].data = put[r].data /\ put'[r].items = put[r].items
        /\ Seen(r)'.objects = Seen(r).objects \cup rows
        /\ Seen(r)'.data = Seen(r).data /\ Seen(r)'.items = Seen(r).items
    <3> HIDE DEF rows
    <3>1. PICK t : t.objects = rows /\ t.data = {} /\ t.items = {} /\ Put(r, t)
      BY <2>1 DEF NoRows, Put
    <3>2. TypeOK /\ cut' = cut /\ db' = db
      BY <2>1 DEF IInv
    <3>3. put'[r].objects = put[r].objects \cup t.objects
      BY <3>1, <3>2, Inserted
    <3>4. Seen(r)'.objects = Seen(r).objects \cup t.objects
      BY <3>1, <3>2, Inserted
    <3>5. put'[r].data = put[r].data \cup {} /\ put'[r].items = put[r].items \cup {}
      BY <3>1, <3>2, Inserted
    <3>6. Seen(r)'.data = Seen(r).data \cup {} /\ Seen(r)'.items = Seen(r).items \cup {}
      BY <3>1, <3>2, Inserted
    <3> QED
      BY <3>1, <3>3, <3>4, <3>5, <3>6
  <2>7. RequestInv(r) /\ (body[r] \in Bodies => Accepted(body[r]))
    BY ObjectAssumption DEF IInv
  <2>8. /\ cut'[r] = cut[r] /\ Gone(r) = {} /\ Gone(r)' = {}
        /\ \A x : x \in Held(r)' <=> x \in Held(r) \/ \E c \in new : x = id(c)
    <3>1. cut'[r] = cut[r] /\ Gone(r) = {}
      BY <2>1, <2>7 DEF RequestInv, DeletesAreLast
    <3>2. \A x : x \in IdsOf(rows) <=> \E c \in new : x = id(c)
      <4>1. \A c : row(c).id = id(c)
        OBVIOUS
      <4> HIDE DEF new, row
      <4> QED
        BY <4>1 DEF IdsOf
    <3> HIDE DEF rows, new
    <3>3. IdsOf(put'[r].objects) = IdsOf(put[r].objects) \cup IdsOf(rows)
      BY <2>6 DEF IdsOf
    <3> QED
      BY <3>1, <3>2, <3>3 DEF Gone, Held
  <2>9. /\ Given(r)' = Given(r) \cup new /\ Given(r) \cap new = {} /\ Given(r) \subseteq NewIds
        /\ Pending(r) = Given(r) /\ Pending(r)' = Given(r)'
    <3>1. body[r] \in Bodies /\ Accepted(body[r]) /\ body[r] \in Body /\ body[r].route \in {"add", "update", "bulk_upsert"}
      BY <2>1, <2>7, ObjectAssumption DEF RequestInv, RouteShape, Open, StepsOf, Body, Routes
    <3>2. ~Typed(r) => body[r].main \in Asked(body[r])
      BY <3>1 DEF Accepted, AcceptedUntyped, Typed
    <3>3. part[r] \in {"main", "subobjects"} /\ (Typed(r) => part[r] = "main")
      BY <2>7, <2>1 DEF IInv, TypeOK, RequestInv, RouteShape, Open, Typed
    <3>4. Typed(r)' = Typed(r) /\ body'[r] = body[r]
      BY <2>1 DEF Typed
    <3>5. pc'[r] \in {"insert", "authorize", "data"} /\ (pc'[r] = "insert" <=> composite)
      BY <2>5
    <3>6. CASE Typed(r)
      BY <2>1, <2>5, <3>2, <3>3, <3>4, <3>5, <3>6 DEF Given, Pending, Pieces, composite
    <3>7. CASE ~Typed(r) /\ part[r] = "main"
      BY <2>1, <2>5, <3>2, <3>3, <3>4, <3>5, <3>7 DEF Given, Pending, Pieces, composite
    <3>8. CASE ~Typed(r) /\ part[r] = "subobjects"
      BY <2>1, <2>5, <3>2, <3>3, <3>4, <3>5, <3>8 DEF Given, Pending, Pieces, composite
    <3> QED
      BY <3>3, <3>6, <3>7, <3>8
  <2>10. ASSUME NEW x, \A c \in new : x # id(c)
         PROVE  Keeps(Seen(r), Seen(r)', x)
    <3>1. \A o \in rows : o.id # x
      BY <2>10
    <3> HIDE DEF rows
    <3> QED
      BY <2>6, <3>1 DEF Keeps
  <2>11. ASSUME NEW c \in new
         PROVE  BareAt(Seen(r)', id(c), spec(c).type) /\ id(c) \in IdsOf(put'[r].objects)
    <3>1. NothingAt(Seen(r), id(c))
      BY <2>3, NothingBeyond
    <3>2. row(c) \in rows /\ row(c).id = id(c) /\ row(c).type = spec(c).type
      OBVIOUS
    <3>3. \A o \in rows : o.id = id(c) => o = row(c)
      BY <2>3
    <3> HIDE DEF rows, row
    <3> QED
      BY <2>6, <3>1, <3>2, <3>3 DEF BareAt, NothingAt, IdsOf
  <2>12. ASSUME NEW c \in Given(r)
         PROVE  /\ ids'[r][c] = ids[r][c] /\ ids[r][c] \in Ids /\ \A d \in new : ids[r][c] # id(d)
                /\ ids[r][c] \in IdsOf(put[r].objects) /\ BareAt(Seen(r), ids[r][c], spec(c).type)
    <3>1. c \notin new /\ c \in NewIds
      BY <2>9
    <3>2. ids[r][c] \in Ids /\ ids[r][c] \in IdsOf(put[r].objects) /\ BareAt(Seen(r), ids[r][c], spec(c).type)
      BY <2>7, <2>9 DEF RequestInv, SeenIsWhole
    <3>3. ids[r][c] <= lastId
      BY <3>2 DEF IInv, IdsAreTaken, Held
    <3> QED
      BY <2>2, <2>3, <2>5, <3>1, <3>2, <3>3, ObjectAssumption DEF Ids
  <2>13. SeenIsWhole(r)'
    <3>1. \A c \in Given(r)' : ids'[r][c] \in Ids
      BY <2>3, <2>5, <2>9, <2>12
    <3>2. ASSUME NEW c \in Pending(r)'
          PROVE  /\ ids'[r][c] \in IdsOf(put'[r].objects)
                 /\ BareAt(Seen(r)', ids'[r][c], body'[r].writes[c].type)
      <4>1. CASE c \in new
        BY <2>1, <2>5, <2>11, <4>1
      <4>2. CASE c \in Given(r)
        BY <2>1, <2>6, <2>10, <2>12, <4>2, KeepsBare DEF IdsOf
      <4> QED
        BY <2>9, <3>2, <4>1, <4>2
    <3>3. ASSUME NEW x \in Held(r)', x \notin PendingIds(r)'
          PROVE  WholeAt(Seen(r)', x)
      <4>1. \A c \in new : x # id(c)
        BY <2>5, <2>9, <3>3 DEF PendingIds
      <4>2. x \notin PendingIds(r)
        BY <2>5, <2>9, <2>12, <3>3 DEF PendingIds
      <4>3. WholeAt(Seen(r), x)
        BY <2>7, <2>8, <3>3, <4>1, <4>2 DEF RequestInv, SeenIsWhole
      <4> QED
        BY <2>10, <4>1, <4>3, KeepsWhole
    <3> QED
      BY <3>1, <3>2, <3>3 DEF SeenIsWhole
  <2>14. WritesAreHeld(r)' /\ DeletesAreLast(r)'
    <3>1. IdsOf(put'[r].objects) \subseteq Held(r)'
      BY DEF Held
    <3> QED
      BY <2>6, <2>7, <2>8, <3>1 DEF RequestInv, WritesAreHeld, DeletesAreLast
  <2>15. TypesKept(r)' /\ WritesSeen(r)
    <3>1. \A o \in rows : o.id \in Ids /\ o.id > lastId
      BY <2>3
    <3> HIDE DEF rows
    <3>2. \A p \in db.objects : p.id \in Ids /\ p.id <= lastId
      BY DEF IInv, TypeOK, Tables, ObjectRow, IdsAreTaken
    <3>3. \A o \in rows, p \in db.objects : o.id # p.id
      BY <2>2, <3>1, <3>2, ObjectAssumption DEF Ids
    <3> QED
      BY <2>1, <2>6, <2>7, <3>1, <3>3, SeenRows DEF RequestInv, TypesKept, WritesSeen, IdsOf
  <2>16. /\ Typed(r)' = Typed(r) /\ MainIsComposite(r)' = MainIsComposite(r) /\ body'[r] = body[r]
         /\ Open(r) /\ Open(r)' /\ RouteShape(r) /\ Accepted(body[r])
    BY <2>1, <2>5, <2>7 DEF Typed, MainIsComposite, Open, RequestInv, RouteShape
  <2>17. composite => part[r] = "main" /\ ~Typed(r) /\ MainIsComposite(r)
    BY DEF composite, SimplePieces, Pieces, MainIsComposite
  <2>18. ~Typed(r) /\ part[r] = "main" /\ ~composite => ~MainIsComposite(r)
    BY DEF composite, SimplePieces, Pieces, MainIsComposite
  <2>19. RouteShape(r)'
    <3>1. body[r].route \in {"add", "update", "bulk_upsert"}
      BY <2>1, <2>16, ObjectAssumption DEF RouteShape, StepsOf, Body, Routes
    <3>2. pc'[r] \in StepsOf(body[r].route)
      BY <2>5, <3>1 DEF StepsOf
    <3> QED
      BY <2>1, <2>5, <2>16, <2>17, <2>18, <3>1, <3>2 DEF RouteShape, Typed
  <2>20. ExistingAreHeld(r)'
    <3>1. pc'[r] = "data" => Existing(r)' = {}
      BY <2>1, <2>5, <2>16 DEF Existing, Pieces
    <3> QED
      BY <2>5, <3>1 DEF ExistingAreHeld
  <2>21. CompositesAreHeld(r)'
    <3>1. CASE composite
      <4>1. Composites(r)' = {body[r].main} /\ body[r].main \in NewIds
        BY <2>1, <2>16, <2>17, <3>1 DEF RouteShape, Accepted, AcceptedUntyped, Composites, MainIsComposite, Typed
      <4>2. body[r].main \in new /\ spec(body[r].main).type = "composite"
        BY <2>17, <3>1, <4>1 DEF Pieces, MainIsComposite
      <4>3. \E o \in put'[r].objects : o.id = id(body[r].main) /\ o.type = "composite"
        <5>1. row(body[r].main) \in rows /\ row(body[r].main).id = id(body[r].main) /\ row(body[r].main).type = "composite"
          BY <4>2
        <5> HIDE DEF rows, row, new, spec
        <5> QED
          BY <2>6, <5>1
      <4>4. IdOf(r, body[r].main)' = id(body[r].main)
        BY <2>5, <2>16, <4>1, <4>2 DEF IdOf
      <4> HIDE DEF new, row, rows, spec
      <4>5. \A c \in Composites(r)' : c = body'[r].main /\ body'[r].main = body[r].main
        BY <2>16, <4>1
      <4>6. \A c \in Composites(r)' : \E o \in put'[r].objects : o.id = IdOf(r, c)' /\ o.type = "composite"
        BY <4>3, <4>4, <4>5 DEF IdOf
      <4> QED
        BY <2>5, <3>1, <4>6 DEF CompositesAreHeld
    <3>2. CASE part[r] = "subobjects"
      <4>1. /\ Composites(r)' = Composites(r) /\ Composites(r) = {body[r].main} /\ body[r].main \notin new
            /\ ~composite /\ ~Typed(r)
        BY <2>1, <2>16, <3>2 DEF RouteShape, Accepted, AcceptedUntyped, Composites, MainIsComposite, Typed, Pieces, composite
      <4>2. \A c \in Composites(r) : IdOf(r, c)' = IdOf(r, c)
        BY <2>5, <2>16, <4>1 DEF IdOf
      <4>3. \A c \in Composites(r) : \E o \in put[r].objects : o.id = IdOf(r, c) /\ o.type = "composite"
        BY <2>1, <2>7, <3>2 DEF RequestInv, CompositesAreHeld, Upserting
      <4> HIDE DEF new, row, rows, spec
      <4>4. \A c \in Composites(r)' : \E o \in put'[r].objects : o.id = IdOf(r, c)' /\ o.type = "composite"
        BY <2>6, <4>1, <4>2, <4>3
      <4>5. pc'[r] # "link"
        BY <2>5
      <4> QED
        BY <4>4, <4>5 DEF CompositesAreHeld
    <3>3. CASE ~composite /\ part[r] # "subobjects"
      BY <2>5, <3>3 DEF CompositesAreHeld
    <3> QED
      BY <3>1, <3>2, <3>3
  <2>22. ASSUME NEW x \in Held(r)' \ Held(r)
         PROVE  x <= lastId' /\ \A q \in Requests \ {r} : x \notin Held(q)
    <3>1. PICK c \in new : x = id(c)
      BY <2>8, <2>22
    <3>2. x \in Int /\ x > lastId /\ x <= lastId'
      BY <2>3, <3>1, ObjectAssumption DEF Ids
    <3> HIDE DEF new
    <3> QED
      BY <2>2, <3>2 DEF IInv, IdsAreTaken
  <2> HIDE DEF new, row, rows, spec
  <2>23. RequestInv(r)'
    BY <2>13, <2>14, <2>15, <2>19, <2>20, <2>21 DEF RequestInv
  <2> QED
    BY <2>4, <2>15, <2>22, <2>23, StepKeeps
<1> QED
  BY <1>1, <1>2

LEMMA UpdateKeeps ==
  ASSUME IInv, TypeOK', NEW r \in Requests, NEW x \in Ids, UpdateObject(r, x)
  PROVE  IInv'
<1>1. CASE Refuse(r, 400)
  BY <1>1, RefuseKeeps
<1>2. CASE ~ Refuse(r, 400)
  <2> DEFINE spec == body[r].writes[x]
             old == RowsOf(Seen(r), x)
             upd(o) == [o EXCEPT !.published = spec.published, !.by = r,
                                 !.owner = IF spec.owner = Unset THEN @ ELSE spec.owner,
                                 !.type = IF Typed(r) THEN spec.type ELSE @]
             new == {upd(o) : o \in old}
             mistyped == \E o \in new : o.type # spec.type
             composite == ~Typed(r) /\ part[r] = "main" /\ spec.type = "composite"
  <2>1. /\ pc[r] = "update" /\ x \in todo[r] /\ Holders(r, x) = {}
        /\ Typed(r) \/ (old # {} /\ ~(part[r] = "main" /\ mistyped))
        /\ Replace(r, [NoRows EXCEPT !.objects = old], [NoRows EXCEPT !.objects = new])
        /\ todo' = [todo EXCEPT ![r] = @ \ {x}]
        /\ Goto(r, IF todo[r] # {x} THEN "update" ELSE IF composite THEN "insert" ELSE "data")
        /\ part' = [part EXCEPT ![r] = IF composite THEN "subobjects" ELSE @]
        /\ db' = db /\ lastId' = lastId /\ body' = body /\ ids' = ids
    BY <1>2 DEF UpdateObject, tableVars
  <2>2. \A o \in old : o \in Seen(r).objects /\ o.id = x /\ o \in ObjectRow
    BY SeenRows DEF RowsOf, IInv, TypeOK, Tables
  <2>3. \A o \in old : upd(o).id = x /\ upd(o).type = IF Typed(r) THEN spec.type ELSE o.type
    BY <2>2 DEF ObjectRow
  <2>4. \A n \in new : \E o \in old : n = upd(o)
    OBVIOUS
  <2>5. \A o \in old : upd(o) \in new
    OBVIOUS
  <2>6. \A o \in Seen(r).objects : o.id = x => o \in old
    BY DEF RowsOf
  <2> HIDE DEF old, upd, new, mistyped, composite
  <2>7. StepOf(r) /\ RequestInv(r)
    BY <2>1, ObjectAssumption DEF StepOf, IInv, TypeOK, Goto, Replace
  <2>8. /\ todo'[r] = todo[r] \ {x} /\ part'[r] = (IF composite THEN "subobjects" ELSE part[r])
        /\ pc'[r] = IF todo[r] # {x} THEN "update" ELSE IF composite THEN "insert" ELSE "data"
    BY <2>1 DEF IInv, TypeOK, Goto
  <2>9. PICK s, t : /\ s.objects = old /\ s.data = {} /\ s.items = {}
                    /\ t.objects = new /\ t.data = {} /\ t.items = {} /\ Replace(r, s, t)
    BY <2>1 DEF NoRows, Replace
  <2>10. /\ Seen(r)'.objects = (Seen(r).objects \ old) \cup new
         /\ put'[r].objects = (put[r].objects \ old) \cup new
         /\ cut'[r].objects = cut[r].objects \cup old
    <3>1. TypeOK /\ db' = db
      BY <2>1 DEF IInv
    <3>2. Seen(r)'.objects = (Seen(r).objects \ s.objects) \cup t.objects
      BY <2>9, <3>1, Replaced
    <3>3. put'[r].objects = (put[r].objects \ s.objects) \cup t.objects
      BY <2>9, <3>1, Replaced
    <3>4. cut'[r].objects = cut[r].objects \cup s.objects
      BY <2>9, <3>1, Replaced
    <3> QED
      BY <2>9, <3>2, <3>3, <3>4
  <2>11. /\ Seen(r)'.data = Seen(r).data /\ Seen(r)'.items = Seen(r).items
         /\ put'[r].data = put[r].data /\ put'[r].items = put[r].items
         /\ cut'[r].data = cut[r].data /\ cut'[r].items = cut[r].items
    <3>1. TypeOK /\ db' = db
      BY <2>1 DEF IInv
    <3> QED
      BY <2>9, <3>1, NotReplaced
  <2>12. /\ Gone(r) = {} /\ Gone(r)' = {} /\ Held(r)' = Held(r) \cup IdsOf(old)
         /\ IdsOf(put'[r].objects) = IdsOf(put[r].objects) \cup IdsOf(old)
         /\ IdsOf(old) \subseteq {x}
    <3>1. Gone(r) = {}
      BY <2>1, <2>7 DEF RequestInv, DeletesAreLast
    <3>2. \A n \in new : n.id = x
      BY <2>3, <2>4
    <3>3. ASSUME NEW o \in put[r].objects \cup old
          PROVE  \E n \in put'[r].objects : n.id = o.id
      <4>1. CASE o \in old
        BY <2>2, <2>3, <2>5, <2>10, <4>1
      <4>2. CASE o \notin old
        BY <2>10, <3>3, <4>2
      <4> QED
        BY <4>1, <4>2
    <3>4. ASSUME NEW n \in put'[r].objects
          PROVE  \E o \in put[r].objects \cup old : n.id = o.id
      BY <2>2, <2>4, <2>10, <3>2, <3>4
    <3>5. IdsOf(put'[r].objects) = IdsOf(put[r].objects) \cup IdsOf(old)
      BY <3>3, <3>4 DEF IdsOf
    <3>6. IdsOf(cut'[r].objects) = IdsOf(cut[r].objects) \cup IdsOf(old)
      BY <2>10 DEF IdsOf
    <3>7. IdsOf(old) \subseteq {x}
      BY <2>2 DEF IdsOf
    <3>8. IdsOf(cut[r].objects) \subseteq IdsOf(put[r].objects)
      BY <3>1 DEF Gone
    <3> HIDE DEF old, new
    <3>9. Gone(r)' = {}
      BY <3>5, <3>6, <3>8 DEF Gone
    <3>10. Held(r)' = Held(r) \cup IdsOf(old)
      BY <3>5, <3>6 DEF Held
    <3> QED
      BY <3>1, <3>5, <3>7, <3>9, <3>10
  <2>13. ASSUME NEW y, y # x
         PROVE  Keeps(Seen(r), Seen(r)', y)
    BY <2>2, <2>3, <2>4, <2>10, <2>11, <2>13 DEF Keeps
  <2>14. \A o \in old, p \in Seen(r).objects : p.id = x => p = o
    BY <2>2, OneRow
  <2>15. ASSUME NEW o \in old
         PROVE  \A p \in Seen(r)'.objects : p.id = x => p = upd(o)
    <3>1. \A n \in new : n = upd(o)
      BY <2>2, <2>4, <2>14, <2>15
    <3> QED
      BY <2>6, <2>10, <3>1
  <2>16. \A o \in put[r].objects \cup db.objects : Typed(r) /\ o.id = x => o.type = spec.type
    <3>1. x \in Existing(r)
      BY <2>1, <2>7 DEF RequestInv, ExistingAreHeld
    <3> QED
      BY <2>1, <2>7, <3>1 DEF RequestInv, ExistingAreHeld
  <2>17. \A o \in old : upd(o).type = o.type
    <3>1. ASSUME NEW o \in old, Typed(r)
          PROVE  o.type = spec.type
      BY <2>2, <2>16, <3>1, SeenRows
    <3> QED
      BY <2>3, <3>1
  <2>18. WholeAt(Seen(r), x) => WholeAt(Seen(r)', x)
    <3>1. CASE NothingAt(Seen(r), x)
      BY <2>2, <2>4, <2>10, <2>11, <3>1 DEF WholeAt, NothingAt
    <3>2. ASSUME NEW o \in Seen(r).objects, NEW d \in Seen(r).data, ObjectAt(Seen(r), x, o, d)
          PROVE  WholeAt(Seen(r)', x)
      <4>1. o \in old
        BY <2>6, <3>2 DEF ObjectAt
      <4>2. \A p \in Seen(r)'.objects : p.id = x => p = upd(o)
        BY <2>15, <4>1
      <4>3. upd(o) \in Seen(r)'.objects /\ d \in Seen(r)'.data
        BY <2>5, <2>10, <2>11, <4>1
      <4>4. ObjectAt(Seen(r)', x, upd(o), d)
        BY <2>3, <2>11, <2>17, <3>2, <4>1, <4>2, <4>3 DEF ObjectAt
      <4> QED
        BY <4>3, <4>4 DEF WholeAt
    <3> QED
      BY <3>1, <3>2 DEF WholeAt
  <2>19. ASSUME NEW type, BareAt(Seen(r), x, type)
         PROVE  BareAt(Seen(r)', x, type)
    <3>1. PICK o \in Seen(r).objects : o.id = x /\ o.type = type
      BY <2>19 DEF BareAt
    <3>2. o \in old
      BY <2>6, <3>1
    <3>3. upd(o) \in Seen(r)'.objects /\ upd(o).id = x /\ upd(o).type = type
      BY <2>3, <2>5, <2>10, <2>17, <3>1, <3>2
    <3>4. \A p \in Seen(r)'.objects : p.id = x => p = upd(o)
      BY <2>15, <3>2
    <3>5. /\ \A d \in Seen(r)'.data : d.id # x
          /\ \A i \in Seen(r)'.items : i.id # x
      BY <2>11, <2>19 DEF BareAt
    <3> QED
      BY <3>3, <3>4, <3>5 DEF BareAt
  <2>20. /\ todo[r] \subseteq Existing(r)
         /\ composite => /\ todo[r] = {x} /\ x = body[r].main /\ ~Typed(r) /\ part[r] = "main"
                         /\ MainIsComposite(r)
    <3>1. todo[r] \subseteq Existing(r)
      BY <2>1, <2>7 DEF RequestInv, ExistingAreHeld
    <3> QED
      BY <2>1, <3>1 DEF composite, Existing, Pieces, MainIsComposite
  <2>21. /\ Given(r)' = Given(r) /\ Pending(r)' = Pending(r) /\ Pending(r) = Given(r) /\ PendingIds(r)' = PendingIds(r)
         /\ Given(r) \subseteq Asked(body[r]) /\ Given(r) \subseteq NewIds
    <3>1. Typed(r)' = Typed(r) /\ body'[r] = body[r]
      BY <2>1 DEF Typed
    <3>2. /\ body[r] \in Bodies /\ Accepted(body[r]) /\ body[r].route \in {"add", "update", "bulk_upsert"}
          /\ ~Typed(r) => body[r].main \in Asked(body[r])
      BY <2>1, <2>7, ObjectAssumption
         DEF RequestInv, RouteShape, Open, StepsOf, Body, Routes, Accepted, AcceptedUntyped, Typed
    <3>3. part[r] \in {"main", "subobjects"} /\ pc'[r] \in {"update", "insert", "data"}
      BY <2>8 DEF IInv, TypeOK
    <3>4. composite => Given(r)' = Given(r) /\ Given(r) \subseteq Asked(body[r]) /\ Given(r) \subseteq NewIds
      BY <2>1, <2>8, <2>20, <3>1, <3>2 DEF Given
    <3>5. ~composite => Given(r)' = Given(r) /\ Given(r) \subseteq Asked(body[r]) /\ Given(r) \subseteq NewIds
      BY <2>1, <2>8, <3>1, <3>2, <3>3 DEF Given
    <3>6. Given(r)' = Given(r) /\ Given(r) \subseteq Asked(body[r]) /\ Given(r) \subseteq NewIds
      BY <3>4, <3>5
    <3>7. Pending(r) = Given(r) /\ Pending(r)' = Given(r)'
      BY <2>1, <2>8 DEF Pending
    <3> QED
      BY <2>1, <3>6, <3>7 DEF PendingIds
  <2>22. SeenIsWhole(r)'
    <3>1. ids'[r] = ids[r] /\ body'[r] = body[r] /\ SeenIsWhole(r)
      BY <2>1, <2>7 DEF RequestInv
    <3>2. ASSUME NEW c \in Pending(r)
          PROVE  /\ ids[r][c] \in IdsOf(put'[r].objects)
                 /\ BareAt(Seen(r)', ids[r][c], body[r].writes[c].type)
      <4>1. ids[r][c] \in IdsOf(put[r].objects) /\ BareAt(Seen(r), ids[r][c], body[r].writes[c].type)
        BY <3>1 DEF SeenIsWhole
      <4> QED
        BY <2>12, <2>13, <2>19, <4>1, KeepsBare
    <3>3. ASSUME NEW y \in Held(r)' \ PendingIds(r)
          PROVE  WholeAt(Seen(r)', y)
      <4>1. CASE y \in Held(r)
        <5>1. WholeAt(Seen(r), y)
          BY <2>12, <3>1, <3>3, <4>1 DEF SeenIsWhole
        <5> QED
          BY <2>13, <2>18, <5>1, KeepsWhole
      <4>2. CASE y \notin Held(r)
        <5>1. y = x
          BY <2>12, <3>3, <4>2
        <5>2. WholeAt(db, x)
          BY DEF IInv
        <5> QED
          BY <2>18, <4>2, <5>1, <5>2, SeesCommitted, KeepsWhole
      <4> QED
        BY <4>1, <4>2
    <3>4. \A c \in Given(r) : ids[r][c] \in Ids
      BY <3>1 DEF SeenIsWhole
    <3> QED
      BY <2>12, <2>21, <3>1, <3>2, <3>3, <3>4 DEF SeenIsWhole
  <2>23. WritesAreHeld(r)' /\ DeletesAreLast(r)'
    <3>1. WritesAreHeld(r)
      BY <2>7 DEF RequestInv
    <3> QED
      BY <2>11, <2>12, <3>1 DEF WritesAreHeld, DeletesAreLast, Held
  <2>24. TypesKept(r)' /\ WritesSeen(r)
    <3>1. ASSUME NEW o \in old, NEW q \in db.objects, q.id = x
          PROVE  o.type = q.type
      <4>1. CASE o \in put[r].objects
        BY <2>2, <2>7, <3>1, <4>1 DEF RequestInv, TypesKept
      <4>2. CASE o \in db.objects
        <5>1. WholeAt(db, x)
          BY DEF IInv
        <5> QED
          BY <2>2, <3>1, <4>2, <5>1 DEF WholeAt, NothingAt, ObjectAt
      <4> QED
        BY <2>2, <4>1, <4>2, SeenRows
    <3>2. ASSUME NEW n \in put'[r].objects, NEW q \in db.objects, n.id = q.id
          PROVE  n.type = q.type
      <4>1. CASE n \in put[r].objects
        BY <2>7, <3>2, <4>1 DEF RequestInv, TypesKept
      <4>2. CASE n \in new
        BY <2>3, <2>4, <2>17, <3>1, <3>2, <4>2
      <4> QED
        BY <2>10, <4>1, <4>2
    <3>3. IdsOf(old) \subseteq IdsOf(Seen(r).objects) /\ IdsOf(put[r].objects) \subseteq IdsOf(Seen(r).objects)
      BY <2>2, SeenRows DEF IdsOf
    <3> QED
      BY <2>1, <2>12, <3>2, <3>3 DEF TypesKept, WritesSeen
  <2>25. /\ Typed(r)' = Typed(r) /\ MainIsComposite(r)' = MainIsComposite(r) /\ body'[r] = body[r]
         /\ Open(r) /\ Open(r)' /\ RouteShape(r)
         /\ body[r].route \in {"add", "update", "bulk_upsert"}
    BY <2>1, <2>7, <2>8, ObjectAssumption
       DEF Typed, MainIsComposite, Open, RequestInv, RouteShape, StepsOf, Body, Routes
  <2>26. RouteShape(r)'
    <3>1. pc'[r] \in StepsOf(body[r].route)
      BY <2>8, <2>25 DEF StepsOf
    <3>2. ~Typed(r) /\ part'[r] = "main" /\ pc'[r] = "data" => ~MainIsComposite(r)
      BY <2>1, <2>8, <2>20 DEF composite, Existing, Pieces, MainIsComposite
    <3> QED
      BY <2>1, <2>8, <2>20, <2>25, <3>1, <3>2 DEF RouteShape, Typed
  <2>27. ExistingAreHeld(r)'
    <3>1. ExistingAreHeld(r)
      BY <2>7 DEF RequestInv
    <3>2. pc'[r] # "insert" => Existing(r)' = Existing(r)
      BY <2>1, <2>8, <2>20, <2>25 DEF Existing, Pieces
    <3>3. \A y \in Existing(r) : Dead(y) => Dead(y)'
      BY <2>7, <2>24, DeadStays DEF Existing
    <3>4. ASSUME NEW y \in Existing(r), y \notin todo[r] \ {x}
          PROVE  y \in IdsOf(put'[r].objects) \/ (Typed(r) /\ Dead(y))
      <4>1. CASE y # x
        BY <2>1, <2>12, <3>1, <3>4, <4>1 DEF ExistingAreHeld
      <4>2. CASE y = x /\ old # {}
        BY <2>2, <2>12, <4>2 DEF IdsOf
      <4>3. CASE y = x /\ old = {}
        <5>1. Typed(r) /\ (x \in IdsOf(put[r].objects) \cup IdsOf(db.objects) \/ Dead(x))
          BY <2>1, <3>1, <3>4, <4>3 DEF ExistingAreHeld
        <5>2. x \notin IdsOf(Seen(r).objects)
          BY <2>6, <4>3 DEF IdsOf
        <5>3. x \notin IdsOf(put[r].objects)
          BY <5>2, SeenRows DEF IdsOf
        <5>4. x \notin IdsOf(cut[r].objects)
          BY <2>12, <5>3 DEF Gone
        <5>5. x \notin IdsOf(db.objects)
          BY <5>2, <5>4, SeenRows DEF IdsOf
        <5> QED
          BY <4>3, <5>1, <5>3, <5>5
      <4> QED
        BY <4>1, <4>2, <4>3
    <3>5. ASSUME Typed(r), NEW y \in Existing(r)
          PROVE  /\ y \in IdsOf(put'[r].objects) \cup IdsOf(db.objects) \/ Dead(y)
                 /\ \A o \in put'[r].objects \cup db.objects : o.id = y => o.type = body[r].writes[y].type
      <4>1. /\ y \in IdsOf(put[r].objects) \cup IdsOf(db.objects) \/ Dead(y)
            /\ \A o \in put[r].objects \cup db.objects : o.id = y => o.type = body[r].writes[y].type
        BY <2>1, <3>1, <3>5 DEF ExistingAreHeld
      <4>2. \A o \in new : o.id = x /\ o.type = spec.type
        BY <2>3, <2>4, <3>5
      <4> QED
        BY <2>10, <2>12, <4>1, <4>2
    <3> QED
      BY <2>1, <2>8, <2>20, <2>25, <3>2, <3>3, <3>4, <3>5 DEF ExistingAreHeld
  <2>28. CompositesAreHeld(r)'
    <3>1. Composites(r)' = Composites(r) /\ (\A c : IdOf(r, c)' = IdOf(r, c)) /\ pc'[r] \notin {"unlink", "link"}
      BY <2>1, <2>8, <2>25 DEF Composites, IdOf
    <3>2. ASSUME composite, NEW c \in Composites(r)
          PROVE  \E o \in put'[r].objects : o.id = IdOf(r, c) /\ o.type = "composite"
      <4>1. c = x /\ IdOf(r, c) = x
        <5>1. c = body[r].main
          BY <2>20, <2>25, <3>2, ObjectAssumption
             DEF Composites, RouteShape, Accepted, AcceptedUntyped, Typed
        <5> QED
          BY <2>20, <3>2, <5>1, ObjectAssumption DEF IdOf, Ids, NewIds
      <4>2. PICK o \in old : TRUE
        BY <2>1, <2>20, <3>2
      <4>3. upd(o) \in new /\ upd(o).id = x /\ upd(o).type = "composite"
        BY <2>1, <2>3, <2>5, <2>20, <3>2, <4>2 DEF mistyped, composite
      <4> QED
        BY <2>10, <4>1, <4>3
    <3>3. ASSUME part[r] = "subobjects", NEW c \in Composites(r)
          PROVE  \E o \in put'[r].objects : o.id = IdOf(r, c) /\ o.type = "composite"
      <4>1. PICK o \in put[r].objects : o.id = IdOf(r, c) /\ o.type = "composite"
        BY <2>1, <2>7, <3>3 DEF RequestInv, CompositesAreHeld, Upserting
      <4>2. CASE o \in old
        BY <2>2, <2>3, <2>5, <2>10, <2>17, <4>1, <4>2
      <4>3. CASE o \notin old
        BY <2>10, <4>1, <4>3
      <4> QED
        BY <4>2, <4>3
    <3>4. part'[r] = "subobjects" => composite \/ part[r] = "subobjects"
      BY <2>8
    <3> QED
      BY <3>1, <3>2, <3>3, <3>4 DEF CompositesAreHeld
  <2>29. ASSUME NEW y \in Held(r)' \ Held(r)
         PROVE  y <= lastId' /\ \A q \in Requests \ {r} : y \notin Held(q)
    <3>1. y = x /\ \E o \in Seen(r).objects : o.id = x
      BY <2>2, <2>12, <2>29 DEF IdsOf
    <3>2. x \in IdsOf(db.objects) \/ x \in Held(r)
      BY <3>1, SeenRows DEF IdsOf, Held
    <3>3. x <= lastId
      BY <3>2 DEF IInv, IdsAreTaken, IdsOf
    <3> QED
      BY <2>1, <3>1, <3>3 DEF Holders
  <2>30. RequestInv(r)'
    BY <2>22, <2>23, <2>24, <2>26, <2>27, <2>28 DEF RequestInv
  <2> QED
    BY <2>7, <2>24, <2>29, <2>30, StepKeeps
<1> QED
  BY <1>1, <1>2

\* What WriteData finds: what it writes data for is held, and has the type of the body.
WritesData(r) == pc[r] = "data" /\ IF Typed(r) THEN HaveTypes(r, Pieces(r)) ELSE ~ DataIsMissing(r)

LEMMA DataHasObject ==
  ASSUME IInv, NEW r \in Requests, WritesData(r),
         NEW c \in Pieces(r), Typed(r) \/ c \in SimplePieces(r)
  PROVE  \E o \in put[r].objects : /\ o.id = IdOf(r, c) /\ o.type = body[r].writes[c].type
                                   /\ o \in Seen(r).objects
<1>1. RequestInv(r) /\ RouteShape(r) /\ SeenIsWhole(r) /\ Open(r) /\ Gone(r) = {}
  BY DEF WritesData, IInv, RequestInv, Open, DeletesAreLast
<1>2. /\ body[r] \in Bodies /\ Accepted(body[r]) /\ body[r] \in Body
      /\ body[r].route \in {"add", "update", "bulk_upsert"} /\ part[r] \in {"main", "subobjects"}
      /\ c \in Asked(body[r]) /\ c \in Refs
  <2>1. /\ body[r] \in Bodies /\ Accepted(body[r]) /\ body[r] \in Body
        /\ body[r].route \in {"add", "update", "bulk_upsert"} /\ part[r] \in {"main", "subobjects"}
    BY <1>1, ObjectAssumption DEF WritesData, IInv, TypeOK, RouteShape, StepsOf, Body, Routes
  <2>2. ~Typed(r) => body[r].main \in Asked(body[r])
    BY <2>1 DEF Accepted, AcceptedUntyped, Typed
  <2> QED
    BY <2>1, <2>2 DEF Pieces, Asked
<1>3. CASE c \in NewIds
  <2>1. c \in Pending(r) /\ IdOf(r, c) = ids[r][c]
    BY <1>2, <1>3 DEF WritesData, Pending, Given, Pieces, IdOf
  <2>2. IdOf(r, c) \in IdsOf(put[r].objects) /\ BareAt(Seen(r), IdOf(r, c), body[r].writes[c].type)
    BY <1>1, <2>1 DEF SeenIsWhole
  <2> QED
    BY <2>2, SeenRows DEF BareAt, IdsOf
<1>4. CASE c \in Ids /\ c \notin NewIds
  <2>1. c \in Existing(r) /\ IdOf(r, c) = c
    BY <1>4 DEF Existing, IdOf
  <2>2. c \in IdsOf(put[r].objects) \/ (Typed(r) /\ Dead(c))
    BY <1>1, <2>1 DEF WritesData, RequestInv, ExistingAreHeld
  <2>3. \E o \in Seen(r).objects : o.id = c /\ o.type = body[r].writes[c].type
    <3>1. CASE Typed(r)
      BY <2>1, <3>1 DEF WritesData, HaveTypes, Visible
    <3>2. CASE ~Typed(r)
      <4>1. c \in IdsOf(OldData(r))
        BY <1>4, <3>2 DEF WritesData, DataIsMissing
      <4>2. PICK d \in Seen(r).data, e \in SimplePieces(r) :
               d.id = c /\ IdOf(r, e) = c /\ d.table = body[r].writes[e].type
        BY <4>1 DEF OldData, IdsOf
      <4>3. c \notin PendingIds(r)
        BY <1>1, <4>2 DEF SeenIsWhole, PendingIds, BareAt
      <4>4. e \notin NewIds
        <5>1. e \in Pieces(r) /\ e \in NewIds => e \in Pending(r)
          <6>1. e \in Pieces(r) => e \in Asked(body[r])
            BY <1>2, <3>2 DEF Pieces, Accepted, AcceptedUntyped, Typed
          <6> QED
            BY <1>2, <3>2, <6>1 DEF WritesData, Pending, Given, Pieces
        <5> QED
          BY <4>2, <4>3, <5>1 DEF PendingIds, IdOf, SimplePieces
      <4>5. e = c
        BY <4>2, <4>4 DEF IdOf
      <4>6. c \in IdsOf(put[r].objects) /\ c \in Held(r)
        BY <2>2, <3>2 DEF Held
      <4>7. WholeAt(Seen(r), c)
        BY <1>1, <4>3, <4>6 DEF SeenIsWhole
      <4> QED
        BY <4>2, <4>5, <4>7 DEF WholeAt, NothingAt, ObjectAt
    <3> QED
      BY <3>1, <3>2
  <2>4. c \in IdsOf(put[r].objects)
    BY <2>2, <2>3, SeenRows DEF Dead, IdsOf
  <2> QED
    BY <2>1, <2>3, <2>4, SeenRows, OneRow DEF IdsOf
<1> QED
  BY <1>2, <1>3, <1>4 DEF Refs

LEMMA WriteKeeps ==
  ASSUME IInv, TypeOK', NEW r \in Requests, WriteData(r)
  PROVE  IInv'
<1>1. CASE Refuse(r, 400)
  BY <1>1, RefuseKeeps
<1>2. CASE ~ Refuse(r, 400)
  <2> DEFINE written == {IdOf(r, c) : c \in SimplePieces(r)}
             after == IF Typed(r) THEN IF Composites(r) # {} THEN "unlink" ELSE "authorize_delete"
                      ELSE IF part[r] = "main" THEN "commit" ELSE "exist"
  <2>1. /\ WritesData(r) /\ Goto(r, after)
        /\ db' = db /\ lastId' = lastId /\ body' = body /\ ids' = ids /\ part' = part /\ todo' = todo
    BY <1>2 DEF WriteData, WritesData, tableVars
  <2>2. PICK s, t : /\ s.objects = {} /\ s.data = OldData(r) /\ s.items = OldListItems(r)
                    /\ t.objects = {} /\ t.data = NewData(r) /\ t.items = NewListItems(r)
                    /\ Replace(r, s, t)
    <3> DEFINE u == [objects |-> {}, data |-> OldData(r), items |-> OldListItems(r)]
               v == [objects |-> {}, data |-> NewData(r), items |-> NewListItems(r)]
    <3>1. Replace(r, u, v)
      BY <1>2 DEF WriteData
    <3>2. /\ u.objects = {} /\ u.data = OldData(r) /\ u.items = OldListItems(r)
          /\ v.objects = {} /\ v.data = NewData(r) /\ v.items = NewListItems(r)
      OBVIOUS
    <3> HIDE DEF u, v
    <3> QED
      BY <3>1, <3>2 DEF Replace
  <2>3. /\ Seen(r)'.objects = Seen(r).objects /\ put'[r].objects = put[r].objects /\ cut'[r].objects = cut[r].objects
        /\ Seen(r)'.data = (Seen(r).data \ OldData(r)) \cup NewData(r)
        /\ Seen(r)'.items = (Seen(r).items \ OldListItems(r)) \cup NewListItems(r)
        /\ put'[r].data = (put[r].data \ OldData(r)) \cup NewData(r)
        /\ put'[r].items = (put[r].items \ OldListItems(r)) \cup NewListItems(r)
        /\ cut'[r].data = cut[r].data \cup OldData(r) /\ cut'[r].items = cut[r].items \cup OldListItems(r)
    <3>1. TypeOK /\ db' = db
      BY <2>1 DEF IInv
    <3>2. Seen(r)'.objects = Seen(r).objects /\ put'[r].objects = put[r].objects /\ cut'[r].objects = cut[r].objects
      BY <2>2, <3>1, NotReplaced
    <3>3. Seen(r)'.data = (Seen(r).data \ s.data) \cup t.data /\ Seen(r)'.items = (Seen(r).items \ s.items) \cup t.items
      BY <2>2, <3>1, Replaced
    <3>4. put'[r].data = (put[r].data \ s.data) \cup t.data /\ put'[r].items = (put[r].items \ s.items) \cup t.items
      BY <2>2, <3>1, Replaced
    <3>5. cut'[r].data = cut[r].data \cup s.data /\ cut'[r].items = cut[r].items \cup s.items
      BY <2>2, <3>1, Replaced
    <3> QED
      BY <2>2, <3>2, <3>3, <3>4, <3>5
  <2>4. /\ RequestInv(r) /\ pc[r] = "data" /\ pc'[r] = after /\ Gone(r) = {}
        /\ StepOf(r)
    <3> HIDE DEF after
    <3>1. RequestInv(r) /\ pc[r] = "data" /\ Gone(r) = {}
      BY <2>1 DEF WritesData, IInv, RequestInv, DeletesAreLast
    <3>2. pc'[r] = after
      BY <2>1 DEF Goto, IInv, TypeOK
    <3>3. StepOf(r)
      BY <2>1, <2>2, ObjectAssumption DEF StepOf, Goto, IInv, TypeOK, Replace
    <3> QED
      BY <3>1, <3>2, <3>3
  <2>5. ASSUME NEW c \in Pieces(r), Typed(r) \/ c \in SimplePieces(r)
        PROVE  \E o \in put[r].objects : /\ o.id = IdOf(r, c) /\ o.type = body[r].writes[c].type
                                         /\ o \in Seen(r).objects
    BY <2>1, <2>5, DataHasObject
  <2>6. /\ \A d \in OldData(r) : d.id \in written
        /\ \A d \in NewData(r) : d.id \in written /\ d.by = r
        /\ \A d \in NewData(r) : \E c \in SimplePieces(r) : d.id = IdOf(r, c) /\ d.table = body[r].writes[c].type
        /\ ListsWritten(r) \subseteq written
        /\ \A i \in OldListItems(r) \cup NewListItems(r) : i.id \in ListsWritten(r)
        /\ \A i \in NewListItems(r) : i.sub = 0 /\ i.by = r
        /\ written \subseteq IdsOf(put[r].objects) /\ written \subseteq Held(r)
    <3>1. \A d \in OldData(r) : d.id \in written
      BY DEF OldData
    <3>2. \A d \in NewData(r) : /\ d.id \in written /\ d.by = r
                                /\ \E c \in SimplePieces(r) : d.id = IdOf(r, c) /\ d.table = body[r].writes[c].type
      BY DEF NewData
    <3>3. ListsWritten(r) \subseteq written
      BY <3>2 DEF ListsWritten, IdsOf
    <3>4. /\ \A i \in OldListItems(r) \cup NewListItems(r) : i.id \in ListsWritten(r)
          /\ \A i \in NewListItems(r) : i.sub = 0 /\ i.by = r
      BY DEF OldListItems, NewListItems
    <3>5. written \subseteq IdsOf(put[r].objects)
      BY <2>5 DEF IdsOf, SimplePieces
    <3>6. written \subseteq Held(r)
      BY <3>5 DEF Held
    <3> QED
      BY <3>1, <3>2, <3>3, <3>4, <3>5, <3>6
  <2>7. ASSUME NEW c \in SimplePieces(r)
        PROVE  WholeAt(Seen(r)', IdOf(r, c))
    <3> DEFINE y == IdOf(r, c)
               type == body[r].writes[c].type
               d0 == [id |-> y, table |-> type, by |-> r]
               i0 == [id |-> y, sub |-> 0, by |-> r]
    <3>1. PICK o \in Seen(r).objects : o.id = y /\ o.type = type
      BY <2>5 DEF SimplePieces
    <3>2. type # "composite" /\ y \in written /\ y \in Held(r)
      BY <2>6 DEF SimplePieces
    <3>3. d0 \in NewData(r) /\ d0.id = y /\ d0.table = type /\ d0.by = r
      BY DEF NewData
    <3>4. ASSUME NEW d \in NewData(r), d.id = y
          PROVE  d.table = type /\ d = d0
      <4>1. PICK e \in SimplePieces(r) : d = [id |-> IdOf(r, e), table |-> body[r].writes[e].type, by |-> r]
        BY DEF NewData
      <4>2. PICK p \in Seen(r).objects : p.id = IdOf(r, e) /\ p.type = body[r].writes[e].type
        BY <2>5 DEF SimplePieces
      <4>3. IdOf(r, e) = y /\ p = o
        BY <3>1, <3>4, <4>1, <4>2, OneRow
      <4> QED
        BY <3>1, <4>1, <4>2, <4>3
    <3>5. y \in ListsWritten(r) <=> type = "to_do_list"
      BY <3>3, <3>4 DEF ListsWritten, IdsOf
    <3>6. \/ /\ \A d \in Seen(r).data : d.id # y
             /\ \A i \in Seen(r).items : i.id # y
          \/ /\ \A d \in Seen(r).data : d.id = y => d.table = type
             /\ \A i \in Seen(r).items : i.id = y => type = IF i.sub = 0 THEN "to_do_list" ELSE "composite"
      <4>1. CASE y \in PendingIds(r)
        BY <2>4, <4>1 DEF RequestInv, SeenIsWhole, PendingIds, BareAt
      <4>2. CASE y \notin PendingIds(r)
        <5>1. WholeAt(Seen(r), y)
          BY <2>4, <3>2, <4>2 DEF RequestInv, SeenIsWhole
        <5> QED
          BY <3>1, <5>1 DEF WholeAt, NothingAt, ObjectAt
      <4> QED
        BY <4>1, <4>2
    <3> HIDE DEF y, type, d0
    <3>7. \A d \in Seen(r)'.data : d.id = y => d = d0
      <4>1. \A d \in Seen(r).data : d.id = y => d \in OldData(r)
        BY <3>6 DEF OldData, y, type
      <4> QED
        BY <2>3, <3>4, <4>1
    <3>8. \A i \in Seen(r)'.items : i.id = y => i.by = r /\ type = IF i.sub = 0 THEN "to_do_list" ELSE "composite"
      BY <2>3, <2>6, <3>2, <3>5, <3>6 DEF OldListItems
    <3>9. type = "to_do_list" => \E i \in Seen(r)'.items : i.id = y
      <4>1. type = "to_do_list" => i0 \in NewListItems(r) /\ i0.id = y
        BY <3>5 DEF NewListItems
      <4> QED
        BY <2>3, <4>1
    <3>10. \A p \in Seen(r)'.objects : p.id = y => p = o
      BY <2>3, <3>1, OneRow
    <3>11. ObjectAt(Seen(r)', y, o, d0)
      BY <2>3, <3>1, <3>3, <3>7, <3>8, <3>9, <3>10 DEF ObjectAt
    <3> QED
      BY <2>3, <3>1, <3>3, <3>11 DEF WholeAt, y
  <2>8. ASSUME NEW y, y \notin written
        PROVE  Keeps(Seen(r), Seen(r)', y)
    <3> HIDE DEF written
    <3> QED
      BY <2>3, <2>6, <2>8 DEF Keeps
  <2>9. /\ Typed(r)' = Typed(r) /\ MainIsComposite(r)' = MainIsComposite(r) /\ body'[r] = body[r] /\ part'[r] = part[r]
        /\ Composites(r)' = Composites(r) /\ (\A c : IdOf(r, c)' = IdOf(r, c))
        /\ Open(r) /\ Open(r)' /\ RouteShape(r) /\ Accepted(body[r]) /\ part[r] \in {"main", "subobjects"}
        /\ body[r].route \in {"add", "update", "bulk_upsert"}
    <3>1. Typed(r)' = Typed(r) /\ MainIsComposite(r)' = MainIsComposite(r) /\ body'[r] = body[r] /\ part'[r] = part[r]
      BY <2>1 DEF Typed, MainIsComposite
    <3>2. Composites(r)' = Composites(r) /\ (\A c : IdOf(r, c)' = IdOf(r, c))
      BY <2>1 DEF Composites, IdOf
    <3>3. Open(r) /\ Open(r)' /\ RouteShape(r) /\ part[r] \in {"main", "subobjects"}
      BY <2>4 DEF Open, RequestInv, IInv, TypeOK
    <3>4. Accepted(body[r]) /\ body[r].route \in {"add", "update", "bulk_upsert"}
      BY <2>4, <3>3, ObjectAssumption DEF RouteShape, StepsOf, Body, Routes
    <3> QED
      BY <3>1, <3>2, <3>3, <3>4
  <2>10. ~Typed(r) => /\ body[r].main \in Asked(body[r])
                      /\ \A c \in Asked(body[r]) \ {body[r].main} : body[r].writes[c].type # "composite"
                      /\ part[r] = "main" <=> ~MainIsComposite(r)
    BY <2>4, <2>9 DEF Accepted, AcceptedUntyped, Typed, RouteShape
  <2>11. /\ Given(r)' \subseteq Given(r) /\ Pending(r) = Given(r)
         /\ \A c \in Pending(r) : c \in SimplePieces(r) \/ c \in Pending(r)'
         /\ \A c \in Pending(r)' : c \in Pending(r) /\ body[r].writes[c].type = "composite"
    <3>1. CASE Typed(r)
      BY <2>1, <2>4, <2>9, <3>1 DEF Given, Pending, SimplePieces, Pieces, Composites
    <3>2. CASE ~Typed(r) /\ part[r] = "main"
      BY <2>1, <2>4, <2>9, <2>10, <3>2 DEF Given, Pending, SimplePieces, Pieces, Composites, MainIsComposite
    <3>3. CASE ~Typed(r) /\ part[r] = "subobjects"
      BY <2>1, <2>4, <2>9, <2>10, <3>3 DEF Given, Pending, SimplePieces, Pieces, Composites, MainIsComposite
    <3> QED
      BY <2>9, <3>1, <3>2, <3>3
  <2>12. SeenIsWhole(r)'
    <3>1. ids'[r] = ids[r] /\ SeenIsWhole(r) /\ Held(r)' = Held(r) /\ Gone(r)' = {}
      BY <2>1, <2>3, <2>4 DEF RequestInv, Held, Gone
    <3>2. \A c \in Given(r)' : ids'[r][c] \in Ids
      BY <2>11, <3>1 DEF SeenIsWhole
    <3>3. ASSUME NEW c \in Pending(r)'
          PROVE  /\ ids[r][c] \in IdsOf(put'[r].objects)
                 /\ BareAt(Seen(r)', ids[r][c], body[r].writes[c].type)
      <4>1. ids[r][c] \in IdsOf(put[r].objects) /\ BareAt(Seen(r), ids[r][c], "composite") /\ body[r].writes[c].type = "composite"
        BY <2>11, <3>1, <3>3 DEF SeenIsWhole
      <4>2. \A e \in SimplePieces(r) : IdOf(r, e) # ids[r][c]
        <5>1. ASSUME NEW e \in SimplePieces(r), IdOf(r, e) = ids[r][c]
              PROVE  FALSE
          BY <2>5, <4>1, <5>1 DEF BareAt, SimplePieces
        <5> QED
          BY <5>1
      <4>3. ids[r][c] \notin written
        BY <4>2
      <4> QED
        BY <2>3, <2>8, <4>1, <4>3, KeepsBare
    <3>4. ASSUME NEW y \in Held(r) \ PendingIds(r)'
          PROVE  WholeAt(Seen(r)', y)
      <4>1. CASE y \in written
        BY <2>7, <4>1
      <4>2. CASE y \notin written
        <5>1. y \notin PendingIds(r)
          <6>1. \A c \in Pending(r) : c \in SimplePieces(r) => IdOf(r, c) = ids[r][c]
            BY <2>4, <2>9 DEF Pending, Given, IdOf
          <6>2. \A c \in Pending(r) : ids[r][c] # y
            BY <2>11, <3>1, <3>4, <4>2, <6>1 DEF PendingIds
          <6> QED
            BY <6>2 DEF PendingIds
        <5>2. WholeAt(Seen(r), y)
          BY <2>4, <3>1, <3>4, <5>1 DEF SeenIsWhole
        <5> QED
          BY <2>8, <4>2, <5>2, KeepsWhole
      <4> QED
        BY <4>1, <4>2
    <3> QED
      BY <2>9, <3>1, <3>2, <3>3, <3>4 DEF SeenIsWhole
  <2>13. WritesAreHeld(r)' /\ DeletesAreLast(r)' /\ TypesKept(r)'
    <3>1. WritesAreHeld(r) /\ TypesKept(r) /\ Held(r)' = Held(r) /\ Gone(r)' = {}
      BY <2>3, <2>4 DEF RequestInv, Held, Gone
    <3>2. /\ \A d \in put'[r].data : d.id \in Held(r)
          /\ \A i \in put'[r].items : i.id \in Held(r)
          /\ \A d \in cut'[r].data : d.id \in Held(r)
          /\ \A i \in cut'[r].items : i.id \in Held(r)
      <4> HIDE DEF written
      <4> QED
        BY <2>3, <2>4, <2>6, <3>1 DEF WritesAreHeld, IdsOf
    <3>3. WritesAreHeld(r)'
      BY <2>3, <3>1, <3>2 DEF WritesAreHeld, IdsOf
    <3> QED
      BY <2>1, <2>3, <3>1, <3>3 DEF DeletesAreLast, TypesKept
  <2>14. RouteShape(r)'
    <3>1. pc'[r] \in StepsOf(body[r].route) /\ pc'[r] \notin {"insert", "data"}
      BY <2>4, <2>9 DEF StepsOf, Typed
    <3>2. ~Typed(r) /\ part[r] = "main" => pc'[r] = "commit"
      BY <2>4
    <3> QED
      BY <2>1, <2>9, <3>1, <3>2 DEF RouteShape, Typed
  <2>15. ExistingAreHeld(r)'
    BY <2>4 DEF ExistingAreHeld
  <2>16. CompositesAreHeld(r)'
    <3>1. ASSUME Typed(r) \/ part[r] = "subobjects", NEW c \in Composites(r)
          PROVE  \E o \in put[r].objects : o.id = IdOf(r, c) /\ o.type = "composite"
      <4>1. CASE Typed(r)
        <5>1. c \in Pieces(r) /\ body[r].writes[c].type = "composite"
          BY <4>1 DEF Composites, Pieces
        <5> QED
          BY <2>5, <4>1, <5>1
      <4>2. CASE part[r] = "subobjects"
        BY <2>4, <4>2 DEF RequestInv, CompositesAreHeld, Upserting
      <4> QED
        BY <3>1, <4>1, <4>2
    <3>2. pc'[r] # "link" /\ (pc'[r] = "unlink" => Typed(r))
      BY <2>4
    <3> QED
      BY <2>3, <2>9, <3>1, <3>2 DEF CompositesAreHeld
  <2>17. WritesSeen(r) /\ Held(r)' = Held(r)
    BY <2>3, SeenRows DEF WritesSeen, Held, IdsOf
  <2>18. RequestInv(r)'
    BY <2>12, <2>13, <2>14, <2>15, <2>16 DEF RequestInv
  <2> QED
    BY <2>4, <2>17, <2>18, StepKeeps
<1> QED
  BY <1>1, <1>2

LEMMA CheckSubobjectsKeeps ==
  ASSUME IInv, TypeOK', NEW r \in Requests, CheckSubobjects(r)
  PROVE  IInv'
<1>1. CASE Refuse(r, 400)
  BY <1>1, RefuseKeeps
<1>2. CASE ~ Refuse(r, 400)
  <2> USE <1>2 DEF CheckSubobjects, Goto, tableVars, writeVars, workVars
  <2>1. /\ StepOf(r) /\ lastId' = lastId /\ db' = db
        /\ put' = put /\ cut' = cut /\ ids' = ids /\ body' = body /\ part' = part
    BY ObjectAssumption DEF StepOf, IInv, TypeOK
  <2>2. pc[r] = "exist" /\ pc'[r] = "unlink" /\ RouteShape(r) /\ CompositesAreHeld(r)
    BY DEF IInv, TypeOK, RequestInv
  <2>3. part[r] = "subobjects"
    BY <2>2 DEF RouteShape, Open, Typed, StepsOf, IInv, TypeOK
  <2>4. Given(r)' = Given(r) /\ Pending(r)' = Pending(r)
    BY <2>1, <2>2 DEF Given, Pending, Composites
  <2>5. RouteShape(r)'
    BY <2>1, <2>2, <2>3 DEF RouteShape, Open, Typed, StepsOf, MainIsComposite
  <2>6. ExistingAreHeld(r)'
    BY <2>2 DEF ExistingAreHeld
  <2>7. CompositesAreHeld(r)'
    BY <2>1, <2>2, <2>3 DEF CompositesAreHeld, Upserting, Composites, IdOf
  <2> QED
    BY <2>1, <2>2, <2>4, <2>5, <2>6, <2>7, ReadKeeps
<1> QED
  BY <1>1, <1>2

\* What a request that is done with its contents, or has none, does without writing.
Quiet == {"marked", "subobjects", "exclusive", "authorize_delete", "attributes", "types", "rows", "items"}

LEMMA QuietKeeps ==
  ASSUME IInv, TypeOK', NEW r \in Requests, pc[r] \in Quiet,
         pc' = [pc EXCEPT ![r] = pc'[r]],
         pc'[r] \in (Quiet \cup {"delete", "commit"}) \cap StepsOf(body[r].route),
         todo' = [todo EXCEPT ![r] = todo'[r]],
         db' = db, lastId' = lastId, put' = put, cut' = cut, ids' = ids, body' = body, part' = part
  PROVE  IInv'
<1>1. StepOf(r)
  BY ObjectAssumption DEF StepOf, IInv, TypeOK
<1>2. Given(r)' = Given(r) /\ Pending(r)' = Pending(r)
  BY DEF Given, Pending, Quiet
<1>3. RouteShape(r)'
  BY DEF IInv, RequestInv, RouteShape, Open, Typed, MainIsComposite, Quiet
<1>4. ExistingAreHeld(r)' /\ CompositesAreHeld(r)'
  BY DEF ExistingAreHeld, CompositesAreHeld, Upserting, Quiet
<1>5. pc[r] \notin {"delete", "cascade", "commit"}
  BY DEF Quiet
<1> QED
  BY <1>1, <1>2, <1>3, <1>4, <1>5, ReadKeeps

LEMMA FindKeeps ==
  ASSUME IInv, TypeOK', NEW r \in Requests, FindMarked(r) \/ FindSubobjects(r) \/ FindExclusive(r) \/ AuthorizeDelete(r)
  PROVE  IInv'
<1> USE DEF Goto, tableVars, writeVars, workVars
<1>1. pc[r] \in {"marked", "subobjects", "exclusive", "authorize_delete"} =>
         /\ body[r].route \in {"add", "update", "bulk_upsert", "delete"}
         /\ pc[r] \in StepsOf(body[r].route)
  BY ObjectAssumption DEF IInv, RequestInv, RouteShape, Open, StepsOf, Body, Routes
<1>2. CASE FindMarked(r)
  <2>1. pc[r] = "marked" /\ pc'[r] \in {"commit", "authorize_delete"}
    BY <1>2 DEF FindMarked, IInv, TypeOK
  <2>3. /\ pc' = [pc EXCEPT ![r] = pc'[r]] /\ todo' = [todo EXCEPT ![r] = todo'[r]]
        /\ db' = db /\ lastId' = lastId /\ put' = put /\ cut' = cut /\ ids' = ids /\ body' = body /\ part' = part
    BY <1>2 DEF FindMarked, IInv, TypeOK
  <2>2. pc'[r] \in StepsOf(body[r].route)
    BY <1>1, <2>1 DEF StepsOf
  <2> QED
    BY <2>1, <2>2, <2>3, QuietKeeps DEF Quiet
<1>3. CASE FindSubobjects(r)
  <2>1. pc[r] = "subobjects" /\ pc'[r] = "exclusive"
    BY <1>3 DEF FindSubobjects, IInv, TypeOK
  <2>3. /\ pc' = [pc EXCEPT ![r] = pc'[r]] /\ todo' = [todo EXCEPT ![r] = todo'[r]]
        /\ db' = db /\ lastId' = lastId /\ put' = put /\ cut' = cut /\ ids' = ids /\ body' = body /\ part' = part
    BY <1>3 DEF FindSubobjects, IInv, TypeOK
  <2>2. pc'[r] \in StepsOf(body[r].route)
    BY <1>1, <2>1 DEF StepsOf
  <2> QED
    BY <2>1, <2>2, <2>3, QuietKeeps DEF Quiet
<1>4. CASE FindExclusive(r)
  <2>1. pc[r] = "exclusive" /\ pc'[r] = "authorize_delete"
    BY <1>4 DEF FindExclusive, IInv, TypeOK
  <2>3. /\ pc' = [pc EXCEPT ![r] = pc'[r]] /\ todo' = [todo EXCEPT ![r] = todo'[r]]
        /\ db' = db /\ lastId' = lastId /\ put' = put /\ cut' = cut /\ ids' = ids /\ body' = body /\ part' = part
    BY <1>4 DEF FindExclusive, IInv, TypeOK
  <2>2. pc'[r] \in StepsOf(body[r].route)
    BY <1>1, <2>1 DEF StepsOf
  <2> QED
    BY <2>1, <2>2, <2>3, QuietKeeps DEF Quiet
<1>5. CASE AuthorizeDelete(r) /\ Refuse(r, 403)
  BY <1>5, RefuseKeeps
<1>6. CASE AuthorizeDelete(r) /\ ~ Refuse(r, 403)
  <2>1. pc[r] = "authorize_delete" /\ pc'[r] \in {"commit", "delete"}
    BY <1>6 DEF AuthorizeDelete, IInv, TypeOK
  <2>3. /\ pc' = [pc EXCEPT ![r] = pc'[r]] /\ todo' = [todo EXCEPT ![r] = todo'[r]]
        /\ db' = db /\ lastId' = lastId /\ put' = put /\ cut' = cut /\ ids' = ids /\ body' = body /\ part' = part
    BY <1>6 DEF AuthorizeDelete, IInv, TypeOK
  <2>2. pc'[r] \in StepsOf(body[r].route)
    BY <1>1, <2>1 DEF StepsOf
  <2> QED
    BY <2>1, <2>2, <2>3, QuietKeeps DEF Quiet
<1> QED
  BY <1>2, <1>3, <1>4, <1>5, <1>6

LEMMA ViewKeeps ==
  ASSUME IInv, TypeOK', NEW r \in Requests, View(r)
  PROVE  IInv'
<1> USE DEF Goto, tableVars, writeVars, ViewUnchanged
<1>1. CASE \E status \in {200, 400, 404, 500} : Refuse(r, status)
  BY <1>1, RefuseKeeps
<1>2. CASE ~ \E status \in {200, 400, 404, 500} : Refuse(r, status)
  <2>1. \/ ViewAttributes(r) \/ ViewTypes(r) \/ ViewRows(r) \/ (ViewItems(r) /\ ~ Refuse(r, 400) /\ ~ Refuse(r, 500))
    BY <1>2 DEF View, FinishView
  <2>2. /\ pc[r] \in {"attributes", "types", "rows", "items"} /\ pc' = [pc EXCEPT ![r] = pc'[r]]
        /\ pc'[r] \in {"types", "rows", "items"}
        /\ db' = db /\ lastId' = lastId /\ put' = put /\ cut' = cut /\ ids' = ids /\ body' = body
        /\ part' = part /\ todo' = todo
    <3>1. CASE ViewAttributes(r)
      BY <3>1 DEF ViewAttributes, IInv, TypeOK
    <3>2. CASE ViewTypes(r)
      BY <3>2 DEF ViewTypes, IInv, TypeOK
    <3>3. CASE ViewRows(r)
      BY <3>3 DEF ViewRows, IInv, TypeOK
    <3>4. CASE ViewItems(r) /\ ~ Refuse(r, 400) /\ ~ Refuse(r, 500)
      BY <3>4 DEF ViewItems, IInv, TypeOK
    <3> QED
      BY <2>1, <3>1, <3>2, <3>3, <3>4
  <2>3. body[r].route = "view"
    BY <2>2, ObjectAssumption DEF IInv, RequestInv, RouteShape, Open, StepsOf, Body, Routes
  <2>4. pc'[r] \in StepsOf(body[r].route)
    BY <2>2, <2>3 DEF StepsOf
  <2> QED
    BY <2>2, <2>4, QuietKeeps DEF IInv, TypeOK, Quiet
<1> QED
  BY <1>1, <1>2

LEMMA UnlinkKeeps ==
  ASSUME IInv, TypeOK', NEW r \in Requests, Unlink(r)
  PROVE  IInv'
<1> DEFINE properties == {d \in Seen(r).data : d.id \in CompositeIds(r) /\ d.table = "composite"}
           row(x) == [id |-> x, table |-> "composite", by |-> r]
           rows == {row(x) : x \in CompositeIds(r)}
<1>1. /\ pc[r] = "unlink" /\ Goto(r, "link") /\ todo' = [todo EXCEPT ![r] = Subobjects(r)]
      /\ db' = db /\ lastId' = lastId /\ body' = body /\ ids' = ids /\ part' = part
      /\ Replace(r, [objects |-> {}, data |-> properties, items |-> OldItems(r)], [NoRows EXCEPT !.data = rows])
  BY DEF Unlink, tableVars
<1>2. \A y \in CompositeIds(r) : row(y) \in rows /\ row(y).id = y /\ row(y).table = "composite" /\ row(y).by = r
  OBVIOUS
<1>3. \A d \in rows : d.id \in CompositeIds(r) /\ d = row(d.id)
  OBVIOUS
<1>4. /\ \A d \in properties : d.id \in CompositeIds(r)
      /\ \A d \in Seen(r).data : d.id \in CompositeIds(r) /\ d.table = "composite" => d \in properties
  OBVIOUS
<1> HIDE DEF properties, row, rows
<1>5. PICK s, t : /\ s.objects = {} /\ s.data = properties /\ s.items = OldItems(r)
                  /\ t.objects = {} /\ t.data = rows /\ t.items = {}
                  /\ Replace(r, s, t)
  <2> DEFINE u == [objects |-> {}, data |-> properties, items |-> OldItems(r)]
             v == [NoRows EXCEPT !.data = rows]
  <2>1. Replace(r, u, v)
    BY <1>1
  <2>2. /\ u.objects = {} /\ u.data = properties /\ u.items = OldItems(r)
        /\ v.objects = {} /\ v.data = rows /\ v.items = {}
    BY DEF NoRows
  <2> HIDE DEF u, v
  <2> QED
    BY <2>1, <2>2 DEF Replace
<1>6. /\ Seen(r)'.objects = Seen(r).objects /\ put'[r].objects = put[r].objects /\ cut'[r].objects = cut[r].objects
      /\ Seen(r)'.data = (Seen(r).data \ properties) \cup rows
      /\ Seen(r)'.items = Seen(r).items \ OldItems(r)
      /\ put'[r].data = (put[r].data \ properties) \cup rows
      /\ put'[r].items = put[r].items \ OldItems(r)
      /\ cut'[r].data = cut[r].data \cup properties /\ cut'[r].items = cut[r].items \cup OldItems(r)
  <2>1. TypeOK /\ db' = db
    BY <1>1 DEF IInv
  <2>2. Seen(r)'.objects = Seen(r).objects /\ put'[r].objects = put[r].objects /\ cut'[r].objects = cut[r].objects
    BY <1>5, <2>1, NotReplaced
  <2>3. Seen(r)'.data = (Seen(r).data \ s.data) \cup t.data /\ Seen(r)'.items = (Seen(r).items \ s.items) \cup t.items
    BY <1>5, <2>1, Replaced
  <2>4. put'[r].data = (put[r].data \ s.data) \cup t.data /\ put'[r].items = (put[r].items \ s.items) \cup t.items
    BY <1>5, <2>1, Replaced
  <2>5. cut'[r].data = cut[r].data \cup s.data /\ cut'[r].items = cut[r].items \cup s.items
    BY <1>5, <2>1, Replaced
  <2> QED
    BY <1>5, <2>2, <2>3, <2>4, <2>5
<1>7. StepOf(r) /\ pc'[r] = "link"
  BY <1>1, <1>5, ObjectAssumption DEF StepOf, Goto, IInv, TypeOK, Replace
<1>8. /\ RequestInv(r) /\ Gone(r) = {} /\ RouteShape(r) /\ CompositesAreHeld(r) /\ SeenIsWhole(r)
      /\ Held(r)' = Held(r) /\ Gone(r)' = {}
  BY <1>1, <1>6 DEF IInv, RequestInv, DeletesAreLast, Held, Gone
<1>9. /\ Typed(r)' = Typed(r) /\ MainIsComposite(r)' = MainIsComposite(r) /\ body'[r] = body[r] /\ part'[r] = part[r]
      /\ Composites(r)' = Composites(r) /\ (\A c : IdOf(r, c)' = IdOf(r, c)) /\ CompositeIds(r)' = CompositeIds(r)
  BY <1>1 DEF Typed, MainIsComposite, Composites, CompositeIds, IdOf
<1>10. \A x \in CompositeIds(r) : \E o \in put[r].objects : o.id = x /\ o.type = "composite"
  BY <1>1, <1>8 DEF CompositesAreHeld, Upserting, CompositeIds
<1>11. CompositeIds(r) \subseteq Held(r)
  BY <1>10 DEF Held, IdsOf
<1>12. \A i \in OldItems(r) : i.id \in CompositeIds(r)
  BY DEF OldItems
<1>13. ASSUME NEW x, x \notin CompositeIds(r)
       PROVE  Keeps(Seen(r), Seen(r)', x)
  BY <1>3, <1>4, <1>6, <1>12, <1>13 DEF Keeps
<1>14. \A d \in Seen(r)'.data : d.id \in CompositeIds(r) => d = row(d.id)
  <2>1. ASSUME NEW d \in Seen(r).data, d.id \in CompositeIds(r)
        PROVE  d \in properties
    <3>1. PICK o \in Seen(r).objects : o.id = d.id /\ o.type = "composite"
      BY <1>10, <2>1, SeenRows
    <3>2. d.id \notin PendingIds(r)
      BY <1>8 DEF SeenIsWhole, PendingIds, BareAt
    <3>3. WholeAt(Seen(r), d.id)
      BY <1>8, <1>11, <2>1, <3>2 DEF SeenIsWhole
    <3> QED
      BY <1>4, <2>1, <3>1, <3>3 DEF WholeAt, NothingAt, ObjectAt
  <2> QED
    BY <1>3, <1>6, <2>1
<1>15. ASSUME NEW x \in CompositeIds(r)
       PROVE  WholeAt(Seen(r)', x)
  <2>1. PICK o \in Seen(r).objects : o.id = x /\ o.type = "composite"
    BY <1>10, <1>15, SeenRows
  <2>2. \A p \in Seen(r)'.objects : p.id = x => p = o
    BY <1>6, <2>1, OneRow
  <2>3. \A i \in Seen(r)'.items : i.id # x
    BY <1>6, <1>15 DEF OldItems
  <2>4. ObjectAt(Seen(r)', x, o, row(x))
    BY <1>2, <1>6, <1>14, <1>15, <2>1, <2>2, <2>3 DEF ObjectAt
  <2> QED
    BY <1>2, <1>6, <1>15, <2>1, <2>4 DEF WholeAt
<1>16. SeenIsWhole(r)'
  <2>1. Given(r)' = Given(r) /\ Pending(r)' = {} /\ PendingIds(r)' = {} /\ ids'[r] = ids[r]
    BY <1>1, <1>7, <1>9 DEF Given, Pending, PendingIds
  <2>2. PendingIds(r) \subseteq CompositeIds(r)
    BY <1>1 DEF PendingIds, Pending, CompositeIds, IdOf
  <2>3. ASSUME NEW x \in Held(r)
        PROVE  WholeAt(Seen(r)', x)
    <3>1. CASE x \in CompositeIds(r)
      BY <1>15, <3>1
    <3>2. CASE x \notin CompositeIds(r)
      BY <1>8, <1>13, <2>2, <2>3, <3>2, KeepsWhole DEF SeenIsWhole
    <3> QED
      BY <3>1, <3>2
  <2>4. \A c \in Given(r) : ids[r][c] \in Ids
    BY <1>8 DEF SeenIsWhole
  <2> QED
    BY <1>8, <2>1, <2>3, <2>4 DEF SeenIsWhole
<1>17. WritesAreHeld(r)' /\ DeletesAreLast(r)' /\ TypesKept(r)'
  <2>1. /\ \A d \in put'[r].data \cup cut'[r].data : d.id \in Held(r)
        /\ \A i \in put'[r].items \cup cut'[r].items : i.id \in Held(r)
    BY <1>3, <1>4, <1>6, <1>8, <1>11, <1>12 DEF RequestInv, WritesAreHeld, IdsOf
  <2>2. WritesAreHeld(r)'
    BY <1>6, <1>8, <2>1 DEF RequestInv, WritesAreHeld, IdsOf
  <2> QED
    BY <1>1, <1>6, <1>8, <2>2 DEF RequestInv, DeletesAreLast, TypesKept
<1>18. RouteShape(r)' /\ ExistingAreHeld(r)'
  <2>1. pc'[r] \in StepsOf(body[r].route)
    BY <1>1, <1>7, <1>8, ObjectAssumption DEF RouteShape, Open, StepsOf, Body, Routes
  <2> QED
    BY <1>1, <1>7, <1>8, <1>9, <2>1 DEF RouteShape, Open, ExistingAreHeld, Typed
<1>19. CompositesAreHeld(r)'
  <2>1. \A d \in Seen(r)'.data : d.id \in CompositeIds(r) => d.by = r
    BY <1>2, <1>14
  <2> QED
    BY <1>1, <1>6, <1>8, <1>9, <2>1 DEF CompositesAreHeld, Upserting
<1>20. WritesSeen(r)
  BY <1>6, SeenRows DEF WritesSeen, IdsOf
<1>21. RequestInv(r)'
  BY <1>16, <1>17, <1>18, <1>19 DEF RequestInv
<1> QED
  BY <1>7, <1>8, <1>20, <1>21, StepKeeps

\* What a body lets the contents of composite objects be.
LEMMA LinksAreWritten ==
  ASSUME IInv, NEW r \in Requests, pc[r] \in {"unlink", "link"}
  PROVE  /\ \A l \in body[r].links : l[1] \in Composites(r) /\ IdOf(r, l[2]) \in Ids
         /\ body[r].route \in {"add", "update", "bulk_upsert"}
<1>1. /\ body[r] \in Bodies /\ body[r] \in Body /\ Accepted(body[r]) /\ RouteShape(r) /\ SeenIsWhole(r)
      /\ Open(r) /\ pc[r] \in StepsOf(body[r].route)
  BY ObjectAssumption DEF IInv, RequestInv, RouteShape, Open
<1>2. body[r].route \in {"add", "update", "bulk_upsert"}
  BY <1>1 DEF StepsOf, Body, Routes
<1>3. ASSUME NEW l \in body[r].links
      PROVE  l[1] \in Composites(r)
  <2>1. CASE Typed(r)
    BY <1>1, <1>3, <2>1 DEF Accepted, AcceptedTyped, Composites, Typed
  <2>2. CASE ~ Typed(r)
    <3>1. MainIsComposite(r)
      BY <1>1, <2>2, <1>2 DEF RouteShape, IInv, TypeOK
    <3>2. AcceptedUntyped(body[r])
      BY <1>1, <1>2, <2>2 DEF Accepted, Typed
    <3> QED
      BY <1>3, <3>1, <3>2 DEF AcceptedUntyped, MainIsComposite, Composites
  <2> QED
    BY <2>1, <2>2
<1>4. ASSUME NEW l \in body[r].links
      PROVE  IdOf(r, l[2]) \in Ids
  <2>1. l[2] \in Refs /\ l[2] \in Linked(body[r])
    BY <1>1, <1>4 DEF Body, Linked
  <2>2. CASE l[2] \in NewIds
    <3>1. l[2] \in Asked(body[r])
      BY <1>1, <1>2, <2>1, <2>2 DEF Accepted
    <3>2. l[2] \in Given(r)
      BY <2>2, <3>1 DEF Given
    <3> QED
      BY <1>1, <2>2, <3>2 DEF SeenIsWhole, IdOf
  <2>3. CASE l[2] \notin NewIds
    BY <2>1, <2>3 DEF Refs, IdOf
  <2> QED
    BY <2>2, <2>3
<1> QED
  BY <1>2, <1>3, <1>4

LEMMA LinkKeeps ==
  ASSUME IInv, TypeOK', NEW r \in Requests, Link(r)
  PROVE  IInv'
<1>1. CASE Refuse(r, 500)
  BY <1>1, RefuseKeeps
<1>2. CASE todo[r] # {} /\ ~ Refuse(r, 500)
  <2> USE <1>2 DEF Link, tableVars
  <2>1. /\ pc[r] = "link" /\ pc' = pc /\ todo' = [todo EXCEPT ![r] = todo'[r]]
        /\ db' = db /\ lastId' = lastId /\ put' = put /\ cut' = cut /\ ids' = ids /\ body' = body /\ part' = part
    BY DEF IInv, TypeOK
  <2>2. StepOf(r) /\ Given(r)' = Given(r) /\ Pending(r)' = Pending(r)
    BY <2>1, ObjectAssumption DEF StepOf, Given, Pending, IInv, TypeOK
  <2>3. RouteShape(r)'
    BY <2>1 DEF IInv, RequestInv, RouteShape, Open, Typed, MainIsComposite
  <2>4. ExistingAreHeld(r)'
    BY <2>1 DEF ExistingAreHeld
  <2>5. CompositesAreHeld(r)'
    <3>1. Seen(r)' = Seen(r) /\ Composites(r)' = Composites(r) /\ CompositeIds(r)' = CompositeIds(r) /\ \A c : IdOf(r, c)' = IdOf(r, c)
      BY <2>1 DEF Seen, Composites, CompositeIds, IdOf
    <3>2. CompositesAreHeld(r)
      BY DEF IInv, RequestInv
    <3> QED
      BY <2>1, <3>1, <3>2 DEF CompositesAreHeld
  <2> QED
    BY <2>1, <2>2, <2>3, <2>4, <2>5, ReadKeeps
<1>3. CASE todo[r] = {}
  <2> DEFINE rows == [NoRows EXCEPT !.items = NewItems(r)]
  <2>1. /\ pc[r] = "link" /\ pc'[r] = AfterLink(r) /\ StepOf(r) /\ Put(r, rows) /\ cut' = cut /\ db' = db
        /\ lastId' = lastId /\ body' = body /\ ids' = ids /\ part' = part /\ todo' = todo
    BY <1>3, ObjectAssumption DEF Link, StepOf, Goto, Put, tableVars, workVars, IInv, TypeOK
  <2>2. rows.objects = {} /\ rows.data = {} /\ rows.items = NewItems(r)
    BY DEF NoRows
  <2> HIDE DEF rows
  <2>3. /\ Seen(r)'.objects = Seen(r).objects /\ put'[r].objects = put[r].objects
        /\ Seen(r)'.data = Seen(r).data /\ put'[r].data = put[r].data
        /\ Seen(r)'.items = Seen(r).items \cup NewItems(r) /\ put'[r].items = put[r].items \cup NewItems(r)
    <3>1. TypeOK
      BY DEF IInv
    <3>2. /\ put'[r].objects = put[r].objects \cup rows.objects /\ put'[r].data = put[r].data \cup rows.data
          /\ put'[r].items = put[r].items \cup rows.items
      BY <2>1, <3>1, Inserted
    <3>3. /\ Seen(r)'.objects = Seen(r).objects \cup rows.objects /\ Seen(r)'.data = Seen(r).data \cup rows.data
          /\ Seen(r)'.items = Seen(r).items \cup rows.items
      BY <2>1, <3>1, Inserted
    <3> QED
      BY <2>2, <3>2, <3>3
  <2>4. /\ RequestInv(r) /\ RouteShape(r) /\ SeenIsWhole(r) /\ CompositesAreHeld(r) /\ WritesAreHeld(r)
        /\ Gone(r) = {} /\ Gone(r)' = {} /\ Held(r)' = Held(r) /\ PendingIds(r) = {}
    BY <2>1, <2>3 DEF IInv, RequestInv, DeletesAreLast, Gone, Held, PendingIds, Pending
  <2>5. \A i \in NewItems(r) : i.id \in CompositeIds(r) /\ i.sub \in Ids /\ i.by = r
    BY <2>1, LinksAreWritten DEF NewItems, CompositeIds
  <2>6. \A x \in CompositeIds(r) : \E o \in put[r].objects : o.id = x /\ o.type = "composite"
    BY <2>1, <2>4 DEF CompositesAreHeld, Upserting, CompositeIds
  <2>7. CompositeIds(r) \subseteq Held(r)
    BY <2>6 DEF Held, IdsOf
  <2>8. ASSUME NEW x \in Held(r)
        PROVE  WholeAt(Seen(r)', x)
    <3>1. WholeAt(Seen(r), x)
      BY <2>4, <2>8 DEF SeenIsWhole
    <3>2. CASE x \notin CompositeIds(r)
      <4>1. Keeps(Seen(r), Seen(r)', x)
        BY <2>3, <2>5, <3>2 DEF Keeps
      <4> QED
        BY <3>1, <4>1, KeepsWhole
    <3>3. CASE x \in CompositeIds(r)
      <4>1. PICK p \in Seen(r).objects : p.id = x /\ p.type = "composite"
        BY <2>6, <3>3, SeenRows
      <4>2. PICK o \in Seen(r).objects, d \in Seen(r).data : ObjectAt(Seen(r), x, o, d)
        BY <3>1, <4>1 DEF WholeAt, NothingAt
      <4>3. o.type = "composite" /\ d.by = r
        BY <2>1, <2>4, <3>3, <4>1, <4>2 DEF ObjectAt, CompositesAreHeld
      <4>4. \A i \in NewItems(r) : i.by = d.by /\ i.sub # 0
        BY <2>5, <4>3, ObjectAssumption DEF Ids
      <4>5. ObjectAt(Seen(r)', x, o, d)
        BY <2>3, <4>2, <4>3, <4>4 DEF ObjectAt
      <4> QED
        BY <2>3, <4>5 DEF WholeAt
    <3> QED
      BY <3>2, <3>3
  <2>9. pc'[r] \in {"authorize_delete", "marked"} /\ pc'[r] \in StepsOf(body[r].route)
    BY <2>1, LinksAreWritten DEF AfterLink, StepsOf, Typed
  <2>10. Given(r)' = {} /\ Pending(r)' = {} /\ PendingIds(r)' = {}
    BY <2>9 DEF Given, Pending, PendingIds
  <2>11. SeenIsWhole(r)'
    BY <2>4, <2>8, <2>10 DEF SeenIsWhole
  <2>12. WritesAreHeld(r)' /\ DeletesAreLast(r)' /\ TypesKept(r)'
    <3>1. \A i \in put'[r].items : i.id \in Held(r)
      BY <2>3, <2>4, <2>5, <2>7 DEF WritesAreHeld, IdsOf
    <3>2. WritesAreHeld(r)'
      BY <2>1, <2>3, <2>4, <3>1 DEF WritesAreHeld, IdsOf
    <3> QED
      BY <2>1, <2>3, <2>4, <3>2 DEF RequestInv, DeletesAreLast, TypesKept
  <2>13. RouteShape(r)' /\ ExistingAreHeld(r)' /\ CompositesAreHeld(r)'
    <3>1. RouteShape(r)'
      BY <2>1, <2>4, <2>9 DEF RouteShape, Open, Typed, MainIsComposite
    <3> QED
      BY <2>9, <3>1 DEF ExistingAreHeld, CompositesAreHeld, Upserting
  <2>14. RequestInv(r)'
    BY <2>11, <2>12, <2>13 DEF RequestInv
  <2>15. WritesSeen(r)
    BY <2>3, SeenRows DEF WritesSeen, IdsOf
  <2> QED
    BY <2>1, <2>4, <2>14, <2>15, StepKeeps
<1> QED
  BY <1>1, <1>2, <1>3

\* What a request that deletes has come to.
LEMMA Deleting ==
  ASSUME IInv, NEW r \in Requests, pc[r] \in {"delete", "cascade"},
         body'[r] = body[r], pc'[r] \in {"delete", "cascade", "commit"}, part'[r] = part[r]
  PROVE  /\ Given(r) = {} /\ Pending(r) = {} /\ PendingIds(r) = {}
         /\ Given(r)' = {} /\ Pending(r)' = {} /\ PendingIds(r)' = {}
         /\ RouteShape(r)' /\ ExistingAreHeld(r)' /\ CompositesAreHeld(r)'
<1>1. RouteShape(r) /\ body[r] \in Body
  BY DEF IInv, TypeOK, RequestInv
<1>2. pc[r] \in StepsOf(body[r].route) /\ body[r].route \in Routes
  BY <1>1 DEF RouteShape, Open, Body
<1>3. pc'[r] \in StepsOf(body[r].route)
  BY <1>2 DEF StepsOf, Routes
<1>4. RouteShape(r)'
  BY <1>1, <1>3 DEF RouteShape, Open, Typed, MainIsComposite
<1>5. ExistingAreHeld(r)' /\ CompositesAreHeld(r)'
  BY DEF ExistingAreHeld, CompositesAreHeld, Upserting
<1> QED
  BY <1>4, <1>5 DEF Given, Pending, PendingIds

LEMMA DeleteRowKeeps ==
  ASSUME IInv, TypeOK', NEW r \in Requests, NEW x \in Ids, DeleteRow(r, x)
  PROVE  IInv'
<1>1. PICK s, t : /\ s.objects = RowsOf(Seen(r), x) /\ s.data = {} /\ s.items = {}
                  /\ t.objects = {} /\ t.data = {} /\ t.items = {}
                  /\ Replace(r, s, t)
  <2> DEFINE u == [NoRows EXCEPT !.objects = RowsOf(Seen(r), x)]
  <2>1. Replace(r, u, NoRows)
    BY DEF DeleteRow
  <2>2. /\ u.objects = RowsOf(Seen(r), x) /\ u.data = {} /\ u.items = {}
        /\ NoRows.objects = {} /\ NoRows.data = {} /\ NoRows.items = {}
    BY DEF NoRows
  <2> HIDE DEF u
  <2> QED
    BY <2>1, <2>2 DEF Replace
<1>2. /\ pc[r] = "delete" /\ pc'[r] \in {"delete", "cascade"} /\ StepOf(r) /\ Holders(r, x) = {}
      /\ db' = db /\ lastId' = lastId /\ body' = body /\ ids' = ids /\ part' = part
  BY <1>1, ObjectAssumption DEF DeleteRow, StepOf, Goto, Replace, tableVars, IInv, TypeOK
<1>3. /\ Seen(r)'.objects = Seen(r).objects \ RowsOf(Seen(r), x)
      /\ put'[r].objects = put[r].objects \ RowsOf(Seen(r), x)
      /\ cut'[r].objects = cut[r].objects \cup RowsOf(Seen(r), x)
      /\ Seen(r)'.data = Seen(r).data /\ put'[r].data = put[r].data /\ cut'[r].data = cut[r].data
      /\ Seen(r)'.items = Seen(r).items /\ put'[r].items = put[r].items /\ cut'[r].items = cut[r].items
  <2>1. TypeOK /\ db' = db
    BY <1>2 DEF IInv
  <2>2. Seen(r)'.data = Seen(r).data /\ put'[r].data = put[r].data /\ cut'[r].data = cut[r].data
    BY <1>1, <2>1, NotReplaced
  <2>3. Seen(r)'.items = Seen(r).items /\ put'[r].items = put[r].items /\ cut'[r].items = cut[r].items
    BY <1>1, <2>1, NotReplaced
  <2>4. /\ Seen(r)'.objects = (Seen(r).objects \ s.objects) \cup t.objects
        /\ put'[r].objects = (put[r].objects \ s.objects) \cup t.objects
        /\ cut'[r].objects = cut[r].objects \cup s.objects
    BY <1>1, <2>1, Replaced
  <2> QED
    BY <1>1, <2>2, <2>3, <2>4
<1>4. /\ PendingIds(r) = {} /\ Given(r)' = {} /\ Pending(r)' = {} /\ PendingIds(r)' = {}
      /\ RouteShape(r)' /\ ExistingAreHeld(r)' /\ CompositesAreHeld(r)'
  BY <1>2, Deleting
<1>5. RequestInv(r) /\ put[r].objects \subseteq Seen(r).objects
  BY SeenRows DEF IInv, RequestInv
<1>6. \A o \in RowsOf(Seen(r), x) : o.id = x
  BY DEF RowsOf
<1>7. \A o \in Seen(r).objects : o.id = x => o \in RowsOf(Seen(r), x)
  BY DEF RowsOf
<1>8. /\ Held(r) \subseteq Held(r)' /\ Gone(r) \subseteq Gone(r)'
      /\ \A y \in Held(r)' \ Held(r) : y = x /\ RowsOf(Seen(r), x) # {}
      /\ \A y \in Gone(r)' \ Gone(r) : y = x /\ RowsOf(Seen(r), x) # {}
      /\ RowsOf(Seen(r), x) # {} => x \in Gone(r)'
  <2>1. /\ Held(r)' = IdsOf(cut'[r].objects) \cup IdsOf(put'[r].objects)
        /\ Gone(r)' = IdsOf(cut'[r].objects) \ IdsOf(put'[r].objects)
    BY DEF Held, Gone
  <2>2. \A y : /\ y \in IdsOf(cut'[r].objects) <=> y \in IdsOf(cut[r].objects) \/ (y = x /\ RowsOf(Seen(r), x) # {})
               /\ y \in IdsOf(put'[r].objects) <=> y \in IdsOf(put[r].objects) /\ y # x
    BY <1>3, <1>5, <1>6, <1>7 DEF IdsOf
  <2>3. x \in IdsOf(put[r].objects) => RowsOf(Seen(r), x) # {}
    BY <1>5, <1>7 DEF IdsOf
  <2> QED
    BY <2>1, <2>2, <2>3 DEF Held, Gone
<1>9. ASSUME NEW y, y # x \/ RowsOf(Seen(r), x) = {}
      PROVE  Keeps(Seen(r), Seen(r)', y)
  BY <1>3, <1>6, <1>9 DEF Keeps
<1>10. SeenIsWhole(r)'
  <2>1. ASSUME NEW y \in Held(r)' \ Gone(r)'
        PROVE  WholeAt(Seen(r)', y)
    <3>1. y # x \/ RowsOf(Seen(r), x) = {}
      BY <1>8, <2>1
    <3>2. y \in Held(r) \ Gone(r)
      BY <1>8, <2>1, <3>1
    <3>3. WholeAt(Seen(r), y)
      BY <1>4, <1>5, <3>2 DEF RequestInv, SeenIsWhole
    <3> QED
      BY <1>9, <3>1, <3>3, KeepsWhole
  <2> QED
    BY <1>4, <2>1 DEF SeenIsWhole
<1>11. WritesAreHeld(r)'
  <2>1. IdsOf(put'[r].objects) \subseteq Held(r)'
    BY DEF Held
  <2>2. WritesAreHeld(r)
    BY <1>5 DEF RequestInv
  <2> QED
    BY <1>3, <1>8, <2>1, <2>2 DEF WritesAreHeld
<1>12. DeletesAreLast(r)' /\ TypesKept(r)'
  <2>1. DeletesAreLast(r) /\ TypesKept(r)
    BY <1>5 DEF RequestInv
  <2>2. \A y \in Gone(r)' : \A o \in Seen(r)'.objects : o.id # y
    BY <1>3, <1>7, <1>8, <2>1 DEF DeletesAreLast
  <2> QED
    BY <1>2, <1>3, <2>1, <2>2 DEF DeletesAreLast, TypesKept
<1>13. WritesSeen(r)
  BY <1>3, <1>5 DEF WritesSeen, IdsOf
<1>14. RequestInv(r)'
  BY <1>4, <1>10, <1>11, <1>12 DEF RequestInv
<1>15. \A y \in Held(r)' \ Held(r) : y <= lastId' /\ \A q \in Requests \ {r} : y \notin Held(q)
  <2>1. RowsOf(Seen(r), x) # {} => x <= lastId
    BY SeenRows DEF RowsOf, IInv, IdsAreTaken, Held, IdsOf
  <2>2. \A q \in Requests \ {r} : x \notin Held(q)
    BY <1>2 DEF Holders
  <2> QED
    BY <1>2, <1>8, <2>1, <2>2
<1> QED
  BY <1>2, <1>13, <1>14, <1>15, StepKeeps

LEMMA CascadeKeeps ==
  ASSUME IInv, TypeOK', NEW r \in Requests, Cascade(r)
  PROVE  IInv'
<1> DEFINE gone == RowsWith(Seen(r), Gone(r))
<1>1. /\ pc[r] = "cascade" /\ pc'[r] = "commit" /\ StepOf(r) /\ Replace(r, gone, NoRows)
      /\ db' = db /\ lastId' = lastId /\ body' = body /\ ids' = ids /\ part' = part
  BY ObjectAssumption DEF Cascade, StepOf, Goto, Replace, tableVars, workVars, IInv, TypeOK
<1>2. /\ PendingIds(r) = {} /\ Given(r)' = {} /\ Pending(r)' = {} /\ PendingIds(r)' = {}
      /\ RouteShape(r)' /\ ExistingAreHeld(r)' /\ CompositesAreHeld(r)'
  BY <1>1, Deleting
<1>3. RequestInv(r) /\ DeletesAreLast(r) /\ Gone(r) \subseteq Held(r)
  BY DEF IInv, RequestInv, Gone, Held
<1>4. /\ gone.objects = {}
      /\ \A d \in Seen(r).data : d \in gone.data <=> d.id \in Gone(r)
      /\ \A i \in Seen(r).items : i \in gone.items <=> i.id \in Gone(r) \/ i.sub \in Gone(r)
      /\ gone.data \subseteq Seen(r).data /\ gone.items \subseteq Seen(r).items
      /\ NoRows.objects = {} /\ NoRows.data = {} /\ NoRows.items = {}
  BY <1>3 DEF RowsWith, DeletesAreLast, NoRows
<1> HIDE DEF gone
<1>5. TypeOK /\ db' = db
  BY <1>1 DEF IInv
<1>6. Seen(r)'.objects = Seen(r).objects /\ put'[r].objects = put[r].objects /\ cut'[r].objects = cut[r].objects
  BY <1>1, <1>4, <1>5, NotReplaced
<1>7. /\ Seen(r)'.data = Seen(r).data \ gone.data /\ put'[r].data = put[r].data \ gone.data
      /\ cut'[r].data = cut[r].data \cup gone.data
  <2>1. /\ Seen(r)'.data = (Seen(r).data \ gone.data) \cup NoRows.data /\ put'[r].data = (put[r].data \ gone.data) \cup NoRows.data
        /\ cut'[r].data = cut[r].data \cup gone.data
    BY <1>1, <1>5, Replaced
  <2> QED
    BY <1>4, <2>1
<1>8. /\ Seen(r)'.items = Seen(r).items \ gone.items /\ put'[r].items = put[r].items \ gone.items
      /\ cut'[r].items = cut[r].items \cup gone.items
  <2>1. /\ Seen(r)'.items = (Seen(r).items \ gone.items) \cup NoRows.items /\ put'[r].items = (put[r].items \ gone.items) \cup NoRows.items
        /\ cut'[r].items = cut[r].items \cup gone.items
    BY <1>1, <1>5, Replaced
  <2> QED
    BY <1>4, <2>1
<1>9. Held(r)' = Held(r) /\ Gone(r)' = Gone(r)
  BY <1>6 DEF Held, Gone
<1>10. 0 \notin Gone(r)
  BY DEF IInv, TypeOK, Tables, ObjectRow, Ids, Gone, IdsOf
<1>11. ASSUME NEW y \in Held(r) \ Gone(r)
       PROVE  WholeAt(Seen(r)', y)
  <2>1. Keeps(Seen(r), Seen(r)', y)
    BY <1>4, <1>6, <1>7, <1>8, <1>10, <1>11 DEF Keeps
  <2>2. WholeAt(Seen(r), y)
    BY <1>2, <1>3, <1>11 DEF RequestInv, SeenIsWhole
  <2> QED
    BY <2>1, <2>2, KeepsWhole
<1>12. SeenIsWhole(r)'
  BY <1>2, <1>9, <1>11 DEF SeenIsWhole
<1>13. DeletesAreLast(r)' /\ TypesKept(r)'
  <2>1. \A y \in Gone(r) : NothingAt(Seen(r)', y)
    BY <1>3, <1>4, <1>6, <1>7, <1>8 DEF NothingAt, DeletesAreLast
  <2> QED
    BY <1>1, <1>3, <1>6, <1>9, <2>1 DEF RequestInv, DeletesAreLast, TypesKept, NothingAt
<1>14. WritesAreHeld(r)'
  <2>1. WritesAreHeld(r)
    BY <1>3 DEF RequestInv
  <2>2. IdsOf(put'[r].data) \cup IdsOf(cut'[r].data) \subseteq Held(r)
    BY <1>3, <1>4, <1>7, <2>1 DEF WritesAreHeld, IdsOf
  <2>3. IdsOf(put'[r].items) \subseteq Held(r)
    BY <1>8, <2>1 DEF WritesAreHeld, IdsOf
  <2>4. \A i \in cut'[r].items : i.id \in Held(r) \/ i.sub \in Gone(r)
    BY <1>3, <1>4, <1>8, <2>1 DEF WritesAreHeld
  <2> QED
    BY <1>6, <1>9, <2>1, <2>2, <2>3, <2>4 DEF WritesAreHeld
<1>15. WritesSeen(r)
  BY <1>6, SeenRows DEF WritesSeen, IdsOf
<1>16. RequestInv(r)'
  BY <1>2, <1>12, <1>13, <1>14 DEF RequestInv
<1> QED
  BY <1>1, <1>9, <1>15, <1>16, StepKeeps

\* What others hold sees a commit only through contents that were deleted.
LEMMA CommitStays ==
  ASSUME IInv, NEW r \in Requests, Commit(r), NEW q \in Requests \ {r}
  PROVE  RequestInv(q)'
<1>1. /\ pc[r] = "commit" /\ db' = Seen(r) /\ lastId' = lastId
      /\ pc'[q] = pc[q] /\ body'[q] = body[q] /\ part'[q] = part[q] /\ todo'[q] = todo[q]
      /\ ids'[q] = ids[q] /\ put'[q] = put[q] /\ cut'[q] = cut[q]
      /\ \A p \in Requests \ {r} : put'[p] = put[p]
      /\ put'[r] = NoRows
  BY DEF Commit, End, Goto, IInv, TypeOK
<1>2. Held(q)' = Held(q) /\ Gone(q)' = Gone(q)
  BY <1>1 DEF Held, Gone
<1>3. /\ Given(q)' = Given(q) /\ Pending(q)' = Pending(q) /\ PendingIds(q)' = PendingIds(q)
      /\ Existing(q)' = Existing(q) /\ Typed(q)' = Typed(q) /\ Open(q)' = Open(q)
      /\ Composites(q)' = Composites(q) /\ CompositeIds(q)' = CompositeIds(q)
      /\ \A c \in Refs : IdOf(q, c)' = IdOf(q, c)
  BY <1>1 DEF Given, Pending, PendingIds, Existing, Pieces, Typed, Open, Composites, CompositeIds, IdOf
<1>4. RequestInv(q) /\ RequestInv(r)
  BY DEF IInv
<1>5. ASSUME NEW x \in Held(q)
      PROVE  Keeps(db, db', x) /\ Keeps(Seen(q), Seen(q)', x)
  <2>1. x \notin Held(r)
    BY <1>5 DEF IInv, RowsAreLocked
  <2>2. Keeps(db, db', x)
    BY <1>1, <2>1, SeesCommitted
  <2>3. /\ Seen(q)'.objects = (db'.objects \ cut[q].objects) \cup put[q].objects
        /\ Seen(q)'.data = (db'.data \ cut[q].data) \cup put[q].data
        /\ Seen(q)'.items = (db'.items \ cut[q].items) \cup put[q].items
    BY <1>1 DEF Seen, Plus, Less
  <2> QED
    BY <2>2, <2>3, SeenRows DEF Keeps
<1>6. RouteShape(q)' /\ WritesAreHeld(q)'
  BY <1>1, <1>2, <1>3, <1>4 DEF RequestInv, RouteShape, MainIsComposite, WritesAreHeld
<1>7. SeenIsWhole(q)'
  <2>1. SeenIsWhole(q) /\ IdsOf(put[q].objects) \subseteq Held(q)
    BY <1>4 DEF RequestInv, WritesAreHeld
  <2>2. ASSUME NEW c \in Pending(q)
        PROVE  /\ ids[q][c] \in IdsOf(put[q].objects)
               /\ BareAt(Seen(q)', ids[q][c], body[q].writes[c].type)
    <3>1. ids[q][c] \in IdsOf(put[q].objects) /\ BareAt(Seen(q), ids[q][c], body[q].writes[c].type)
      BY <2>1, <2>2 DEF SeenIsWhole
    <3>2. Keeps(Seen(q), Seen(q)', ids[q][c])
      BY <1>5, <2>1, <3>1
    <3> QED
      BY <3>1, <3>2, KeepsBare
  <2>3. ASSUME NEW x \in Held(q) \ (PendingIds(q) \cup Gone(q))
        PROVE  WholeAt(Seen(q)', x)
    <3>1. WholeAt(Seen(q), x) /\ Keeps(Seen(q), Seen(q)', x)
      BY <1>5, <2>1, <2>3 DEF SeenIsWhole
    <3> QED
      BY <3>1, KeepsWhole
  <2> QED
    BY <1>1, <1>2, <1>3, <2>1, <2>2, <2>3 DEF SeenIsWhole
<1>8. DeletesAreLast(q)'
  <2>1. ASSUME NEW x \in Gone(q)
        PROVE  /\ \A o \in Seen(q)'.objects : o.id # x
               /\ pc[q] = "commit" => NothingAt(Seen(q)', x)
    <3>1. Keeps(Seen(q), Seen(q)', x)
      BY <1>5, <2>1 DEF Gone, Held
    <3>2. (\A o \in Seen(q).objects : o.id # x) /\ (pc[q] = "commit" => NothingAt(Seen(q), x))
      BY <1>4, <2>1 DEF RequestInv, DeletesAreLast
    <3>3. pc[q] = "commit" => NothingAt(Seen(q)', x)
      BY <3>1, <3>2, KeepsNothing
    <3> QED
      BY <3>1, <3>2, <3>3 DEF Keeps
  <2> QED
    BY <1>1, <1>2, <1>4, <2>1 DEF RequestInv, DeletesAreLast
<1>9. TypesKept(q)'
  <2>1. ASSUME NEW o \in put[q].objects, NEW p \in db'.objects, o.id = p.id
        PROVE  p \in db.objects
    BY <1>5, <2>1 DEF Keeps, Held, IdsOf
  <2> QED
    BY <1>1, <1>4, <2>1 DEF RequestInv, TypesKept
<1>10. db'.objects = (db.objects \ cut[r].objects) \cup put[r].objects
  BY <1>1, SeenRows
<1>11. ASSUME NEW x \in Ids, Dead(x)
       PROVE  Dead(x)'
  <2>1. \A o \in db'.objects : o.id # x
    BY <1>10, <1>11 DEF Dead, IdsOf
  <2>2. \A p \in Requests : x \notin IdsOf(put'[p].objects)
    BY <1>1, <1>11 DEF Dead, NoRows, IdsOf
  <2> QED
    BY <1>1, <1>11, <2>1, <2>2 DEF Dead
<1>12. ASSUME NEW x \in Ids, x \in IdsOf(db.objects), x \notin IdsOf(db'.objects), x \notin IdsOf(put[q].objects)
       PROVE  Dead(x)'
  <2>1. PICK o \in db.objects : o.id = x
    BY <1>12 DEF IdsOf
  <2>2. x \in Held(r) /\ x <= lastId
    BY <1>10, <1>12, <2>1 DEF Held, IdsOf, IInv, IdsAreTaken
  <2>3. \A p \in Requests \ {r} : x \notin IdsOf(put[p].objects)
    BY <2>2 DEF IInv, RowsAreLocked, Held
  <2>4. \A p \in Requests : x \notin IdsOf(put'[p].objects)
    BY <1>1, <2>3 DEF NoRows, IdsOf
  <2> QED
    BY <1>1, <1>12, <2>2, <2>4 DEF Dead, IdsOf
<1>13. ExistingAreHeld(q)'
  <2>1. ExistingAreHeld(q) /\ Existing(q) \subseteq Ids
    BY <1>4 DEF RequestInv, Existing
  <2>2. ASSUME pc[q] = "update", Typed(q), NEW x \in Existing(q)
        PROVE  /\ x \in IdsOf(put[q].objects) \cup IdsOf(db'.objects) \/ Dead(x)'
               /\ \A o \in put[q].objects \cup db'.objects : o.id = x => o.type = body[q].writes[x].type
    <3>1. /\ x \in IdsOf(put[q].objects) \cup IdsOf(db.objects) \/ Dead(x)
          /\ \A o \in put[q].objects \cup db.objects : o.id = x => o.type = body[q].writes[x].type
      BY <2>1, <2>2 DEF ExistingAreHeld
    <3>2. x \in IdsOf(put[q].objects) \cup IdsOf(db'.objects) \/ Dead(x)'
      BY <1>11, <1>12, <2>1, <2>2, <3>1
    <3>3. ASSUME NEW o \in put[r].objects, o.id = x
          PROVE  o.type = body[q].writes[x].type
      <4>1. x \notin IdsOf(put[q].objects) /\ ~ Dead(x)
        BY <3>3 DEF IInv, RowsAreLocked, Held, IdsOf, Dead
      <4>2. PICK p \in db.objects : p.id = x
        BY <3>1, <4>1 DEF IdsOf
      <4> QED
        BY <1>4, <3>1, <3>3, <4>2 DEF RequestInv, TypesKept
    <3> QED
      BY <1>10, <3>1, <3>2, <3>3
  <2> QED
    BY <1>1, <1>3, <1>11, <2>1, <2>2 DEF ExistingAreHeld
<1>14. CompositesAreHeld(q)'
  <2>1. \A c \in Composites(q) : IdOf(q, c)' = IdOf(q, c)
    BY <1>3 DEF Composites, Asked
  <2>2. CompositesAreHeld(q)
    BY <1>4 DEF RequestInv
  <2>3. ASSUME pc[q] = "link", NEW d \in Seen(q)'.data, d.id \in CompositeIds(q)
        PROVE  d.by = q
    <3>1. d.id \in Held(q)
      BY <2>2, <2>3 DEF CompositesAreHeld, Upserting, CompositeIds, Held, IdsOf
    <3>2. d \in Seen(q).data
      BY <1>5, <2>3, <3>1 DEF Keeps
    <3> QED
      BY <2>2, <2>3, <3>2 DEF CompositesAreHeld
  <2> QED
    BY <1>1, <1>3, <2>1, <2>2, <2>3 DEF CompositesAreHeld
<1> QED
  BY <1>6, <1>7, <1>8, <1>9, <1>13, <1>14 DEF RequestInv

LEMMA CommitKeeps ==
  ASSUME IInv, TypeOK', NEW r \in Requests, Commit(r)
  PROVE  IInv'
<1>1. /\ pc[r] = "commit" /\ db' = Seen(r) /\ lastId' = lastId
      /\ pc'[r] = "done" /\ put'[r] = NoRows /\ cut'[r] = NoRows /\ part'[r] = "main"
      /\ \A q \in Requests \ {r} : put'[q] = put[q] /\ cut'[q] = cut[q]
  BY DEF Commit, End, Goto, IInv, TypeOK
<1>2. RequestInv(r)' /\ Held(r)' = {}
  BY <1>1, Ended
<1>3. \A q \in Requests : RequestInv(q)'
  BY <1>2, CommitStays
<1>4. \A q \in Requests : Held(q)' \subseteq Held(q)
  BY <1>1, <1>2 DEF Held
<1>5. db'.objects = (db.objects \ cut[r].objects) \cup put[r].objects
  BY <1>1, SeenRows
<1>6. IdsAreTaken' /\ RowsAreLocked'
  <2>1. \A o \in db'.objects : o.id <= lastId
    BY <1>5 DEF IInv, IdsAreTaken, Held, IdsOf
  <2> QED
    BY <1>1, <1>4, <2>1 DEF IInv, IdsAreTaken, RowsAreLocked
<1>7. ASSUME NEW x \in Ids
      PROVE  WholeAt(db', x)
  <2>1. RequestInv(r) /\ PendingIds(r) = {}
    BY <1>1 DEF IInv, PendingIds, Pending, Given
  <2>2. CASE x \notin Held(r)
    <3>1. WholeAt(db, x)
      BY DEF IInv
    <3> QED
      BY <1>1, <2>2, <3>1, SeesCommitted, KeepsWhole
  <2>3. CASE x \in Gone(r)
    BY <1>1, <2>1, <2>3 DEF RequestInv, DeletesAreLast, WholeAt
  <2>4. CASE x \in Held(r) \ Gone(r)
    BY <1>1, <2>1, <2>4 DEF RequestInv, SeenIsWhole
  <2> QED
    BY <2>2, <2>3, <2>4
<1> QED
  BY <1>3, <1>6, <1>7 DEF IInv

-----------------------------------------------------------------------------
(* Types *)

Answers == {0, 200, 400, 401, 403, 404, 500, Lost}

LEMMA TablesAreTyped ==
  ASSUME NEW s \in Tables, NEW t \in Tables
  PROVE  Plus(s, t) \in Tables /\ Less(s, t) \in Tables
  BY DEF Plus, Less, Tables

LEMMA SeenIsTyped ==
  ASSUME TypeOK, NEW r \in Requests
  PROVE  Seen(r) \in Tables /\ NoRows \in Tables
<1>1. db \in Tables /\ put[r] \in Tables /\ cut[r] \in Tables
  BY DEF TypeOK
<1>2. NoRows \in Tables
  BY DEF NoRows, Tables
<1> QED
  BY <1>1, <1>2, TablesAreTyped DEF Seen

LEMMA ReplaceIsTyped ==
  ASSUME TypeOK, NEW r \in Requests, NEW old \in Tables, NEW new \in Tables, Replace(r, old, new)
  PROVE  put' \in [Requests -> Tables] /\ cut' \in [Requests -> Tables]
<1>1. put \in [Requests -> Tables] /\ cut \in [Requests -> Tables]
  BY DEF TypeOK
<1>2. Plus(cut[r], old) \in Tables /\ Less(put[r], old) \in Tables
  BY <1>1, TablesAreTyped
<1>3. Plus(Less(put[r], old), new) \in Tables
  BY <1>2, TablesAreTyped
<1> QED
  BY <1>1, <1>2, <1>3 DEF Replace

LEMMA PutIsTyped ==
  ASSUME TypeOK, NEW r \in Requests, NEW new \in Tables, Put(r, new)
  PROVE  put' \in [Requests -> Tables]
<1>1. put \in [Requests -> Tables]
  BY DEF TypeOK
<1>2. Plus(put[r], new) \in Tables
  BY <1>1, TablesAreTyped
<1> QED
  BY <1>1, <1>2 DEF Put

LEMMA EndIsTyped ==
  ASSUME TypeOK, NEW r \in Requests, NEW status \in Answers, End(r, status)
  PROVE  /\ pc' \in [Requests -> Step] /\ body' \in [Requests -> Body] /\ answer' \in [Requests -> Answers]
         /\ part' \in [Requests -> {"main", "subobjects"}] /\ todo' \in [Requests -> SUBSET Ids]
         /\ put' \in [Requests -> Tables] /\ cut' \in [Requests -> Tables] /\ shared' \in [Requests -> SUBSET Ids]
         /\ checked' \in [Requests -> SUBSET Ids] /\ doomed' \in [Requests -> SUBSET Ids]
         /\ shown' \in [Requests -> Shown] /\ feasible' \in [Requests -> BOOLEAN]
<1>1. NoRows \in Tables /\ NothingShown \in Shown
  BY DEF NoRows, Tables, NothingShown, Shown
<1>2. put' \in [Requests -> Tables] /\ cut' \in [Requests -> Tables] /\ shown' \in [Requests -> Shown]
  BY <1>1 DEF End, TypeOK
<1> QED
  BY <1>2 DEF End, Goto, TypeOK, Step, Answers

LEMMA RefuseIsTyped ==
  ASSUME TypeOK, NEW r \in Requests, NEW status \in Answers, Refuse(r, status)
  PROVE  TypeOK'
<1>1. End(r, status) /\ UNCHANGED <<tableVars, changed>> /\ ids' = [ids EXCEPT ![r] = [c \in NewIds |-> 0]]
  BY DEF Refuse
<1>2. ids' \in [Requests -> [NewIds -> Ids \cup {0}]]
  BY <1>1 DEF TypeOK
<1>3. db' \in Tables /\ hidden' \in SUBSET Ids /\ lastId' \in 0 .. MaxId /\ changed' \in [Requests -> SUBSET Ids]
  BY <1>1 DEF TypeOK, tableVars
<1> QED
  BY <1>1, <1>2, <1>3, EndIsTyped DEF TypeOK, Answers

\* The objects of the body that a request is about to write.
LEMMA PiecesAreAsked ==
  ASSUME IInv, NEW r \in Requests, pc[r] \in Upserting
  PROVE  /\ body[r].route \in {"add", "update", "bulk_upsert"} /\ body[r].issuer \in Users
         /\ \A c \in Pieces(r) : c \in Refs /\ body[r].writes[c] \in Spec1
<1>1. body[r] \in Body /\ Accepted(body[r]) /\ RouteShape(r) /\ Open(r)
  BY ObjectAssumption DEF IInv, RequestInv, RouteShape, Open, Upserting
<1>2. body[r].route \in {"add", "update", "bulk_upsert"} /\ body[r].issuer \in Users
  BY <1>1 DEF RouteShape, StepsOf, Upserting, Body, Routes
<1>3. Typed(r) \/ body[r].main \in Asked(body[r])
  BY <1>1, <1>2 DEF Accepted, AcceptedUntyped, Typed
<1>4. Pieces(r) \subseteq Asked(body[r])
  BY <1>3 DEF Pieces
<1>5. \A c \in Asked(body[r]) : c \in Refs /\ body[r].writes[c] \in Spec1
  BY <1>1 DEF Asked, Body
<1> QED
  BY <1>2, <1>4, <1>5

LEMMA BeginIsTyped ==
  ASSUME IInv, NEW r \in Requests, Begin(r)
  PROVE  TypeOK'
<1>1. PICK b \in Bodies :
         /\ body' = [body EXCEPT ![r] = b]
         /\ feasible' = [feasible EXCEPT ![r] = Feasible(b)]
         /\ IF RouteRefusal(b) # 0
             THEN /\ Goto(r, "done") /\ answer' = [answer EXCEPT ![r] = RouteRefusal(b)]
                  /\ UNCHANGED doomed
             ELSE /\ Goto(r, FirstStep(b)) /\ UNCHANGED answer
                  /\ doomed' = [doomed EXCEPT ![r] = IF b.route \in {"bulk_upsert", "delete"} THEN b.gone ELSE {}]
  BY DEF Begin
<1>2. b \in Body /\ b.gone \subseteq Ids
  BY ObjectAssumption DEF Body
<1>3. RouteRefusal(b) \in {0, 401, 403} /\ FirstStep(b) \in Step
  BY <1>2 DEF RouteRefusal, FirstStep, Step, Body, Routes
<1>4. Feasible(b) \in BOOLEAN
  BY DEF Feasible
<1>5. TypeOK
  BY DEF IInv
<1>6. feasible' \in [Requests -> BOOLEAN] /\ body' \in [Requests -> Body]
  BY <1>1, <1>2, <1>4, <1>5 DEF TypeOK
<1>7. pc' \in [Requests -> Step] /\ answer' \in [Requests -> Answers] /\ doomed' \in [Requests -> SUBSET Ids]
  <2>1. /\ pc \in [Requests -> Step] /\ answer \in [Requests -> Answers] /\ doomed \in [Requests -> SUBSET Ids]
        /\ "done" \in Step
    BY <1>5 DEF TypeOK, Answers, Step
  <2>2. CASE RouteRefusal(b) # 0
    BY <1>1, <1>3, <2>1, <2>2 DEF Goto, Answers
  <2>3. CASE RouteRefusal(b) = 0
    BY <1>1, <1>2, <1>3, <2>1, <2>3 DEF Goto
  <2> QED
    BY <2>2, <2>3
<1> QED
  BY <1>5, <1>6, <1>7 DEF Begin, TypeOK, tableVars, writeVars, Answers

LEMMA InsertIsTyped ==
  ASSUME IInv, NEW r \in Requests, InsertObjects(r)
  PROVE  TypeOK'
<1> DEFINE new == Pieces(r) \cap NewIds
           spec(c) == body[r].writes[c]
           row(c) == [id |-> lastId + Cardinality({d \in new : d >= c}), type |-> spec(c).type, by |-> r,
                      owner |-> IF spec(c).owner = Unset THEN body[r].issuer ELSE spec(c).owner,
                      published |-> spec(c).published]
           composite == ~Typed(r) /\ part[r] = "main" /\ SimplePieces(r) = {}
           rows == [NoRows EXCEPT !.objects = {row(c) : c \in new}]
<1>1. TypeOK /\ pc[r] = "insert"
  BY DEF IInv, InsertObjects
<1>2. CASE Refuse(r, 403)
  BY <1>1, <1>2, RefuseIsTyped DEF Answers
<1>3. CASE ~ Refuse(r, 403)
  <2>1. /\ lastId + Cardinality(new) <= MaxId
        /\ lastId' = lastId + Cardinality(new)
        /\ ids' = [ids EXCEPT ![r] = [c \in NewIds |-> IF c \in new THEN lastId + Rank(c, new) ELSE @[c]]]
        /\ Put(r, rows)
        /\ part' = [part EXCEPT ![r] = IF composite THEN "subobjects" ELSE @]
        /\ Goto(r, IF composite THEN "insert" ELSE IF Existing(r) # {} THEN "authorize" ELSE "data")
        /\ UNCHANGED <<db, hidden, body, answer, cut, shared, todo, checked, doomed, shown, feasible, changed>>
    BY <1>3 DEF InsertObjects
  <2>2. lastId \in Nat /\ lastId <= MaxId /\ MaxId \in Nat
    BY <1>1, ObjectAssumption DEF TypeOK
  <2>3. new \in SUBSET NewIds
    OBVIOUS
  <2>4. /\ Cardinality(new) \in Nat
        /\ \A c \in new : Rank(c, new) \in 1 .. Cardinality(new)
    BY <2>3, Ranks
  <2>5. ASSUME NEW c \in new
        PROVE  lastId + Rank(c, new) \in Ids
    <3>1. Rank(c, new) \in 1 .. Cardinality(new)
      BY <2>4, <2>5
    <3> HIDE DEF new
    <3> QED
      BY <2>1, <2>2, <2>4, <3>1 DEF Ids
  <2>6. ASSUME NEW c \in new
        PROVE  row(c) \in ObjectRow
    <3>1. spec(c) \in Spec1 /\ body[r].issuer \in Users
      BY <1>1, PiecesAreAsked DEF Upserting
    <3>2. lastId + Cardinality({d \in new : d >= c}) \in Ids
      BY <2>5 DEF Rank
    <3> HIDE DEF new, spec
    <3>3. /\ spec(c).type \in Types /\ spec(c).published \in BOOLEAN
          /\ (IF spec(c).owner = Unset THEN body[r].issuer ELSE spec(c).owner) \in Users
      BY <3>1 DEF Spec1
    <3> QED
      BY <3>2, <3>3 DEF ObjectRow, Writers
  <2>7. rows \in Tables
    <3>1. {row(c) : c \in new} \subseteq ObjectRow
      BY <2>6
    <3> HIDE DEF row, new
    <3> QED
      BY <3>1 DEF Tables, NoRows
  <2>8. put' \in [Requests -> Tables]
    <3> HIDE DEF rows
    <3> QED
      BY <1>1, <2>1, <2>7, PutIsTyped
  <2>9. lastId' \in 0 .. MaxId
    BY <2>1, <2>2, <2>4
  <2>10. ids' \in [Requests -> [NewIds -> Ids \cup {0}]]
    <3> DEFINE given == [c \in NewIds |-> IF c \in new THEN lastId + Rank(c, new) ELSE ids[r][c]]
    <3>1. ids \in [Requests -> [NewIds -> Ids \cup {0}]] /\ ids' = [ids EXCEPT ![r] = given]
      BY <1>1, <2>1 DEF TypeOK
    <3>2. given \in [NewIds -> Ids \cup {0}]
      BY <2>5, <3>1
    <3> HIDE DEF given
    <3> QED
      BY <3>1, <3>2
  <2>11. pc' \in [Requests -> Step] /\ part' \in [Requests -> {"main", "subobjects"}]
    <3> HIDE DEF composite
    <3>1. pc \in [Requests -> Step] /\ part \in [Requests -> {"main", "subobjects"}]
      BY <1>1 DEF TypeOK
    <3>2. {"insert", "authorize", "data"} \subseteq Step
      BY DEF Step
    <3> QED
      BY <2>1, <3>1, <3>2 DEF Goto
  <2> HIDE DEF new, rows, composite
  <2> QED
    BY <1>1, <2>1, <2>8, <2>9, <2>10, <2>11 DEF TypeOK
<1> QED
  BY <1>2, <1>3

\* The steps that write nothing.
LEMMA ChecksAreTyped ==
  ASSUME IInv, NEW r \in Requests, Authorize(r) \/ CheckExisting(r) \/ CheckSubobjects(r)
  PROVE  TypeOK'
<1>1. TypeOK /\ Existing(r) \subseteq Ids
  BY DEF IInv, Existing
<1>2. CASE Refuse(r, 403) \/ Refuse(r, 400)
  <2>1. 403 \in Answers /\ 400 \in Answers
    BY DEF Answers
  <2> QED
    BY <1>1, <1>2, <2>1, RefuseIsTyped
<1>3. CASE Authorize(r) /\ ~ Refuse(r, 403)
  <2>1. /\ checked' = [checked EXCEPT ![r] = @ \cup Existing(r)]
        /\ todo' = [todo EXCEPT ![r] = Existing(r)]
        /\ pc' = [pc EXCEPT ![r] = IF Typed(r) THEN "check" ELSE "update"]
        /\ UNCHANGED <<tableVars, body, answer, writeVars, part, ids, doomed, shown, feasible, changed>>
    BY <1>3 DEF Authorize, Goto
  <2>2. checked' \in [Requests -> SUBSET Ids] /\ todo' \in [Requests -> SUBSET Ids]
    BY <1>1, <2>1 DEF TypeOK
  <2>3. pc' \in [Requests -> Step]
    BY <1>1, <2>1 DEF TypeOK, Step
  <2> QED
    BY <1>1, <2>1, <2>2, <2>3 DEF TypeOK, tableVars, writeVars
<1>4. CASE (CheckExisting(r) \/ CheckSubobjects(r)) /\ ~ Refuse(r, 400)
  BY <1>1, <1>4 DEF CheckExisting, CheckSubobjects, TypeOK, Goto, tableVars, writeVars, workVars, Step
<1> QED
  BY <1>2, <1>3, <1>4

LEMMA UpdateIsTyped ==
  ASSUME IInv, NEW r \in Requests, NEW x \in Ids, UpdateObject(r, x)
  PROVE  TypeOK'
<1> DEFINE spec == body[r].writes[x]
           old == RowsOf(Seen(r), x)
           updated(o) == [o EXCEPT !.published = spec.published, !.by = r,
                                   !.owner = IF spec.owner = Unset THEN @ ELSE spec.owner,
                                   !.type = IF Typed(r) THEN spec.type ELSE @]
           new == {updated(o) : o \in old}
           composite == ~Typed(r) /\ part[r] = "main" /\ spec.type = "composite"
           s == [NoRows EXCEPT !.objects = old]
           t == [NoRows EXCEPT !.objects = new]
<1>1. TypeOK /\ pc[r] = "update" /\ x \in todo[r]
  BY DEF IInv, UpdateObject
<1>2. CASE Refuse(r, 400)
  BY <1>1, <1>2, RefuseIsTyped DEF Answers
<1>3. CASE ~ Refuse(r, 400)
  <2>1. /\ Replace(r, s, t)
        /\ todo' = [todo EXCEPT ![r] = @ \ {x}]
        /\ Goto(r, IF todo[r] # {x} THEN "update" ELSE IF composite THEN "insert" ELSE "data")
        /\ part' = [part EXCEPT ![r] = IF composite THEN "subobjects" ELSE @]
        /\ UNCHANGED <<tableVars, body, answer, shared, ids, checked, doomed, shown, feasible, changed>>
    BY <1>3 DEF UpdateObject
  <2>2. spec \in Spec1
    <3>1. x \in Pieces(r)
      BY <1>1 DEF IInv, RequestInv, ExistingAreHeld, Existing
    <3> QED
      BY <1>1, <3>1, PiecesAreAsked DEF Upserting
  <2>3. old \subseteq ObjectRow
    BY <1>1, SeenIsTyped DEF RowsOf, Tables
  <2>4. ASSUME NEW o \in old
        PROVE  updated(o) \in ObjectRow
    <3>1. o \in ObjectRow
      BY <2>3
    <3> HIDE DEF spec, old
    <3> QED
      BY <2>2, <3>1 DEF ObjectRow, Spec1, Writers
  <2>5. new \subseteq ObjectRow
    BY <2>4
  <2>6. s \in Tables /\ t \in Tables
    <3> HIDE DEF old, new
    <3> QED
      BY <2>3, <2>5 DEF Tables, NoRows
  <2> HIDE DEF s, t, composite
  <2>7. put' \in [Requests -> Tables] /\ cut' \in [Requests -> Tables]
    BY <1>1, <2>1, <2>6, ReplaceIsTyped
  <2>8. pc' \in [Requests -> Step] /\ part' \in [Requests -> {"main", "subobjects"}] /\ todo' \in [Requests -> SUBSET Ids]
    <3>1. /\ pc \in [Requests -> Step] /\ part \in [Requests -> {"main", "subobjects"}] /\ todo \in [Requests -> SUBSET Ids]
          /\ {"update", "insert", "data"} \subseteq Step
      BY <1>1 DEF TypeOK, Step
    <3> QED
      BY <2>1, <3>1 DEF Goto
  <2> QED
    BY <1>1, <2>1, <2>7, <2>8 DEF TypeOK, tableVars
<1> QED
  BY <1>2, <1>3

LEMMA WriteIsTyped ==
  ASSUME IInv, NEW r \in Requests, WriteData(r)
  PROVE  TypeOK'
<1> DEFINE s == [objects |-> {}, data |-> OldData(r), items |-> OldListItems(r)]
           t == [objects |-> {}, data |-> NewData(r), items |-> NewListItems(r)]
<1>1. TypeOK /\ pc[r] = "data"
  BY DEF IInv, WriteData
<1>2. CASE Refuse(r, 400)
  BY <1>1, <1>2, RefuseIsTyped DEF Answers
<1>3. CASE ~ Refuse(r, 400)
  <2>1. /\ Replace(r, s, t)
        /\ Goto(r, IF Typed(r) THEN IF Composites(r) # {} THEN "unlink" ELSE "authorize_delete"
                   ELSE IF part[r] = "main" THEN "commit" ELSE "exist")
        /\ UNCHANGED <<tableVars, body, answer, shared, part, todo, ids, checked, doomed, shown, feasible, changed>>
    BY <1>3 DEF WriteData
  <2>2. ASSUME NEW c \in Pieces(r)
        PROVE  IdOf(r, c) \in Ids /\ body[r].writes[c].type \in Types
    <3>1. c \in Refs /\ body[r].writes[c] \in Spec1
      BY <1>1, <2>2, PiecesAreAsked DEF Upserting
    <3>2. CASE c \in NewIds
      <4>1. c \in Given(r)
        BY <1>1, <2>2, <3>2 DEF Given, Pieces, TypeOK
      <4> QED
        BY <3>1, <3>2, <4>1 DEF IInv, RequestInv, SeenIsWhole, IdOf, Spec1
    <3>3. CASE c \notin NewIds
      BY <3>1, <3>3 DEF IdOf, Refs, Spec1
    <3> QED
      BY <3>2, <3>3
  <2>3. NewData(r) \subseteq DataRow
    BY <2>2 DEF NewData, DataRow, SimplePieces, Writers
  <2>4. NewListItems(r) \subseteq ItemRow
    <3>1. ListsWritten(r) \subseteq Ids
      BY <2>3 DEF ListsWritten, IdsOf, DataRow
    <3> QED
      BY <3>1 DEF NewListItems, ItemRow, Writers
  <2>5. OldData(r) \subseteq DataRow /\ OldListItems(r) \subseteq ItemRow
    BY <1>1, SeenIsTyped DEF OldData, OldListItems, Tables
  <2>6. s \in Tables /\ t \in Tables
    BY <2>3, <2>4, <2>5 DEF Tables
  <2> HIDE DEF s, t
  <2>7. put' \in [Requests -> Tables] /\ cut' \in [Requests -> Tables]
    BY <1>1, <2>1, <2>6, ReplaceIsTyped
  <2>8. pc' \in [Requests -> Step]
    <3>1. pc \in [Requests -> Step] /\ {"unlink", "authorize_delete", "commit", "exist"} \subseteq Step
      BY <1>1 DEF TypeOK, Step
    <3> QED
      BY <2>1, <3>1 DEF Goto
  <2> QED
    BY <1>1, <2>1, <2>7, <2>8 DEF TypeOK, tableVars
<1> QED
  BY <1>2, <1>3

LEMMA CompositeIdsAreIds ==
  ASSUME IInv, NEW r \in Requests, pc[r] \in {"unlink", "link"}
  PROVE  CompositeIds(r) \subseteq Ids /\ Subobjects(r) \subseteq Ids
<1>1. TypeOK /\ CompositesAreHeld(r)
  BY DEF IInv, RequestInv
<1>2. \A x \in CompositeIds(r) : \E o \in put[r].objects : o.id = x
  BY <1>1 DEF CompositesAreHeld, Upserting, CompositeIds
<1>3. CompositeIds(r) \subseteq Ids
  BY <1>1, <1>2 DEF TypeOK, Tables, ObjectRow
<1>4. Subobjects(r) \subseteq Ids
  BY LinksAreWritten DEF Subobjects, Linked
<1> QED
  BY <1>3, <1>4

LEMMA UnlinkIsTyped ==
  ASSUME IInv, NEW r \in Requests, Unlink(r)
  PROVE  TypeOK'
<1> DEFINE properties == {d \in Seen(r).data : d.id \in CompositeIds(r) /\ d.table = "composite"}
           rows == {[id |-> x, table |-> "composite", by |-> r] : x \in CompositeIds(r)}
           s == [objects |-> {}, data |-> properties, items |-> OldItems(r)]
           t == [NoRows EXCEPT !.data = rows]
<1>1. /\ pc[r] = "unlink" /\ Goto(r, "link") /\ todo' = [todo EXCEPT ![r] = Subobjects(r)] /\ Replace(r, s, t)
      /\ UNCHANGED <<tableVars, body, answer, shared, part, ids, checked, doomed, shown, feasible, changed>>
  BY DEF Unlink
<1>2. TypeOK /\ CompositeIds(r) \subseteq Ids /\ Subobjects(r) \subseteq Ids
  BY <1>1, CompositeIdsAreIds DEF IInv
<1>3. properties \subseteq DataRow /\ OldItems(r) \subseteq ItemRow
  BY <1>2, SeenIsTyped DEF OldItems, Tables
<1>4. rows \subseteq DataRow
  BY <1>2 DEF DataRow, Types, Writers
<1>5. s \in Tables /\ t \in Tables
  <2> HIDE DEF properties, rows
  <2> QED
    BY <1>3, <1>4 DEF Tables, NoRows
<1> HIDE DEF s, t
<1>6. put' \in [Requests -> Tables] /\ cut' \in [Requests -> Tables]
  BY <1>1, <1>2, <1>5, ReplaceIsTyped
<1>7. pc' \in [Requests -> Step] /\ todo' \in [Requests -> SUBSET Ids]
  BY <1>1, <1>2 DEF TypeOK, Goto, Step
<1> QED
  BY <1>1, <1>2, <1>6, <1>7 DEF TypeOK, tableVars

LEMMA LinkIsTyped ==
  ASSUME IInv, NEW r \in Requests, Link(r)
  PROVE  TypeOK'
<1>1. TypeOK /\ pc[r] = "link"
  BY DEF IInv, Link
<1>2. CASE Refuse(r, 500)
  BY <1>1, <1>2, RefuseIsTyped DEF Answers
<1>3. CASE todo[r] # {} /\ ~ Refuse(r, 500)
  <2>1. PICK x \in todo[r] :
           /\ shared' = [shared EXCEPT ![r] = @ \cup {x}]
           /\ todo' = [todo EXCEPT ![r] = @ \ {x}]
           /\ UNCHANGED <<tableVars, pc, body, answer, put, cut, part, ids, checked, doomed, shown, feasible, changed>>
    BY <1>3 DEF Link
  <2>2. shared' \in [Requests -> SUBSET Ids] /\ todo' \in [Requests -> SUBSET Ids]
    BY <1>1, <2>1 DEF TypeOK
  <2> QED
    BY <1>1, <2>1, <2>2 DEF TypeOK, tableVars
<1>4. CASE todo[r] = {}
  <2> DEFINE t == [NoRows EXCEPT !.items = NewItems(r)]
  <2>1. /\ Put(r, t) /\ Goto(r, AfterLink(r))
        /\ UNCHANGED <<tableVars, body, answer, cut, shared, workVars, feasible, changed>>
    BY <1>4 DEF Link
  <2>2. NewItems(r) \subseteq ItemRow
    <3>1. CompositeIds(r) \subseteq Ids
      BY <1>1, CompositeIdsAreIds
    <3>2. \A l \in body[r].links : IdOf(r, l[1]) \in Ids /\ IdOf(r, l[2]) \in Ids
      BY <1>1, <3>1, LinksAreWritten DEF CompositeIds
    <3> QED
      BY <3>2 DEF NewItems, ItemRow, Writers
  <2>3. t \in Tables
    BY <2>2 DEF Tables, NoRows
  <2> HIDE DEF t
  <2>4. put' \in [Requests -> Tables]
    BY <1>1, <2>1, <2>3, PutIsTyped
  <2>5. pc' \in [Requests -> Step]
    BY <1>1, <2>1 DEF TypeOK, Goto, AfterLink, Step
  <2> QED
    BY <1>1, <2>1, <2>4, <2>5 DEF TypeOK, tableVars, workVars
<1> QED
  BY <1>2, <1>3, <1>4

LEMMA FindIsTyped ==
  ASSUME IInv, NEW r \in Requests, FindMarked(r) \/ FindSubobjects(r) \/ FindExclusive(r) \/ AuthorizeDelete(r)
  PROVE  TypeOK'
<1>1. TypeOK /\ body[r].gone \subseteq Ids /\ {i.sub : i \in db.items} \subseteq Ids \cup {0}
  BY DEF IInv, TypeOK, Body, Tables, ItemRow
<1>2. CASE AuthorizeDelete(r) /\ Refuse(r, 403)
  BY <1>1, <1>2, RefuseIsTyped DEF Answers
<1>3. CASE FindMarked(r)
  <2>1. /\ doomed' = [doomed EXCEPT ![r] = Unreferenced(r)] /\ Unreferenced(r) \subseteq Ids
        /\ pc' = [pc EXCEPT ![r] = IF doomed'[r] = {} THEN "commit" ELSE "authorize_delete"]
        /\ UNCHANGED <<tableVars, body, answer, writeVars, part, todo, ids, checked, shown, feasible, changed>>
    BY <1>1, <1>3 DEF FindMarked, Goto, Unreferenced
  <2>2. doomed' \in [Requests -> SUBSET Ids] /\ pc' \in [Requests -> Step]
    BY <1>1, <2>1 DEF TypeOK, Step
  <2> QED
    BY <1>1, <2>1, <2>2 DEF TypeOK, tableVars, writeVars
<1>4. CASE FindSubobjects(r)
  <2> DEFINE found == {i.sub : i \in {j \in db.items : j.id \in body[r].gone}} \ {0}
  <2>1. /\ todo' = [todo EXCEPT ![r] = found] /\ pc' = [pc EXCEPT ![r] = "exclusive"]
        /\ UNCHANGED <<tableVars, body, answer, writeVars, part, ids, checked, doomed, shown, feasible, changed>>
    BY <1>4 DEF FindSubobjects, Goto
  <2>2. found \subseteq Ids
    BY <1>1
  <2> HIDE DEF found
  <2>3. todo' \in [Requests -> SUBSET Ids] /\ pc' \in [Requests -> Step]
    BY <1>1, <2>1, <2>2 DEF TypeOK, Step
  <2> QED
    BY <1>1, <2>1, <2>3 DEF TypeOK, tableVars, writeVars
<1>5. CASE FindExclusive(r)
  <2> DEFINE elsewhere == {i.sub : i \in {j \in db.items : j.id \notin body[r].gone}}
  <2>1. /\ doomed' = [doomed EXCEPT ![r] = @ \cup (todo[r] \ elsewhere)]
        /\ todo' = [todo EXCEPT ![r] = {}] /\ pc' = [pc EXCEPT ![r] = "authorize_delete"]
        /\ UNCHANGED <<tableVars, body, answer, writeVars, part, ids, checked, shown, feasible, changed>>
    BY <1>5 DEF FindExclusive, Goto
  <2> HIDE DEF elsewhere
  <2>2. doomed' \in [Requests -> SUBSET Ids] /\ todo' \in [Requests -> SUBSET Ids] /\ pc' \in [Requests -> Step]
    BY <1>1, <2>1 DEF TypeOK, Step
  <2> QED
    BY <1>1, <2>1, <2>2 DEF TypeOK, tableVars, writeVars
<1>6. CASE AuthorizeDelete(r) /\ ~ Refuse(r, 403)
  <2>1. /\ checked' = [checked EXCEPT ![r] = @ \cup doomed[r]]
        /\ todo' = [todo EXCEPT ![r] = doomed[r]]
        /\ pc' = [pc EXCEPT ![r] = IF doomed[r] = {} THEN "commit" ELSE "delete"]
        /\ UNCHANGED <<tableVars, body, answer, writeVars, part, ids, doomed, shown, feasible, changed>>
    BY <1>6 DEF AuthorizeDelete, Goto
  <2>2. checked' \in [Requests -> SUBSET Ids] /\ todo' \in [Requests -> SUBSET Ids] /\ pc' \in [Requests -> Step]
    BY <1>1, <2>1 DEF TypeOK, Step
  <2> QED
    BY <1>1, <2>1, <2>2 DEF TypeOK, tableVars, writeVars
<1> QED
  BY <1>2, <1>3, <1>4, <1>5, <1>6

LEMMA DeleteIsTyped ==
  ASSUME IInv, NEW r \in Requests, Cascade(r) \/ \E x \in Ids : DeleteRow(r, x)
  PROVE  TypeOK'
<1>1. TypeOK /\ Seen(r) \in Tables /\ NoRows \in Tables
  BY SeenIsTyped DEF IInv
<1>2. CASE \E x \in Ids : DeleteRow(r, x)
  <2>1. PICK x \in Ids : DeleteRow(r, x)
    BY <1>2
  <2> DEFINE row == [NoRows EXCEPT !.objects = RowsOf(Seen(r), x)]
  <2>2. /\ Replace(r, row, NoRows)
        /\ todo' = [todo EXCEPT ![r] = @ \ {x}] /\ pc' = [pc EXCEPT ![r] = IF todo[r] = {x} THEN "cascade" ELSE "delete"]
        /\ UNCHANGED <<tableVars, body, answer, shared, part, ids, checked, doomed, shown, feasible, changed>>
    BY <2>1 DEF DeleteRow, Goto
  <2>3. row \in Tables
    BY <1>1 DEF Tables, NoRows, RowsOf
  <2> HIDE DEF row
  <2>4. put' \in [Requests -> Tables] /\ cut' \in [Requests -> Tables]
    BY <1>1, <2>2, <2>3, ReplaceIsTyped
  <2>5. todo' \in [Requests -> SUBSET Ids] /\ pc' \in [Requests -> Step]
    BY <1>1, <2>2 DEF TypeOK, Step
  <2> QED
    BY <1>1, <2>2, <2>4, <2>5 DEF TypeOK, tableVars
<1>3. CASE Cascade(r)
  <2> DEFINE gone == RowsWith(Seen(r), Gone(r))
  <2>1. /\ Replace(r, gone, NoRows) /\ pc' = [pc EXCEPT ![r] = "commit"]
        /\ UNCHANGED <<tableVars, body, answer, shared, workVars, feasible, changed>>
    BY <1>3 DEF Cascade, Goto
  <2>2. gone \in Tables
    BY <1>1 DEF Tables, RowsWith
  <2> HIDE DEF gone
  <2>3. put' \in [Requests -> Tables] /\ cut' \in [Requests -> Tables]
    BY <1>1, <2>1, <2>2, ReplaceIsTyped
  <2>4. pc' \in [Requests -> Step]
    BY <1>1, <2>1 DEF TypeOK, Step
  <2> QED
    BY <1>1, <2>1, <2>3, <2>4 DEF TypeOK, tableVars, workVars
<1> QED
  BY <1>2, <1>3

LEMMA CommitIsTyped ==
  ASSUME IInv, NEW r \in Requests, Commit(r)
  PROVE  TypeOK'
<1>1. TypeOK /\ Seen(r) \in Tables /\ put[r] \in Tables /\ cut[r] \in Tables
  BY SeenIsTyped DEF IInv, TypeOK
<1>2. TouchedBy(r) \subseteq Ids
  <2> DEFINE touched(t) == IdsOf(t.objects) \cup IdsOf(t.data) \cup IdsOf(t.items) \cup ({i.sub : i \in t.items} \ {0})
  <2>1. \A t \in Tables : touched(t) \subseteq Ids
    BY DEF Tables, ObjectRow, DataRow, ItemRow, IdsOf
  <2> HIDE DEF touched
  <2>2. touched(put[r]) \subseteq Ids /\ touched(cut[r]) \subseteq Ids
    BY <1>1, <2>1
  <2> QED
    BY <2>2 DEF TouchedBy, touched
<1>3. changed' \in [Requests -> SUBSET Ids]
  BY <1>1, <1>2 DEF Commit, Notice, TypeOK
<1>4. End(r, 200) /\ db' \in Tables /\ UNCHANGED <<hidden, lastId, ids>>
  BY <1>1 DEF Commit
<1>5. 200 \in Answers
  BY DEF Answers
<1> QED
  BY <1>1, <1>3, <1>4, <1>5, EndIsTyped DEF TypeOK, Answers

LEMMA ViewIsTyped ==
  ASSUME IInv, NEW r \in Requests, View(r)
  PROVE  TypeOK'
<1>1. TypeOK /\ shown[r] \in Shown /\ db.data \subseteq DataRow /\ db.items \subseteq ItemRow
  BY DEF IInv, TypeOK, Tables
<1>2. CASE \E status \in {200, 400, 404, 500} : Refuse(r, status)
  <2>1. {200, 400, 404, 500} \subseteq Answers
    BY DEF Answers
  <2> QED
    BY <1>1, <1>2, <2>1, RefuseIsTyped
<1>3. ASSUME shown' \in [Requests -> Shown], ViewUnchanged(r), \E step \in Step : Goto(r, step)
      PROVE  TypeOK'
  <2>1. pc' \in [Requests -> Step]
    BY <1>1, <1>3 DEF TypeOK, Goto
  <2> QED
    BY <1>1, <1>3, <2>1 DEF TypeOK, ViewUnchanged, tableVars, writeVars
<1>4. "types" \in Step /\ "rows" \in Step /\ "items" \in Step
  BY DEF Step
<1>5. CASE ViewAttributes(r)
  <2> DEFINE seen == IdsOf(Visible(body[r].issuer, db)) \cap body[r].ids
  <2>1. seen \subseteq Ids
    BY <1>1 DEF Visible, IdsOf, TypeOK, Tables, ObjectRow
  <2> HIDE DEF seen
  <2>2. Show(r, "attributes", seen) /\ Goto(r, "types") /\ ViewUnchanged(r)
    BY <1>5 DEF ViewAttributes, seen
  <2>3. shown' = [shown EXCEPT ![r] = [@ EXCEPT !.attributes = seen]]
    BY <2>2 DEF Show
  <2>4. [shown[r] EXCEPT !.attributes = seen] \in Shown
    BY <1>1, <2>1 DEF Shown
  <2>5. shown' \in [Requests -> Shown]
    BY <1>1, <2>3, <2>4 DEF TypeOK
  <2> QED
    BY <1>3, <1>4, <2>2, <2>5
<1>6. CASE ViewTypes(r)
  <2> DEFINE types == IF Cardinality(body[r].dataIds) < 4
                      THEN {o.type : o \in {v \in Visible(body[r].issuer, db) : v.id \in body[r].dataIds}} ELSE Types
  <2>1. types \subseteq Types
    BY <1>1 DEF Visible, TypeOK, Tables, ObjectRow
  <2> HIDE DEF types
  <2>2. Show(r, "types", types) /\ Goto(r, "rows") /\ ViewUnchanged(r)
    BY <1>6 DEF ViewTypes, types
  <2>3. shown' = [shown EXCEPT ![r] = [@ EXCEPT !.types = types]]
    BY <2>2 DEF Show
  <2>4. [shown[r] EXCEPT !.types = types] \in Shown
    BY <1>1, <2>1 DEF Shown
  <2>5. shown' \in [Requests -> Shown]
    BY <1>1, <2>3, <2>4 DEF TypeOK
  <2> QED
    BY <1>3, <1>4, <2>2, <2>5
<1>7. CASE ViewRows(r)
  <2> DEFINE t == NextType(shown[r].types)
             left == IF t \in {"link", "markdown"} THEN shown[r].types \ {t} ELSE shown[r].types
             read == shown[r].rows \cup RowsShown(r, t)
  <2>1. left \subseteq Types /\ read \subseteq DataRow
    BY <1>1 DEF Shown, RowsShown
  <2>2. /\ shown' = [shown EXCEPT ![r].rows = read, ![r].types = left]
        /\ Goto(r, IF t \in {"link", "markdown"} THEN "rows" ELSE "items") /\ ViewUnchanged(r)
    BY <1>1, <1>7 DEF ViewRows, Shown, TypeOK
  <2> HIDE DEF t, left, read
  <2>3. shown' = [shown EXCEPT ![r] = [shown[r] EXCEPT !.rows = read, !.types = left]]
    BY <1>1, <2>2 DEF TypeOK, Shown
  <2>4. [shown[r] EXCEPT !.rows = read, !.types = left] \in Shown
    BY <1>1, <2>1 DEF Shown
  <2>5. shown' \in [Requests -> Shown]
    BY <1>1, <2>3, <2>4 DEF TypeOK
  <2> QED
    BY <1>3, <1>4, <2>2, <2>5
<1>8. CASE ViewItems(r) /\ ~ Refuse(r, 400) /\ ~ Refuse(r, 500)
  <2> DEFINE t == NextType(shown[r].types)
             left == shown[r].types \ {t}
             read == shown[r].items \cup ItemsShown(r, t)
  <2>1. left \subseteq Types /\ read \subseteq ItemRow
    BY <1>1 DEF Shown, ItemsShown
  <2>2. shown' = [shown EXCEPT ![r].items = read, ![r].types = left] /\ Goto(r, "rows") /\ ViewUnchanged(r)
    BY <1>1, <1>8 DEF ViewItems, Shown, TypeOK
  <2> HIDE DEF t, left, read
  <2>3. shown' = [shown EXCEPT ![r] = [shown[r] EXCEPT !.items = read, !.types = left]]
    BY <1>1, <2>2 DEF TypeOK, Shown
  <2>4. [shown[r] EXCEPT !.items = read, !.types = left] \in Shown
    BY <1>1, <2>1 DEF Shown
  <2>5. shown' \in [Requests -> Shown]
    BY <1>1, <2>3, <2>4 DEF TypeOK
  <2> QED
    BY <1>3, <1>4, <2>2, <2>5
<1>9. FinishView(r) => \E status \in {200, 400, 404, 500} : Refuse(r, status)
  BY DEF FinishView
<1> QED
  BY <1>2, <1>5, <1>6, <1>7, <1>8, <1>9 DEF View

LEMMA RetagIsTyped ==
  ASSUME IInv, NEW x \in Taggable, Retag(x)
  PROVE  TypeOK'
<1>1. TypeOK /\ x \in Ids
  BY ObjectAssumption DEF IInv
<1>2. hidden' \in SUBSET Ids /\ changed' \in [Requests -> SUBSET Ids]
  BY <1>1 DEF Retag, Notice, TypeOK
<1>3. UNCHANGED <<db, lastId, pc, body, answer, writeVars, workVars, feasible>>
  BY DEF Retag
<1> QED
  BY <1>1, <1>2, <1>3 DEF TypeOK, writeVars, workVars

LEMMA LossIsTyped ==
  ASSUME IInv, NEW r \in Requests, AbortDeadlocked(r) \/ Fail(r)
  PROVE  TypeOK'
<1>1. TypeOK /\ Refuse(r, Lost) /\ Lost \in Answers
  BY DEF IInv, AbortDeadlocked, Fail, Answers
<1> QED
  BY <1>1, RefuseIsTyped

LEMMA TypesHold ==
  ASSUME IInv, [Next]_vars
  PROVE  TypeOK'
<1>1. ASSUME NEW r \in Requests, Upsert(r)
      PROVE  TypeOK'
  BY <1>1, InsertIsTyped, ChecksAreTyped, WriteIsTyped, UpdateIsTyped, UnlinkIsTyped, LinkIsTyped, FindIsTyped DEF Upsert
<1>2. ASSUME NEW r \in Requests, Delete(r)
      PROVE  TypeOK'
  BY <1>2, FindIsTyped, DeleteIsTyped, CommitIsTyped DEF Delete
<1>3. CASE UNCHANGED vars
  BY <1>3 DEF IInv, TypeOK, vars, tableVars, writeVars, workVars
<1> QED
  BY <1>1, <1>2, <1>3, BeginIsTyped, ViewIsTyped, LossIsTyped, RetagIsTyped DEF Next, Work

-----------------------------------------------------------------------------
(* The theorems *)

LEMMA Initially == Init => IInv
<1> SUFFICES ASSUME Init PROVE IInv
  OBVIOUS
<1> USE DEF Init
<1>1. NoRows \in Tables /\ NothingShown \in Shown
  BY DEF NoRows, Tables, NothingShown, Shown
<1>2. NoBody \in Body
  <2>1. -1 \in Refs /\ Anonymous \in Users \cup {Anonymous}
    BY ObjectAssumption DEF Refs, NewIds
  <2>2. [c \in Refs |-> NoSpec] \in [Refs -> Spec1 \cup {NoSpec}]
    OBVIOUS
  <2> QED
    BY <2>1, <2>2 DEF NoBody, Body, Routes
<1>3. TypeOK
  BY <1>1, <1>2, ObjectAssumption DEF TypeOK, Step
<1>4. \A r \in Requests : pc[r] = "new" /\ put[r] = NoRows /\ cut[r] = NoRows /\ part[r] = "main"
  OBVIOUS
<1>5. \A r \in Requests : Held(r) = {} /\ Gone(r) = {} /\ Given(r) = {} /\ Pending(r) = {} /\ ~ Open(r)
  BY <1>4 DEF Held, Gone, IdsOf, NoRows, Given, Pending, Open
<1>6. ASSUME NEW r \in Requests
      PROVE  RequestInv(r)
  <2>1. RouteShape(r) /\ WritesAreHeld(r) /\ TypesKept(r)
    BY <1>4, <1>5 DEF RouteShape, WritesAreHeld, TypesKept, NoRows, IdsOf
  <2>2. SeenIsWhole(r) /\ DeletesAreLast(r)
    BY <1>5 DEF SeenIsWhole, DeletesAreLast
  <2>3. ExistingAreHeld(r) /\ CompositesAreHeld(r)
    BY <1>4 DEF ExistingAreHeld, CompositesAreHeld, Upserting
  <2> QED
    BY <2>1, <2>2, <2>3 DEF RequestInv
<1>7. IdsAreTaken /\ RowsAreLocked
  BY <1>5, FirstIsWhole, ObjectAssumption DEF IdsAreTaken, RowsAreLocked, IdsOf
<1>8. ASSUME NEW x \in Ids
      PROVE  WholeAt(db, x)
  <2>1. IsWhole(db)
    BY FirstIsWhole
  <2>2. CASE x \notin IdsOf(db.objects)
    BY <2>1, <2>2 DEF IsWhole, WholeAt, NothingAt, IdsOf
  <2>3. CASE x \in IdsOf(db.objects)
    <3>1. PICK o \in db.objects : o.id = x
      BY <2>3 DEF IdsOf
    <3>2. PICK d \in db.data :
             /\ {e \in db.data : e.id = o.id} = {d} /\ d.table = o.type
             /\ \A i \in db.items : i.id = o.id =>
                   i.by = d.by /\ o.type = IF i.sub = 0 THEN "to_do_list" ELSE "composite"
             /\ o.type = "to_do_list" => o.id \in IdsOf(db.items)
      BY <2>1, <3>1 DEF IsWhole
    <3>3. d.id = x /\ \A e \in db.data : e.id = x => e = d
      BY <3>1, <3>2
    <3>4. \A p \in db.objects : p.id = x => p = o
      BY <2>1, <3>1 DEF IsWhole
    <3>5. ObjectAt(db, x, o, d)
      BY <3>1, <3>2, <3>3, <3>4 DEF ObjectAt, IdsOf
    <3> QED
      BY <3>5 DEF WholeAt
  <2> QED
    BY <2>2, <2>3
<1> QED
  BY <1>3, <1>6, <1>7, <1>8 DEF IInv

LEMMA Preserved == IInv /\ [Next]_vars => IInv'
<1> SUFFICES ASSUME IInv, [Next]_vars PROVE IInv'
  OBVIOUS
<1>1. TypeOK'
  BY TypesHold
<1>2. ASSUME NEW r \in Requests, Upsert(r)
      PROVE  IInv'
  BY <1>1, <1>2, InsertKeeps, AuthorizeKeeps, CheckExistingKeeps, WriteKeeps, CheckSubobjectsKeeps, UpdateKeeps,
     UnlinkKeeps, LinkKeeps, FindKeeps DEF Upsert
<1>3. ASSUME NEW r \in Requests, Delete(r)
      PROVE  IInv'
  BY <1>1, <1>3, FindKeeps, DeleteRowKeeps, CascadeKeeps, CommitKeeps DEF Delete
<1>4. ASSUME NEW r \in Requests, AbortDeadlocked(r) \/ Fail(r)
      PROVE  IInv'
  BY <1>1, <1>4, RefuseKeeps DEF AbortDeadlocked, Fail
<1>5. ASSUME UNCHANGED <<db, lastId, pc, body, answer, writeVars, workVars, feasible>>
      PROVE  IInv'
  <2>1. \A r \in Requests : RequestInv(r) => RequestInv(r)'
    <3> SUFFICES ASSUME NEW r \in Requests, RequestInv(r) PROVE RequestInv(r)'
      OBVIOUS
    <3> USE <1>5 DEF writeVars, workVars
    <3>1. /\ Seen(r)' = Seen(r) /\ Held(r)' = Held(r) /\ Gone(r)' = Gone(r)
          /\ Given(r)' = Given(r) /\ Pending(r)' = Pending(r) /\ PendingIds(r)' = PendingIds(r)
          /\ Existing(r)' = Existing(r) /\ Typed(r)' = Typed(r) /\ Open(r)' = Open(r)
          /\ Composites(r)' = Composites(r) /\ CompositeIds(r)' = CompositeIds(r)
          /\ \A c : IdOf(r, c)' = IdOf(r, c)
          /\ \A x : Dead(x)' = Dead(x)
      BY DEF Seen, Held, Gone, Given, Pending, PendingIds, Existing, Pieces, Typed, Open, Composites, CompositeIds, IdOf, Dead
    <3>2. RouteShape(r)' /\ WritesAreHeld(r)'
      BY <3>1 DEF RequestInv, RouteShape, MainIsComposite, WritesAreHeld
    <3>3. SeenIsWhole(r)' /\ DeletesAreLast(r)' /\ TypesKept(r)'
      BY <3>1 DEF RequestInv, SeenIsWhole, DeletesAreLast, TypesKept
    <3>4. ExistingAreHeld(r)'
      BY <3>1 DEF RequestInv, ExistingAreHeld
    <3>5. CompositesAreHeld(r)'
      BY <3>1 DEF RequestInv, CompositesAreHeld
    <3> QED
      BY <3>2, <3>3, <3>4, <3>5 DEF RequestInv
  <2>2. IdsAreTaken' /\ RowsAreLocked'
    BY <1>5 DEF IInv, IdsAreTaken, RowsAreLocked, Held, writeVars
  <2> QED
    BY <1>1, <1>5, <2>1, <2>2 DEF IInv
<1>6. CASE UNCHANGED vars
  BY <1>5, <1>6 DEF vars, tableVars
<1>7. CASE \E x \in Taggable : Retag(x)
  BY <1>5, <1>7 DEF Retag
<1> QED
  BY <1>1, <1>2, <1>3, <1>4, <1>6, <1>7, BeginKeeps, ViewKeeps DEF Next, Work

\* Every state a run of requests reaches satisfies the inductive invariant.
THEOREM InductiveInvariant == Spec => []IInv
<1>1. Init => IInv
  BY Initially
<1>2. IInv /\ [Next]_vars => IInv'
  BY Preserved
<1> QED
  BY <1>1, <1>2, PTL DEF Spec

\* The variables have the types of the tables and of the requests, through every step of
\* the handlers.
THEOREM TypeCorrect == Spec => []TypeOK
<1>1. IInv => TypeOK
  BY DEF IInv
<1> QED
  BY <1>1, InductiveInvariant, PTL

\* What is committed is whole: objects have their data, in the table of their type, and
\* their contents, whatever requests write and delete them at once, and wherever one fails.
THEOREM WholeObjects == Spec => []ObjectsAreWhole
<1>1. IInv => ObjectsAreWhole
  <2> SUFFICES ASSUME IInv PROVE IsWhole(db)
    BY DEF ObjectsAreWhole
  <2>1. db \in Tables /\ \A x \in Ids : WholeAt(db, x)
    BY DEF IInv, TypeOK
  <2>2. \A o, p \in db.objects : o.id = p.id => o = p
    BY <2>1 DEF WholeAt, NothingAt, ObjectAt, Tables, ObjectRow
  <2>3. ASSUME NEW o \in db.objects
        PROVE  \E d \in db.data :
                  /\ {e \in db.data : e.id = o.id} = {d} /\ d.table = o.type
                  /\ \A i \in db.items : i.id = o.id =>
                        i.by = d.by /\ o.type = IF i.sub = 0 THEN "to_do_list" ELSE "composite"
                  /\ o.type = "to_do_list" => o.id \in IdsOf(db.items)
    <3>1. WholeAt(db, o.id)
      BY <2>1, <2>3 DEF Tables, ObjectRow
    <3>2. PICK p \in db.objects, d \in db.data : ObjectAt(db, o.id, p, d)
      BY <2>3, <3>1 DEF WholeAt, NothingAt
    <3>3. p = o
      BY <2>3, <3>2 DEF ObjectAt
    <3>4. {e \in db.data : e.id = o.id} = {d}
      BY <3>2 DEF ObjectAt
    <3> QED
      BY <3>2, <3>3, <3>4 DEF ObjectAt, IdsOf
  <2>4. \A d \in db.data : d.id \in IdsOf(db.objects)
    BY <2>1 DEF WholeAt, NothingAt, ObjectAt, Tables, DataRow, IdsOf
  <2>5. \A i \in db.items : i.id \in IdsOf(db.objects)
    BY <2>1 DEF WholeAt, NothingAt, ObjectAt, Tables, ItemRow, IdsOf
  <2> QED
    BY <2>2, <2>3, <2>4, <2>5 DEF IsWhole, IdsOf
<1> QED
  BY <1>1, InductiveInvariant, PTL

=============================================================================
