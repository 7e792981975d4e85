---------------------------- MODULE ObjectStoreProofs ----------------------------
(***************************************************************************)
(* More proofs about Objects: composite objects contain what was asked     *)
(* for, and the requests implement the store of documents (HInv); refusals *)
(* have causes, and owners, shared sub-objects and views are safe (RInv).  *)
(***************************************************************************)
EXTENDS ObjectsProofs

-----------------------------------------------------------------------------
(* The inductive invariant *)

\* The steps of a request that has written its contents, or has none to write.
Late == {"marked", "subobjects", "exclusive", "authorize_delete", "delete", "cascade", "commit"}

NewOf(r) == {ids[r][c] : c \in NewIds}

\* The sub-objects the body of r names for the object x.
AskedContents(r, x) == {IdOf(r, l[2]) : l \in {k \in body[r].links : IdOf(r, k[1]) = x}}

\* The ids of new objects are theirs alone, and nobody sees them before the transaction ends.
IdsAreFresh ==
    /\ \A x \in hidden : x <= lastId
    /\ \A r \in Requests : \A x \in NewOf(r) :
          /\ x <= lastId
          /\ pc[r] = "new" => x = 0
          /\ Open(r) => x \notin IdsOf(db.objects) \cup hidden
          /\ x # 0 => \A q \in Requests \ {r} : x \notin NewOf(q)
HeldAreKnown(r) == Held(r) \subseteq IdsOf(db.objects) \cup NewOf(r)

\* A new object is given an id once: the main one, and then its sub-objects.
Early == {"insert", "authorize", "check", "update", "data"}
GivenOnce(r) ==
    /\ pc[r] = "insert" => \A c \in Pieces(r) \cap NewIds : ids[r][c] = 0
    /\ pc[r] \in Early /\ part[r] = "main" /\ ~Typed(r) => \A c \in NewIds \ {body[r].main} : ids[r][c] = 0

\* What a foreign key shares is not deleted by others.
SharedAreSafe == \A r, q \in Requests : r # q => shared[r] \cap Gone(q) = {}

\* The sub-objects of what is inserted are there.
SharedAreThere(r) ==
    /\ shared[r] \subseteq IdsOf(db.objects) \cup Held(r)
    /\ \A i \in put[r].items : i.sub \in shared[r] \cup {0}
    /\ pc[r] = "link" => todo[r] \subseteq Subobjects(r) /\ Subobjects(r) \subseteq todo[r] \cup shared[r]
    /\ pc[r] \in Late /\ body[r].route # "delete" => Subobjects(r) \subseteq shared[r]

\* Contents come with the data of their object, and go with it or with the sub-object.
ContentsGoWithData(r) ==
    /\ \A d \in put[r].data :
          /\ d.by = r
          /\ d.table = "composite" =>
                /\ pc[r] \in Late \cup {"link"} /\ body[r].route # "delete" /\ d.id \in CompositeIds(r)
                /\ \A i \in db.items : i.id = d.id => i \in cut[r].items
    /\ \A i \in put[r].items : i.id \in IdsOf(put[r].data)
    /\ \A i \in cut[r].items : i.id \in IdsOf(put[r].data) \cup Gone(r) \/ i.sub \in Gone(r)
    /\ pc[r] = "link" =>
          CompositeIds(r) \subseteq IdsOf(put[r].data) /\ \A i \in put[r].items : i.id \notin CompositeIds(r)
    /\ pc[r] = "commit" => \A i \in Seen(r).items : i.sub \notin Gone(r)

\* Once linked, composite objects have in the transaction what was asked for.
AskedAreLinked(r) ==
    pc[r] \in Late => \A d \in put[r].data : d.table = "composite" =>
        {i.sub : i \in {j \in put[r].items : j.id = d.id}} =
            AskedContents(r, d.id) \ (IF pc[r] = "commit" THEN Gone(r) ELSE {})

Unanswered(r) == pc[r] # "done" => answer[r] = 0

\* What is committed was written by requests that are done, contains what they asked for,
\* and names no object that is still being written.
CommittedAreDone ==
    /\ \A i \in db.items : i.sub \in IdsOf(db.objects) \cup {0}
    /\ \A d \in db.data, r \in Requests : d.by = r =>
          /\ pc[r] = "done"
          /\ d.table = "composite" =>
                /\ {i.sub : i \in {j \in db.items : j.id = d.id}} = AskedContents(r, d.id) \cap IdsOf(db.objects)
                /\ \A x \in AskedContents(r, d.id) :
                      x \in 1 .. lastId /\ \A q \in Requests : Open(q) => x \notin NewOf(q)

WriterInv(r) ==
    HeldAreKnown(r) /\ GivenOnce(r) /\ SharedAreThere(r) /\ ContentsGoWithData(r) /\ AskedAreLinked(r) /\ Unanswered(r)

HInv ==
    /\ IdsAreFresh /\ SharedAreSafe /\ CommittedAreDone
    /\ \A r \in Requests : WriterInv(r)

-----------------------------------------------------------------------------
(* Steps of one request *)

\* A step of r that commits nothing, and what it may do to the others.
Alone(r) ==
    /\ StepOf(r) /\ hidden' = hidden
    /\ \A q \in Requests \ {r} :
          /\ shared'[q] = shared[q] /\ answer'[q] = answer[q] /\ doomed'[q] = doomed[q]
          /\ checked'[q] = checked[q] /\ shown'[q] = shown[q] /\ feasible'[q] = feasible[q]
    /\ changed' = changed
    /\ pc[r] # "done" /\ pc'[r] # "new"
    /\ pc[r] # "new" => body'[r] = body[r] /\ feasible'[r] = feasible[r]

\* What is kept of the invariant by a step that leaves everything of a request alone.
LEMMA OthersKeep ==
  ASSUME IInv, HInv, NEW r \in Requests, Alone(r), NEW q \in Requests \ {r}
  PROVE  WriterInv(q)'
<1>1. /\ pc'[q] = pc[q] /\ body'[q] = body[q] /\ todo'[q] = todo[q] /\ ids'[q] = ids[q]
      /\ put'[q] = put[q] /\ cut'[q] = cut[q] /\ db' = db /\ shared'[q] = shared[q] /\ answer'[q] = answer[q]
      /\ part'[q] = part[q]
  BY DEF Alone, StepOf
<1>2. Seen(q)' = Seen(q) /\ Held(q)' = Held(q) /\ Gone(q)' = Gone(q) /\ NewOf(q)' = NewOf(q)
  BY <1>1 DEF Seen, Held, Gone, NewOf
<1>3. /\ \A c : IdOf(q, c)' = IdOf(q, c)
      /\ Composites(q)' = Composites(q) /\ Pieces(q)' = Pieces(q) /\ Typed(q)' = Typed(q)
  BY <1>1 DEF IdOf, Composites, Pieces, Typed
<1>4. /\ CompositeIds(q)' = CompositeIds(q) /\ Subobjects(q)' = Subobjects(q)
      /\ \A x : AskedContents(q, x)' = AskedContents(q, x)
  BY <1>1, <1>3 DEF CompositeIds, Subobjects, AskedContents
<1>5. WriterInv(q)
  BY DEF HInv
<1>6. HeldAreKnown(q)' /\ Unanswered(q)' /\ GivenOnce(q)'
  BY <1>1, <1>2, <1>3, <1>5 DEF WriterInv, HeldAreKnown, Unanswered, GivenOnce
<1>7. SharedAreThere(q)'
  BY <1>1, <1>2, <1>4, <1>5 DEF WriterInv, SharedAreThere
<1>8. ContentsGoWithData(q)'
  BY <1>1, <1>2, <1>4, <1>5 DEF WriterInv, ContentsGoWithData
<1>9. AskedAreLinked(q)'
  BY <1>1, <1>2, <1>4, <1>5 DEF WriterInv, AskedAreLinked
<1> QED
  BY <1>6, <1>7, <1>8, <1>9 DEF WriterInv

\* A step of r that takes new ids at most, and deletes only what others do not share, keeps
\* the invariant if it keeps that of r.
LEMMA AloneKeeps ==
  ASSUME IInv, HInv, TypeOK', NEW r \in Requests, Alone(r), WriterInv(r)',
         \A x \in NewOf(r)' : x \in NewOf(r) \cup {0} \/ (lastId < x /\ x <= lastId'),
         \A q \in Requests \ {r} : Gone(r)' \cap shared[q] = {} /\ Gone(q) \cap shared'[r] = {}
  PROVE  HInv'
<1>1. /\ db' = db /\ hidden' = hidden /\ pc[r] # "done" /\ pc'[r] # "new"
      /\ \A q \in Requests \ {r} :
            pc'[q] = pc[q] /\ body'[q] = body[q] /\ ids'[q] = ids[q] /\ put'[q] = put[q] /\ cut'[q] = cut[q] /\ shared'[q] = shared[q]
  BY DEF Alone, StepOf
<1>2. /\ lastId \in Nat /\ lastId' \in Nat /\ lastId <= lastId' /\ hidden \subseteq Int
      /\ \A q \in Requests : NewOf(q) \subseteq Nat /\ NewOf(q)' \subseteq Nat
  <2>1. lastId \in 0 .. MaxId /\ lastId' \in lastId .. MaxId /\ MaxId \in Nat /\ hidden \subseteq Ids
    BY ObjectAssumption DEF Alone, StepOf, IInv, TypeOK
  <2>2. \A q \in Requests : \A c \in NewIds : ids[q][c] \in Ids \cup {0} /\ ids'[q][c] \in Ids \cup {0}
    BY DEF IInv, TypeOK
  <2> QED
    BY <2>1, <2>2 DEF NewOf, Ids
<1>3. \A q \in Requests \ {r} : NewOf(q)' = NewOf(q) /\ Gone(q)' = Gone(q) /\ (Open(q)' <=> Open(q))
  BY <1>1 DEF NewOf, Gone, Open
<1>4. \A o \in db.objects : o.id \in Int /\ o.id <= lastId
  BY DEF IInv, IdsAreTaken, TypeOK, Tables, ObjectRow, Ids
<1>5. IdsAreFresh'
  <2>1. \A x \in hidden' : x <= lastId'
    BY <1>1, <1>2 DEF HInv, IdsAreFresh
  <2>2. ASSUME NEW x \in NewOf(r)'
        PROVE  /\ x <= lastId'
               /\ x # 0 => x \notin IdsOf(db.objects) \cup hidden
               /\ x # 0 => \A q \in Requests \ {r} : x \notin NewOf(q)
    <3>1. CASE x = 0
      BY <1>2, <3>1
    <3>2. CASE x \in NewOf(r) /\ x # 0
      <4>1. Open(r)
        BY <1>1, <3>2 DEF HInv, IdsAreFresh, Open
      <4> QED
        BY <1>2, <3>2, <4>1 DEF HInv, IdsAreFresh
    <3>3. CASE lastId < x /\ x <= lastId'
      <4>1. \A q \in Requests : \A y \in NewOf(q) : y <= lastId
        BY DEF HInv, IdsAreFresh
      <4>2. \A y \in IdsOf(db.objects) \cup hidden : y \in Int /\ y <= lastId
        BY <1>2, <1>4 DEF HInv, IdsAreFresh, IdsOf
      <4> QED
        BY <1>2, <3>3, <4>1, <4>2
    <3> QED
      BY <2>2, <3>1, <3>2, <3>3
  <2>3. 0 \notin IdsOf(db.objects) \cup hidden
    BY DEF IInv, TypeOK, Tables, ObjectRow, Ids, IdsOf
  <2>4. ASSUME NEW q \in Requests, NEW x \in NewOf(q)'
        PROVE  /\ x <= lastId'
               /\ pc'[q] = "new" => x = 0
               /\ Open(q)' => x \notin IdsOf(db'.objects) \cup hidden'
               /\ x # 0 => \A p \in Requests \ {q} : x \notin NewOf(p)'
    <3>1. CASE q = r
      BY <1>1, <1>3, <2>2, <2>3, <2>4, <3>1
    <3>2. CASE q # r
      <4>1. /\ x \in NewOf(q) /\ x <= lastId /\ (pc[q] = "new" => x = 0)
            /\ Open(q) => x \notin IdsOf(db.objects) \cup hidden
            /\ x # 0 => \A p \in Requests \ {q} : x \notin NewOf(p)
        BY <1>3, <2>4, <3>2 DEF HInv, IdsAreFresh
      <4>2. x # 0 => x \notin NewOf(r)'
        BY <2>2, <3>2, <4>1
      <4> QED
        BY <1>1, <1>2, <1>3, <3>2, <4>1, <4>2
    <3> QED
      BY <3>1, <3>2
  <2> QED
    BY <2>1, <2>4 DEF IdsAreFresh
<1>6. SharedAreSafe'
  BY <1>1, <1>3 DEF HInv, SharedAreSafe
<1>7. CommittedAreDone'
  <2>1. ASSUME NEW d \in db.data, NEW q \in Requests, d.by = q
        PROVE  /\ q # r /\ pc'[q] = "done"
               /\ \A c : IdOf(q, c)' = IdOf(q, c)
               /\ body'[q] = body[q]
               /\ \A x : AskedContents(q, x)' = AskedContents(q, x)
    <3>1. q # r /\ pc[q] = "done"
      BY <1>1, <2>1 DEF HInv, CommittedAreDone
    <3>2. body'[q] = body[q] /\ \A c : IdOf(q, c)' = IdOf(q, c)
      BY <1>1, <3>1 DEF IdOf
    <3> QED
      BY <1>1, <3>1, <3>2 DEF AskedContents
  <2>2. ASSUME NEW d \in db.data, NEW q \in Requests, d.by = q, d.table = "composite", NEW x \in AskedContents(q, d.id)
        PROVE  x \in 1 .. lastId' /\ \A p \in Requests : Open(p)' => x \notin NewOf(p)'
    <3>1. x \in 1 .. lastId /\ \A p \in Requests : Open(p) => x \notin NewOf(p)
      BY <2>2 DEF HInv, CommittedAreDone
    <3>2. x \notin NewOf(r)'
      <4>1. x \in NewOf(r) => Open(r)
        BY <1>1, <3>1 DEF HInv, IdsAreFresh, Open
      <4> QED
        BY <1>2, <3>1, <4>1
    <3> QED
      BY <1>2, <1>3, <3>1, <3>2
  <2> QED
    BY <1>1, <2>1, <2>2 DEF HInv, CommittedAreDone
<1>8. \A q \in Requests : WriterInv(q)'
  BY OthersKeep
<1> QED
  BY <1>5, <1>6, <1>7, <1>8 DEF HInv

LEMMA RefuseIsAlone ==
  ASSUME IInv, NEW r \in Requests, Open(r), NEW status, Refuse(r, status)
  PROVE  Alone(r)
<1> USE DEF Refuse, End, Goto, tableVars
<1>1. StepOf(r)
  BY ObjectAssumption DEF StepOf, IInv, TypeOK
<1>2. /\ shared \in [Requests -> SUBSET Ids] /\ answer \in [Requests -> Answers] /\ doomed \in [Requests -> SUBSET Ids]
      /\ checked \in [Requests -> SUBSET Ids] /\ shown \in [Requests -> Shown] /\ pc \in [Requests -> Step]
  BY DEF IInv, TypeOK, Answers
<1> QED
  BY <1>1, <1>2 DEF Alone, Open

LEMMA BeginIsAlone ==
  ASSUME IInv, NEW r \in Requests, Begin(r)
  PROVE  Alone(r)
<1>1. PICK b \in Bodies :
          /\ body' = [body EXCEPT ![r] = b]
          /\ feasible' = [feasible EXCEPT ![r] = Feasible(b)]
          /\ IF RouteRefusal(b) # 0
             THEN /\ Goto(r, "done") /\ answer' = [answer EXCEPT ![r] = RouteRefusal(b)]
                  /\ UNCHANGED doomed
             ELSE /\ Goto(r, FirstStep(b)) /\ UNCHANGED answer
                  /\ doomed' = [doomed EXCEPT ![r] = IF b.route \in {"bulk_upsert", "delete"} THEN b.gone ELSE {}]
  BY DEF Begin
<1>2. pc[r] = "new" /\ UNCHANGED <<tableVars, writeVars, part, todo, ids, checked, shown, changed>>
  BY DEF Begin
<1>3. /\ answer \in [Requests -> Answers] /\ doomed \in [Requests -> SUBSET Ids] /\ body \in [Requests -> Body]
      /\ feasible \in [Requests -> BOOLEAN] /\ pc \in [Requests -> Step] /\ lastId \in Nat /\ lastId <= MaxId /\ MaxId \in Nat
  BY ObjectAssumption DEF IInv, TypeOK, Answers
<1>4. /\ \A q \in Requests \ {r} : pc'[q] = pc[q] /\ answer'[q] = answer[q] /\ doomed'[q] = doomed[q]
      /\ pc'[r] = IF RouteRefusal(b) # 0 THEN "done" ELSE FirstStep(b)
  BY <1>1, <1>3 DEF Goto
<1>5. FirstStep(b) # "new"
  <2>1. b.route \in {"add", "update", "bulk_upsert", "delete", "view"}
    BY ObjectAssumption DEF Body, Routes
  <2>2. CASE b.route \in {"add", "bulk_upsert"}
    BY <2>2 DEF FirstStep
  <2>3. CASE b.route = "update"
    BY <2>3 DEF FirstStep
  <2>4. CASE b.route = "delete"
    BY <2>4 DEF FirstStep
  <2>5. CASE b.route = "view"
    BY <2>5 DEF FirstStep
  <2> QED
    BY <2>1, <2>2, <2>3, <2>4, <2>5
<1>6. StepOf(r)
  BY <1>1, <1>2, <1>3, <1>4 DEF StepOf, tableVars, writeVars
<1> QED
  BY <1>1, <1>2, <1>3, <1>4, <1>5, <1>6 DEF Alone, tableVars, writeVars

\* A step that changes at most what belongs to r, and leaves its body alone.
LEMMA WorkIsAlone ==
  ASSUME IInv, NEW r \in Requests, Open(r), db' = db, hidden' = hidden, lastId' \in lastId .. MaxId,
         UNCHANGED <<body, answer, feasible, changed>>, \E step \in Step \ {"new"} : Goto(r, step),
         \A q \in Requests \ {r} :
            /\ part'[q] = part[q] /\ todo'[q] = todo[q] /\ ids'[q] = ids[q] /\ put'[q] = put[q] /\ cut'[q] = cut[q]
            /\ shared'[q] = shared[q] /\ doomed'[q] = doomed[q] /\ checked'[q] = checked[q] /\ shown'[q] = shown[q]
  PROVE  Alone(r)
<1>1. pc \in [Requests -> Step]
  BY DEF IInv, TypeOK
<1>2. pc'[r] # "new" /\ \A q \in Requests \ {r} : pc'[q] = pc[q]
  BY <1>1 DEF Goto
<1> QED
  BY <1>2 DEF Alone, StepOf, Open

\* INSERT of objects: rows with new ids, for the pieces that have none.
LEMMA InsertWrites ==
  ASSUME IInv, NEW r \in Requests, InsertObjects(r), ~ Refuse(r, 403)
  PROVE  LET new == Pieces(r) \cap NewIds IN
         /\ OwnersAllowed(r, new)
         /\ lastId' \in lastId .. MaxId
         /\ \A c \in NewIds : ids'[r][c] = IF c \in new THEN lastId + Rank(c, new) ELSE ids[r][c]
         /\ \A c \in new : lastId < ids'[r][c] /\ ids'[r][c] <= lastId'
         /\ \A q \in Requests \ {r} : ids'[q] = ids[q] /\ put'[q] = put[q] /\ part'[q] = part[q]
         /\ put'[r].data = put[r].data /\ put'[r].items = put[r].items
         /\ \A o \in put'[r].objects :
               \/ o \in put[r].objects
               \/ \E c \in new :
                     /\ o.id = ids'[r][c] /\ o.type = body[r].writes[c].type
                     /\ o.owner = IF body[r].writes[c].owner = Unset THEN body[r].issuer ELSE body[r].writes[c].owner
         /\ put[r].objects \subseteq put'[r].objects
         /\ \A c \in new : \E o \in put'[r].objects : o.id = ids'[r][c] /\ o.type = body[r].writes[c].type
         /\ LET composite == ~Typed(r) /\ part[r] = "main" /\ SimplePieces(r) = {} IN
            /\ part'[r] = IF composite THEN "subobjects" ELSE part[r]
            /\ Goto(r, IF composite THEN "insert" ELSE IF Existing(r) # {} THEN "authorize" ELSE "data")
         /\ UNCHANGED <<db, hidden, body, answer, cut, shared, todo, checked, doomed, shown, feasible, changed>>
<1> DEFINE new == Pieces(r) \cap NewIds
           spec(c) == body[r].writes[c]
           id(c) == lastId + Rank(c, new)
           row(c) == [id |-> id(c), type |-> spec(c).type, by |-> r,
                      owner |-> IF spec(c).owner = Unset THEN body[r].issuer ELSE spec(c).owner,
                      published |-> spec(c).published]
           rows == {row(c) : c \in new}
           composite == ~Typed(r) /\ part[r] = "main" /\ SimplePieces(r) = {}
<1>1. /\ OwnersAllowed(r, new)
      /\ lastId' = lastId + Cardinality(new) /\ lastId + Cardinality(new) <= MaxId
      /\ ids' = [ids EXCEPT ![r] = [c \in NewIds |-> IF c \in new THEN id(c) ELSE @[c]]]
      /\ Put(r, [NoRows EXCEPT !.objects = rows])
      /\ part' = [part EXCEPT ![r] = IF composite THEN "subobjects" ELSE @]
      /\ Goto(r, IF composite THEN "insert" ELSE IF Existing(r) # {} THEN "authorize" ELSE "data")
      /\ UNCHANGED <<db, hidden, body, answer, cut, shared, todo, checked, doomed, shown, feasible, changed>>
  BY DEF InsertObjects, Rank
<1>2. /\ Cardinality(new) \in Nat /\ lastId \in Nat /\ MaxId \in Nat
      /\ \A c \in new : Rank(c, new) \in 1 .. Cardinality(new)
  <2>1. new \in SUBSET NewIds /\ lastId \in Nat /\ MaxId \in Nat
    BY ObjectAssumption DEF IInv, TypeOK
  <2> HIDE DEF new
  <2> QED
    BY <2>1, Ranks
<1> HIDE DEF new, composite
<1>3. \A c \in new : lastId < id(c) /\ id(c) <= lastId'
  BY <1>1, <1>2
<1>4. /\ \A c \in NewIds : ids'[r][c] = IF c \in new THEN id(c) ELSE ids[r][c]
      /\ \A q \in Requests \ {r} : ids'[q] = ids[q] /\ part'[q] = part[q]
      /\ part'[r] = IF composite THEN "subobjects" ELSE part[r]
  BY <1>1 DEF IInv, TypeOK
<1>5. new \subseteq NewIds
  BY DEF new
<1>6. /\ put'[r].objects = put[r].objects \cup rows
      /\ put'[r].data = put[r].data /\ put'[r].items = put[r].items
      /\ \A q \in Requests \ {r} : put'[q] = put[q]
  <2> DEFINE inserted == [NoRows EXCEPT !.objects = rows]
  <2>1. inserted.objects = rows /\ inserted.data = {} /\ inserted.items = {}
    BY DEF NoRows
  <2>2. TypeOK /\ Put(r, inserted) /\ cut' = cut /\ db' = db
    BY <1>1 DEF IInv
  <2> HIDE DEF inserted, rows
  <2>3. /\ put'[r].objects = put[r].objects \cup inserted.objects /\ put'[r].data = put[r].data \cup inserted.data
        /\ put'[r].items = put[r].items \cup inserted.items
        /\ \A q \in Requests \ {r} : put'[q] = put[q]
    BY <2>2, Inserted
  <2> QED
    BY <2>1, <2>3
<1>7. \A c \in new : row(c) \in rows /\ row(c).id = ids'[r][c] /\ row(c).type = spec(c).type
  BY <1>4, <1>5
<1>8. \A o \in rows : \E c \in new :
         /\ o.id = ids'[r][c] /\ o.type = body[r].writes[c].type
         /\ o.owner = IF body[r].writes[c].owner = Unset THEN body[r].issuer ELSE body[r].writes[c].owner
  BY <1>4, <1>5
<1>9. lastId' \in lastId .. MaxId
  BY <1>1, <1>2
<1>10. \A c \in new : lastId < ids'[r][c] /\ ids'[r][c] <= lastId'
  BY <1>3, <1>4, <1>5
<1>11. \A c \in new : \E o \in put'[r].objects : o.id = ids'[r][c] /\ o.type = body[r].writes[c].type
  BY <1>6, <1>7
<1>12. put[r].objects \subseteq put'[r].objects /\ \A o \in put'[r].objects : o \in put[r].objects \/ o \in rows
  BY <1>6
<1> HIDE DEF rows, row, spec
<1> QED
  BY <1>1, <1>4, <1>6, <1>8, <1>9, <1>10, <1>11, <1>12 DEF new, composite

\* UPDATE of an object: what it was is replaced by what it becomes.
LEMMA UpdateWrites ==
  ASSUME IInv, NEW r \in Requests, NEW x \in Ids, UpdateObject(r, x), ~ Refuse(r, 400)
  PROVE  LET spec == body[r].writes[x]
             old == RowsOf(Seen(r), x)
             composite == ~Typed(r) /\ part[r] = "main" /\ spec.type = "composite"
         IN
         /\ pc[r] = "update" /\ x \in todo[r] /\ Holders(r, x) = {} /\ x \in Existing(r) /\ spec \in Spec1
         /\ ~Typed(r) => old # {}
         /\ \A q \in Requests \ {r} : put'[q] = put[q] /\ cut'[q] = cut[q] /\ part'[q] = part[q] /\ todo'[q] = todo[q]
         /\ put'[r].data = put[r].data /\ put'[r].items = put[r].items
         /\ cut'[r].data = cut[r].data /\ cut'[r].items = cut[r].items
         /\ cut'[r].objects = cut[r].objects \cup old
         /\ \A o \in put'[r].objects :
               \/ o \in put[r].objects /\ o.id # x
               \/ \E p \in old : o.id = x /\ p.id = x /\ o.owner = IF spec.owner = Unset THEN p.owner ELSE spec.owner
         /\ put[r].objects \ old \subseteq put'[r].objects
         /\ \A p \in old : \E o \in put'[r].objects : o.id = x
         /\ todo'[r] = todo[r] \ {x}
         /\ Goto(r, IF todo[r] # {x} THEN "update" ELSE IF composite THEN "insert" ELSE "data")
         /\ part'[r] = IF composite THEN "subobjects" ELSE part[r]
         /\ UNCHANGED <<tableVars, body, answer, shared, ids, checked, doomed, shown, feasible, changed>>
<1> DEFINE spec == body[r].writes[x]
           old == RowsOf(Seen(r), x)
           updated(o) == [o EXCEPT !.published = spec.published, !.by = r,
                                   !.owner = IF spec.owner = Unset THEN @ ELSE spec.owner,
                                   !.type = IF Typed(r) THEN spec.type ELSE @]
           new == {updated(o) : o \in old}
           composite == ~Typed(r) /\ part[r] = "main" /\ spec.type = "composite"
           s == [NoRows EXCEPT !.objects = old]
           t == [NoRows EXCEPT !.objects = new]
<1>1. /\ pc[r] = "update" /\ x \in todo[r] /\ Holders(r, x) = {} /\ TypeOK
      /\ ~Typed(r) => old # {}
      /\ Replace(r, s, t)
      /\ todo' = [todo EXCEPT ![r] = @ \ {x}]
      /\ Goto(r, IF todo[r] # {x} THEN "update" ELSE IF composite THEN "insert" ELSE "data")
      /\ part' = [part EXCEPT ![r] = IF composite THEN "subobjects" ELSE @]
      /\ UNCHANGED <<tableVars, body, answer, shared, ids, checked, doomed, shown, feasible, changed>>
  BY DEF UpdateObject, IInv
<1>2. x \in Existing(r) /\ spec \in Spec1
  <2>1. x \in Existing(r)
    BY <1>1 DEF IInv, RequestInv, ExistingAreHeld
  <2> QED
    BY <1>1, <2>1, PiecesAreAsked DEF Upserting, Existing
<1>3. s.objects = old /\ t.objects = new /\ s.data = {} /\ t.data = {} /\ s.items = {} /\ t.items = {}
  BY DEF NoRows
<1>4. old \subseteq ObjectRow /\ \A p \in old : p.id = x
  BY <1>1, SeenIsTyped DEF RowsOf, Tables
<1>5. ASSUME NEW p \in old
      PROVE  updated(p).id = x /\ updated(p).owner = IF spec.owner = Unset THEN p.owner ELSE spec.owner
  <2>1. p \in ObjectRow /\ p.id = x
    BY <1>4
  <2> HIDE DEF spec, old
  <2> QED
    BY <1>2, <2>1 DEF ObjectRow, Spec1
<1>6. \A o \in new : \E p \in old : o.id = x /\ p.id = x /\ o.owner = IF spec.owner = Unset THEN p.owner ELSE spec.owner
  BY <1>4, <1>5
<1>7. \A p \in old : \E o \in new : o.id = x
  BY <1>5
<1> HIDE DEF s, t, new, composite
<1>8. /\ \A q \in Requests \ {r} : put'[q] = put[q] /\ cut'[q] = cut[q]
      /\ put'[r].objects = (put[r].objects \ old) \cup new /\ cut'[r].objects = cut[r].objects \cup old
      /\ put'[r].data = put[r].data /\ cut'[r].data = cut[r].data
      /\ put'[r].items = put[r].items /\ cut'[r].items = cut[r].items
  <2>1. db' = db
    BY <1>1 DEF tableVars
  <2>2. /\ \A q \in Requests \ {r} : put'[q] = put[q] /\ cut'[q] = cut[q]
        /\ put'[r].objects = (put[r].objects \ s.objects) \cup t.objects /\ cut'[r].objects = cut[r].objects \cup s.objects
    BY <1>1, <2>1, Replaced
  <2>3. /\ put'[r].data = put[r].data /\ cut'[r].data = cut[r].data
        /\ put'[r].items = put[r].items /\ cut'[r].items = cut[r].items
    BY <1>1, <1>3, <2>1, NotReplaced
  <2> QED
    BY <1>3, <2>2, <2>3
<1>9. \A o \in put[r].objects : o.id = x => o \in old
  BY SeenRows DEF old, RowsOf
<1>10. /\ part'[r] = (IF composite THEN "subobjects" ELSE part[r]) /\ todo'[r] = todo[r] \ {x}
       /\ \A q \in Requests \ {r} : part'[q] = part[q] /\ todo'[q] = todo[q]
  BY <1>1 DEF TypeOK
<1> HIDE DEF spec, old
<1> QED
  BY <1>1, <1>2, <1>6, <1>7, <1>8, <1>9, <1>10 DEF composite, spec, old

LEMMA UpsertIsAlone ==
  ASSUME IInv, NEW r \in Requests, Upsert(r)
  PROVE  Alone(r)
<1>1. /\ part \in [Requests -> {"main", "subobjects"}] /\ todo \in [Requests -> SUBSET Ids]
      /\ ids \in [Requests -> [NewIds -> Ids \cup {0}]] /\ put \in [Requests -> Tables] /\ cut \in [Requests -> Tables]
      /\ shared \in [Requests -> SUBSET Ids] /\ doomed \in [Requests -> SUBSET Ids]
      /\ checked \in [Requests -> SUBSET Ids] /\ shown \in [Requests -> Shown]
      /\ lastId \in Nat /\ lastId \in lastId .. MaxId /\ MaxId \in Nat
  BY ObjectAssumption DEF IInv, TypeOK
<1>2. \A step : step \in {"insert", "authorize", "check", "update", "data", "exist", "unlink", "link", "marked",
                          "authorize_delete", "delete", "commit"} => step \in Step \ {"new"}
  BY DEF Step
<1>3. ASSUME pc[r] \in {"insert", "authorize", "check", "update", "data", "exist", "unlink", "link", "marked"}
      PROVE  Open(r)
  BY <1>3 DEF Open
<1>4. ASSUME Open(r), \E status : Refuse(r, status)
      PROVE  Alone(r)
  BY <1>4, RefuseIsAlone
<1> USE DEF tableVars, writeVars, workVars
<1>5. CASE InsertObjects(r)
  <2>1. Open(r)
    BY <1>3, <1>5 DEF InsertObjects
  <2>2. CASE \E status : Refuse(r, status)
    BY <1>4, <2>1, <2>2
  <2>3. CASE ~ \E status : Refuse(r, status)
    <3>1. ~ Refuse(r, 403)
      BY <2>3
    <3>2. /\ lastId' \in lastId .. MaxId
          /\ \A q \in Requests \ {r} : ids'[q] = ids[q] /\ put'[q] = put[q] /\ part'[q] = part[q]
          /\ \E step \in {"insert", "authorize", "data"} : Goto(r, step)
          /\ UNCHANGED <<db, hidden, body, answer, cut, shared, todo, checked, doomed, shown, feasible, changed>>
      BY <1>5, <3>1, InsertWrites
    <3> QED
      BY <1>2, <2>1, <3>2, WorkIsAlone
  <2> QED
    BY <2>2, <2>3
<1>6. CASE Authorize(r)
  BY <1>1, <1>2, <1>3, <1>4, <1>6, WorkIsAlone DEF Authorize
<1>7. CASE CheckExisting(r)
  BY <1>1, <1>2, <1>3, <1>4, <1>7, WorkIsAlone DEF CheckExisting
<1>8. CASE WriteData(r)
  BY <1>1, <1>2, <1>3, <1>4, <1>8, WorkIsAlone DEF WriteData, Replace
<1>9. CASE CheckSubobjects(r)
  BY <1>1, <1>2, <1>3, <1>4, <1>9, WorkIsAlone DEF CheckSubobjects
<1>10. CASE \E x \in Ids : UpdateObject(r, x)
  <2>1. PICK x \in Ids : UpdateObject(r, x)
    BY <1>10
  <2>2. Open(r)
    BY <1>3, <2>1 DEF UpdateObject
  <2>3. CASE \E status : Refuse(r, status)
    BY <1>4, <2>2, <2>3
  <2>4. CASE ~ \E status : Refuse(r, status)
    <3>1. ~ Refuse(r, 400)
      BY <2>4
    <3>2. /\ \A q \in Requests \ {r} : put'[q] = put[q] /\ cut'[q] = cut[q] /\ part'[q] = part[q] /\ todo'[q] = todo[q]
          /\ \E step \in {"update", "insert", "data"} : Goto(r, step)
          /\ UNCHANGED <<tableVars, body, answer, shared, ids, checked, doomed, shown, feasible, changed>>
      BY <2>1, <3>1, UpdateWrites
    <3> QED
      BY <1>1, <1>2, <2>2, <3>2, WorkIsAlone
  <2> QED
    BY <2>3, <2>4
<1>11. CASE Unlink(r)
  BY <1>1, <1>2, <1>3, <1>11, WorkIsAlone DEF Unlink, Replace
<1>12. CASE Link(r)
  <2>1. AfterLink(r) \in Step \ {"new"} /\ Open(r)
    BY <1>2, <1>3, <1>12 DEF AfterLink, Link
  <2>2. CASE todo[r] = {} /\ ~ \E x \in todo[r] : TRUE
    BY <1>1, <1>12, <2>1, <2>2, WorkIsAlone DEF Link, Put
  <2>3. ASSUME NEW x \in todo[r], shared' = [shared EXCEPT ![r] = @ \cup {x}], todo' = [todo EXCEPT ![r] = @ \ {x}],
               UNCHANGED <<tableVars, pc, body, answer, put, cut, part, ids, checked, doomed, shown, feasible, changed>>
        PROVE  Alone(r)
    <3>1. Goto(r, "link")
      BY <1>12, <2>3 DEF Goto, Link, IInv, TypeOK
    <3> QED
      BY <1>1, <1>2, <2>1, <2>3, <3>1, WorkIsAlone
  <2> QED
    BY <1>4, <1>12, <2>1, <2>2, <2>3 DEF Link
<1>13. CASE FindMarked(r)
  BY <1>1, <1>2, <1>3, <1>13, WorkIsAlone DEF FindMarked
<1> QED
  BY <1>5, <1>6, <1>7, <1>8, <1>9, <1>10, <1>11, <1>12, <1>13 DEF Upsert

LEMMA DeleteIsAlone ==
  ASSUME IInv, NEW r \in Requests, Delete(r), ~ Commit(r)
  PROVE  Alone(r)
<1>1. /\ part \in [Requests -> {"main", "subobjects"}] /\ todo \in [Requests -> SUBSET Ids]
      /\ put \in [Requests -> Tables] /\ cut \in [Requests -> Tables]
      /\ doomed \in [Requests -> SUBSET Ids] /\ checked \in [Requests -> SUBSET Ids]
      /\ lastId \in Nat /\ lastId \in lastId .. MaxId /\ MaxId \in Nat
  BY ObjectAssumption DEF IInv, TypeOK
<1>2. \A step : step \in {"exclusive", "authorize_delete", "delete", "cascade", "commit"} => step \in Step \ {"new"}
  BY DEF Step
<1>3. ASSUME pc[r] \in {"subobjects", "exclusive", "authorize_delete", "delete", "cascade", "commit"}
      PROVE  Open(r)
  BY <1>3 DEF Open
<1> USE DEF tableVars, writeVars, workVars
<1>4. CASE FindSubobjects(r)
  BY <1>1, <1>2, <1>3, <1>4, WorkIsAlone DEF FindSubobjects
<1>5. CASE FindExclusive(r)
  BY <1>1, <1>2, <1>3, <1>5, WorkIsAlone DEF FindExclusive
<1>6. CASE AuthorizeDelete(r)
  BY <1>1, <1>2, <1>3, <1>6, WorkIsAlone, RefuseIsAlone DEF AuthorizeDelete
<1>7. CASE \E x \in Ids : DeleteRow(r, x)
  BY <1>1, <1>2, <1>3, <1>7, WorkIsAlone DEF DeleteRow, Replace
<1>8. CASE Cascade(r)
  BY <1>1, <1>2, <1>3, <1>8, WorkIsAlone DEF Cascade, Replace
<1> QED
  BY <1>4, <1>5, <1>6, <1>7, <1>8 DEF Delete

LEMMA ViewIsAlone ==
  ASSUME IInv, NEW r \in Requests, View(r)
  PROVE  Alone(r)
<1>1. shown \in [Requests -> Shown] /\ lastId \in Nat /\ lastId \in lastId .. MaxId /\ MaxId \in Nat
  BY ObjectAssumption DEF IInv, TypeOK
<1>2. {"types", "rows", "items"} \subseteq Step \ {"new"}
  BY DEF Step
<1>3. Open(r)
  BY DEF View, ViewAttributes, ViewTypes, ViewRows, ViewItems, FinishView, Open
<1>4. CASE \E status : Refuse(r, status)
  BY <1>3, <1>4, RefuseIsAlone
<1>5. CASE ~ \E status : Refuse(r, status)
  <2>1. /\ \E step \in {"types", "rows", "items"} : Goto(r, step)
        /\ \E all : shown' = [shown EXCEPT ![r] = all]
        /\ ViewUnchanged(r)
    BY <1>1, <1>5 DEF View, ViewAttributes, ViewTypes, ViewRows, ViewItems, FinishView, Show, Shown
  <2>2. \A q \in Requests \ {r} : shown'[q] = shown[q]
    BY <1>1, <2>1
  <2> QED
    BY <1>1, <1>2, <1>3, <2>1, <2>2, WorkIsAlone DEF ViewUnchanged, tableVars, writeVars
<1> QED
  BY <1>4, <1>5

-----------------------------------------------------------------------------
(* What every step keeps *)

LEMMA EndedHolds ==
  ASSUME NEW r \in Requests, pc'[r] = "done", put'[r] = NoRows, cut'[r] = NoRows, shared'[r] = {}
  PROVE  WriterInv(r)' /\ Gone(r)' = {} /\ Held(r)' = {}
<1>1. Held(r)' = {} /\ Gone(r)' = {}
  BY DEF Held, Gone, IdsOf, NoRows
<1>2. pc'[r] \notin Late \cup Early \cup {"link", "commit"}
  BY DEF Late, Early
<1>3. HeldAreKnown(r)' /\ Unanswered(r)' /\ AskedAreLinked(r)' /\ GivenOnce(r)'
  BY <1>1, <1>2 DEF HeldAreKnown, Unanswered, AskedAreLinked, GivenOnce, Early
<1>4. SharedAreThere(r)' /\ ContentsGoWithData(r)'
  BY <1>1, <1>2 DEF SharedAreThere, ContentsGoWithData, NoRows
<1> QED
  BY <1>1, <1>3, <1>4 DEF WriterInv

LEMMA RefuseHolds ==
  ASSUME IInv, HInv, IInv', NEW r \in Requests, Open(r), NEW status, Refuse(r, status)
  PROVE  HInv'
<1>1. Alone(r)
  BY RefuseIsAlone
<1>2. /\ pc'[r] = "done" /\ put'[r] = NoRows /\ cut'[r] = NoRows /\ shared'[r] = {}
      /\ ids'[r] = [c \in NewIds |-> 0]
  BY DEF Refuse, End, Goto, IInv, TypeOK
<1>3. WriterInv(r)' /\ Gone(r)' = {}
  BY <1>2, EndedHolds
<1>4. \A x \in NewOf(r)' : x = 0
  BY <1>2 DEF NewOf
<1>5. TypeOK'
  BY DEF IInv
<1> QED
  BY <1>1, <1>2, <1>3, <1>4, <1>5, AloneKeeps

LEMMA BeginHolds ==
  ASSUME IInv, HInv, IInv', NEW r \in Requests, Begin(r)
  PROVE  HInv'
<1>1. Alone(r) /\ pc[r] = "new"
  BY BeginIsAlone DEF Begin
<1>2. PICK b \in Bodies :
          /\ body' = [body EXCEPT ![r] = b]
          /\ IF RouteRefusal(b) # 0
             THEN /\ Goto(r, "done") /\ answer' = [answer EXCEPT ![r] = RouteRefusal(b)]
             ELSE /\ Goto(r, FirstStep(b)) /\ UNCHANGED answer
  BY DEF Begin
<1>3. put'[r] = NoRows /\ cut'[r] = NoRows /\ shared' = shared /\ ids' = ids /\ put' = put /\ cut' = cut
  BY <1>1 DEF Begin, writeVars, IInv, RequestInv, RouteShape, Open
<1>4. Held(r)' = {} /\ Gone(r)' = {} /\ Held(r) = {} /\ Gone(r) = {} /\ NewOf(r)' = NewOf(r) /\ db' = db
  BY <1>1, <1>3 DEF Held, Gone, IdsOf, NoRows, NewOf, Alone, StepOf
<1>5. pc'[r] = IF RouteRefusal(b) # 0 THEN "done" ELSE FirstStep(b)
  BY <1>2 DEF IInv, TypeOK, Goto
<1>6. pc'[r] \notin {"link", "commit"} /\ (pc'[r] \in Late => body'[r].route = "delete")
  <2>1. b.route \in {"add", "update", "bulk_upsert", "delete", "view"} /\ body'[r] = b
    BY <1>2, ObjectAssumption DEF Body, Routes, IInv, TypeOK
  <2>2. CASE b.route \in {"add", "bulk_upsert"}
    BY <1>5, <2>2 DEF FirstStep, Late
  <2>3. CASE b.route = "update"
    BY <1>5, <2>3 DEF FirstStep, Late
  <2>4. CASE b.route = "delete"
    BY <1>5, <2>1, <2>4 DEF FirstStep, Late
  <2>5. CASE b.route = "view"
    BY <1>5, <2>5 DEF FirstStep, Late
  <2> QED
    BY <2>1, <2>2, <2>3, <2>4, <2>5
<1>7. WriterInv(r)
  BY DEF HInv
<1>8. HeldAreKnown(r)' /\ Unanswered(r)' /\ AskedAreLinked(r)'
  <2>1. HeldAreKnown(r)' /\ AskedAreLinked(r)'
    BY <1>3, <1>4 DEF HeldAreKnown, AskedAreLinked, NoRows
  <2>2. pc'[r] # "done" => answer'[r] = answer[r]
    BY <1>2, <1>5
  <2> QED
    BY <1>1, <1>7, <2>1, <2>2 DEF WriterInv, Unanswered
<1>9. SharedAreThere(r)' /\ ContentsGoWithData(r)'
  BY <1>3, <1>4, <1>6, <1>7 DEF WriterInv, SharedAreThere, ContentsGoWithData, NoRows
<1>10. TypeOK'
  BY DEF IInv
<1>11. \A q \in Requests \ {r} : Gone(r)' \cap shared[q] = {} /\ Gone(q) \cap shared'[r] = {}
  BY <1>3, <1>4 DEF HInv, SharedAreSafe
<1>12. GivenOnce(r)'
  <2>1. \A c \in NewIds : ids'[r][c] = 0
    BY <1>1, <1>3 DEF HInv, IdsAreFresh, NewOf
  <2> QED
    BY <2>1 DEF GivenOnce
<1> QED
  BY <1>1, <1>4, <1>7, <1>8, <1>9, <1>10, <1>11, <1>12, AloneKeeps DEF WriterInv

\* A step that neither writes nor locks.
LEMMA QuietHolds ==
  ASSUME IInv, HInv, IInv', NEW r \in Requests, Alone(r), Open(r),
         put' = put, cut' = cut, shared' = shared, ids' = ids, answer' = answer, part' = part,
         pc'[r] \notin {"insert", "link", "done"}, pc'[r] \in Early => pc[r] \in Early,
         pc'[r] \in Late => pc[r] \in Late,
         pc[r] \in Late => pc'[r] \in Late,
         pc[r] \notin {"link", "commit"}, pc'[r] = "commit" => Gone(r) = {}
  PROVE  HInv'
<1>1. body'[r] = body[r] /\ db' = db
  BY DEF Alone, StepOf, Open
<1>2. Seen(r)' = Seen(r) /\ Held(r)' = Held(r) /\ Gone(r)' = Gone(r) /\ NewOf(r)' = NewOf(r)
  BY <1>1 DEF Seen, Held, Gone, NewOf
<1>3. /\ \A c : IdOf(r, c)' = IdOf(r, c)
      /\ Composites(r)' = Composites(r) /\ Typed(r)' = Typed(r)
  BY <1>1 DEF IdOf, Composites, Typed
<1>4. /\ CompositeIds(r)' = CompositeIds(r) /\ Subobjects(r)' = Subobjects(r)
      /\ \A x : AskedContents(r, x)' = AskedContents(r, x)
  BY <1>1, <1>3 DEF CompositeIds, Subobjects, AskedContents
<1>5. WriterInv(r)
  BY DEF HInv
<1>6. HeldAreKnown(r)' /\ Unanswered(r)' /\ GivenOnce(r)'
  BY <1>1, <1>2, <1>3, <1>5 DEF WriterInv, HeldAreKnown, Unanswered, Open, GivenOnce
<1>7. SharedAreThere(r)'
  BY <1>1, <1>2, <1>4, <1>5 DEF WriterInv, SharedAreThere
<1>8. ContentsGoWithData(r)'
  BY <1>1, <1>2, <1>4, <1>5 DEF WriterInv, ContentsGoWithData
<1>9. AskedAreLinked(r)'
  BY <1>1, <1>2, <1>4, <1>5 DEF WriterInv, AskedAreLinked
<1>10. TypeOK'
  BY DEF IInv
<1>11. \A q \in Requests \ {r} : Gone(r)' \cap shared[q] = {} /\ Gone(q) \cap shared'[r] = {}
  BY <1>2 DEF HInv, SharedAreSafe
<1> QED
  BY <1>2, <1>6, <1>7, <1>8, <1>9, <1>10, <1>11, AloneKeeps DEF WriterInv

\* A body without composite objects has no sub-objects.
LEMMA OnlyCompositesHaveLinks ==
  ASSUME IInv, NEW r \in Requests, pc[r] \in Upserting
  PROVE  /\ \A l \in body[r].links : l \in Refs \X Refs /\ l[1] \in Composites(r)
         /\ ~ Typed(r) /\ part[r] = "main" /\ pc[r] = "data" => Composites(r) = {}
<1>1. /\ body[r] \in Body /\ Accepted(body[r]) /\ RouteShape(r) /\ Open(r)
      /\ body[r].route \in {"add", "update", "bulk_upsert"}
  BY PiecesAreAsked, ObjectAssumption DEF IInv, RequestInv, RouteShape, Open, Upserting
<1>2. \A l \in body[r].links : l \in Refs \X Refs
  BY <1>1 DEF Body
<1>3. CASE Typed(r)
  BY <1>1, <1>2, <1>3 DEF Typed, Accepted, AcceptedTyped, Composites
<1>4. CASE ~ Typed(r)
  <2>1. AcceptedUntyped(body[r])
    BY <1>1, <1>4 DEF Typed, Accepted
  <2>2. \A l \in body[r].links : l[1] \in Composites(r)
    BY <2>1 DEF AcceptedUntyped, Composites
  <2>3. pc[r] = "data" /\ part[r] = "main" => body[r].writes[body[r].main].type # "composite"
    BY <1>1, <1>4 DEF RouteShape, MainIsComposite
  <2>4. \A c \in Asked(body[r]) \ {body[r].main} : body[r].writes[c].type # "composite"
    BY <2>1 DEF AcceptedUntyped
  <2> QED
    BY <1>2, <2>2, <2>3, <2>4 DEF Composites
<1> QED
  BY <1>3, <1>4

LEMMA InsertHolds ==
  ASSUME IInv, HInv, IInv', NEW r \in Requests, InsertObjects(r)
  PROVE  HInv'
<1>1. Alone(r) /\ Open(r)
  BY UpsertIsAlone DEF Upsert, InsertObjects, Open
<1>2. CASE Refuse(r, 403)
  BY <1>1, <1>2, RefuseHolds
<1>3. CASE ~ Refuse(r, 403)
  <2> DEFINE new == Pieces(r) \cap NewIds
  <2>1. /\ \A c \in NewIds : ids'[r][c] = IF c \in new THEN lastId + Rank(c, new) ELSE ids[r][c]
        /\ \A c \in new : lastId < ids'[r][c] /\ ids'[r][c] <= lastId'
        /\ put'[r].data = put[r].data /\ put'[r].items = put[r].items /\ put[r].objects \subseteq put'[r].objects
        /\ \A o \in put'[r].objects : o \in put[r].objects \/ \E c \in new : o.id = ids'[r][c]
        /\ \E step \in {"insert", "authorize", "data"} : Goto(r, step)
        /\ UNCHANGED <<db, body, answer, cut, shared>>
    <3>1. /\ \A c \in NewIds : ids'[r][c] = IF c \in new THEN lastId + Rank(c, new) ELSE ids[r][c]
          /\ \A c \in new : lastId < ids'[r][c] /\ ids'[r][c] <= lastId'
          /\ put'[r].data = put[r].data /\ put'[r].items = put[r].items /\ put[r].objects \subseteq put'[r].objects
          /\ UNCHANGED <<db, body, answer, cut, shared>>
      BY <1>3, InsertWrites
    <3>2. \E step \in {"insert", "authorize", "data"} : Goto(r, step)
      BY <1>3, InsertWrites
    <3>3. \A o \in put'[r].objects : o \in put[r].objects \/ \E c \in new : o.id = ids'[r][c]
      <4>1. \A o \in put'[r].objects :
               \/ o \in put[r].objects
               \/ \E c \in new :
                     /\ o.id = ids'[r][c] /\ o.type = body[r].writes[c].type
                     /\ o.owner = IF body[r].writes[c].owner = Unset THEN body[r].issuer ELSE body[r].writes[c].owner
        BY <1>3, InsertWrites
      <4> HIDE DEF new
      <4> QED
        BY <4>1
    <3> QED
      BY <3>1, <3>2, <3>3
  <2>2. pc[r] = "insert" /\ pc'[r] \in {"insert", "authorize", "data"}
    BY <2>1 DEF InsertObjects, Goto, IInv, TypeOK
  <2>3. Gone(r) = {} /\ Gone(r)' = {}
    BY <2>2 DEF IInv, RequestInv, DeletesAreLast
  <2>4. \A x \in NewOf(r)' : x \in NewOf(r) \cup {0} \/ (lastId < x /\ x <= lastId')
    BY <2>1 DEF NewOf
  <2>5. WriterInv(r) /\ body'[r] = body[r] /\ db' = db
    BY <2>1 DEF HInv
  <2>6. \A c \in new : ids[r][c] = 0
    BY <2>2, <2>5 DEF WriterInv, GivenOnce
  <2>7. HeldAreKnown(r)'
    <3>1. NewOf(r) \subseteq NewOf(r)' \cup {0}
      BY <2>1, <2>6 DEF NewOf
    <3>2. \A x \in Held(r)' : x \in Held(r) \/ \E c \in new : x = ids'[r][c]
      BY <2>1 DEF Held, IdsOf
    <3>3. 0 \notin Held(r)
      BY DEF Held, IdsOf, IInv, TypeOK, Tables, ObjectRow, Ids
    <3> QED
      BY <2>5, <3>1, <3>2, <3>3 DEF WriterInv, HeldAreKnown, NewOf
  <2>8. GivenOnce(r)'
    <3> DEFINE composite == ~Typed(r) /\ part[r] = "main" /\ SimplePieces(r) = {}
    <3>1. /\ part'[r] = IF composite THEN "subobjects" ELSE part[r]
          /\ pc'[r] = "insert" => composite
      <4>1. /\ part'[r] = IF composite THEN "subobjects" ELSE part[r]
            /\ Goto(r, IF composite THEN "insert" ELSE IF Existing(r) # {} THEN "authorize" ELSE "data")
        BY <1>3, InsertWrites
      <4> QED
        BY <4>1 DEF Goto, IInv, TypeOK
    <3>2. ~Typed(r) /\ part[r] = "main" => new \subseteq {body[r].main} /\ \A c \in NewIds \ {body[r].main} : ids[r][c] = 0
      BY <2>2, <2>5 DEF WriterInv, GivenOnce, Early, Pieces
    <3>3. ~Typed(r) /\ part[r] = "main" => \A c \in NewIds \ {body[r].main} : ids'[r][c] = 0
      BY <2>1, <3>2
    <3>4. Typed(r)' = Typed(r)
      BY <2>5 DEF Typed
    <3>5. ~Typed(r) /\ part'[r] = "subobjects" => body[r].main \notin Pieces(r)'
      BY <2>5 DEF Typed, Pieces
    <3>6. ~Typed(r) /\ part'[r] = "main" => part[r] = "main"
      BY <3>1
    <3>7. pc'[r] = "insert" => \A c \in Pieces(r)' \cap NewIds : ids'[r][c] = 0
      BY <3>1, <3>3, <3>5
    <3> QED
      BY <2>5, <3>3, <3>4, <3>6, <3>7 DEF GivenOnce
  <2>9. Unanswered(r)' /\ AskedAreLinked(r)'
    BY <1>1, <2>1, <2>2, <2>5 DEF WriterInv, Unanswered, AskedAreLinked, Late, Open
  <2>10. SharedAreThere(r)'
    <3>1. Held(r) \subseteq Held(r)'
      BY <2>1 DEF Held, IdsOf
    <3> QED
      BY <2>1, <2>2, <2>5, <3>1 DEF WriterInv, SharedAreThere, Late
  <2>11. ContentsGoWithData(r)'
    <3>1. \A d \in put[r].data : d.table # "composite"
      BY <2>2, <2>5 DEF WriterInv, ContentsGoWithData, Late
    <3> QED
      BY <2>1, <2>2, <2>3, <2>5, <3>1 DEF WriterInv, ContentsGoWithData
  <2>12. TypeOK'
    BY DEF IInv
  <2>13. \A q \in Requests \ {r} : Gone(r)' \cap shared[q] = {} /\ Gone(q) \cap shared'[r] = {}
    BY <2>1, <2>3 DEF HInv, SharedAreSafe
  <2> QED
    BY <1>1, <2>4, <2>7, <2>8, <2>9, <2>10, <2>11, <2>12, <2>13, AloneKeeps DEF WriterInv
<1> QED
  BY <1>2, <1>3

LEMMA ReadsHold ==
  ASSUME IInv, HInv, IInv', NEW r \in Requests,
         \/ Authorize(r) \/ CheckExisting(r) \/ CheckSubobjects(r) \/ FindMarked(r)
         \/ FindSubobjects(r) \/ FindExclusive(r) \/ AuthorizeDelete(r) \/ View(r)
  PROVE  HInv'
<1>1. Open(r)
  BY DEF Authorize, CheckExisting, CheckSubobjects, FindMarked, FindSubobjects, FindExclusive, AuthorizeDelete, View,
     ViewAttributes, ViewTypes, ViewRows, ViewItems, FinishView, Open
<1>2. Alone(r)
  <2>1. Delete(r) => ~ Commit(r)
    BY DEF FindSubobjects, FindExclusive, AuthorizeDelete, View, ViewAttributes, ViewTypes, ViewRows, ViewItems, FinishView,
       Authorize, CheckExisting, CheckSubobjects, FindMarked, Commit
  <2> QED
    BY <2>1, UpsertIsAlone, DeleteIsAlone, ViewIsAlone DEF Upsert, Delete
<1>3. CASE \E status : Refuse(r, status)
  BY <1>1, <1>3, RefuseHolds
<1>4. CASE ~ \E status : Refuse(r, status)
  <2>1. UNCHANGED <<put, cut, shared, ids, answer, part>>
    BY <1>4 DEF Authorize, CheckExisting, CheckSubobjects, FindMarked, FindSubobjects, FindExclusive, AuthorizeDelete, View,
       ViewAttributes, ViewTypes, ViewRows, ViewItems, FinishView, ViewUnchanged, writeVars, workVars
  <2>2. \/ pc[r] = "authorize" /\ pc'[r] \in {"check", "update"}
        \/ pc[r] = "check" /\ pc'[r] = "update"
        \/ pc[r] = "exist" /\ pc'[r] = "unlink"
        \/ pc[r] = "marked" /\ pc'[r] \in {"authorize_delete", "commit"}
        \/ pc[r] = "subobjects" /\ pc'[r] = "exclusive"
        \/ pc[r] = "exclusive" /\ pc'[r] = "authorize_delete"
        \/ pc[r] = "authorize_delete" /\ pc'[r] \in {"delete", "commit"}
        \/ pc[r] \in {"attributes", "types", "rows", "items"} /\ pc'[r] \in {"types", "rows", "items"}
    <3>1. pc \in [Requests -> Step]
      BY DEF IInv, TypeOK
    <3>2. CASE Authorize(r) \/ CheckExisting(r) \/ CheckSubobjects(r) \/ FindMarked(r)
      BY <1>4, <3>1, <3>2 DEF Authorize, CheckExisting, CheckSubobjects, FindMarked, Goto
    <3>3. CASE FindSubobjects(r) \/ FindExclusive(r) \/ AuthorizeDelete(r)
      BY <1>4, <3>1, <3>3 DEF FindSubobjects, FindExclusive, AuthorizeDelete, Goto
    <3>4. CASE View(r)
      BY <1>4, <3>1, <3>4 DEF View, ViewAttributes, ViewTypes, ViewRows, ViewItems, FinishView, Goto
    <3> QED
      BY <3>2, <3>3, <3>4
  <2>3. pc'[r] = "commit" => Gone(r) = {}
    BY <2>2 DEF IInv, RequestInv, DeletesAreLast
  <2> QED
    BY <1>1, <1>2, <2>1, <2>2, <2>3, QuietHolds DEF Early, Late
<1> QED
  BY <1>3, <1>4

LEMMA UpdateHolds ==
  ASSUME IInv, HInv, IInv', NEW r \in Requests, NEW x \in Ids, UpdateObject(r, x)
  PROVE  HInv'
<1>1. Alone(r) /\ Open(r)
  BY UpsertIsAlone DEF Upsert, UpdateObject, Open
<1>2. CASE Refuse(r, 400)
  BY <1>1, <1>2, RefuseHolds
<1>3. CASE ~ Refuse(r, 400)
  <2> DEFINE spec == body[r].writes[x]
             old == RowsOf(Seen(r), x)
             composite == ~Typed(r) /\ part[r] = "main" /\ spec.type = "composite"
  <2>1. /\ pc[r] = "update" /\ x \in Existing(r)
        /\ put'[r].data = put[r].data /\ put'[r].items = put[r].items /\ cut'[r].items = cut[r].items
        /\ cut'[r].objects = cut[r].objects \cup old
        /\ Goto(r, IF todo[r] # {x} THEN "update" ELSE IF composite THEN "insert" ELSE "data")
        /\ part'[r] = IF composite THEN "subobjects" ELSE part[r]
        /\ UNCHANGED <<db, body, answer, shared, ids>>
    BY <1>3, UpdateWrites DEF tableVars
  <2>2. \A o \in put'[r].objects : o \in put[r].objects \/ \E p \in old : o.id = x /\ p.id = x
    <3>1. \A o \in put'[r].objects :
             \/ o \in put[r].objects /\ o.id # x
             \/ \E p \in old : o.id = x /\ p.id = x /\ o.owner = IF spec.owner = Unset THEN p.owner ELSE spec.owner
      BY <1>3, UpdateWrites
    <3> HIDE DEF old, spec
    <3> QED
      BY <3>1
  <2>3. IdsOf(put[r].objects) \subseteq Held(r)'
    <3>1. put[r].objects \ old \subseteq put'[r].objects
      BY <1>3, UpdateWrites
    <3> QED
      BY <2>1, <3>1 DEF Held, IdsOf
  <2>4. pc'[r] = (IF todo[r] # {x} THEN "update" ELSE IF composite THEN "insert" ELSE "data")
    BY <2>1 DEF Goto, IInv, TypeOK
  <2>5. Gone(r) = {} /\ Gone(r)' = {}
    BY <2>1, <2>4 DEF IInv, RequestInv, DeletesAreLast
  <2>6. WriterInv(r) /\ NewOf(r)' = NewOf(r)
    BY <2>1 DEF HInv, NewOf
  <2>7. HeldAreKnown(r)'
    <3>1. \A o \in old : o.id \in IdsOf(db.objects) \cup Held(r)
      BY SeenRows DEF old, RowsOf, IdsOf, Held
    <3>2. Held(r)' \subseteq IdsOf(db.objects) \cup Held(r)
      BY <2>1, <2>2, <3>1 DEF Held, IdsOf
    <3> QED
      BY <2>1, <2>6, <3>2 DEF WriterInv, HeldAreKnown
  <2>8. Held(r) \subseteq Held(r)'
    BY <2>1, <2>3 DEF Held, IdsOf
  <2>9. GivenOnce(r)'
    <3>1. Typed(r)' = Typed(r) /\ (pc'[r] = "insert" => part'[r] = "subobjects" /\ part[r] = "main" /\ ~Typed(r))
      BY <2>1, <2>4 DEF Typed
    <3>2. ~Typed(r) /\ part[r] = "main" => \A c \in NewIds \ {body[r].main} : ids[r][c] = 0
      BY <2>1, <2>6 DEF WriterInv, GivenOnce, Early
    <3>3. pc'[r] = "insert" => Pieces(r)' = Asked(body[r]) \ {body[r].main}
      BY <2>1, <3>1 DEF Pieces
    <3> QED
      BY <2>1, <3>1, <3>2, <3>3 DEF GivenOnce
  <2>10. Unanswered(r)' /\ AskedAreLinked(r)'
    BY <1>1, <2>1, <2>4, <2>6 DEF WriterInv, Unanswered, AskedAreLinked, Late, Open
  <2>11. SharedAreThere(r)'
    BY <2>1, <2>4, <2>6, <2>8 DEF WriterInv, SharedAreThere, Late
  <2>12. ContentsGoWithData(r)'
    <3>1. \A d \in put[r].data : d.table # "composite"
      BY <2>1, <2>6 DEF WriterInv, ContentsGoWithData, Late
    <3> QED
      BY <2>1, <2>4, <2>5, <2>6, <3>1 DEF WriterInv, ContentsGoWithData
  <2>13. TypeOK'
    BY DEF IInv
  <2>14. \A q \in Requests \ {r} : Gone(r)' \cap shared[q] = {} /\ Gone(q) \cap shared'[r] = {}
    BY <2>1, <2>5 DEF HInv, SharedAreSafe
  <2> QED
    BY <1>1, <2>6, <2>7, <2>9, <2>10, <2>11, <2>12, <2>13, <2>14, AloneKeeps DEF WriterInv
<1> QED
  BY <1>2, <1>3

LEMMA WriteHolds ==
  ASSUME IInv, HInv, IInv', NEW r \in Requests, WriteData(r)
  PROVE  HInv'
<1>1. Alone(r) /\ Open(r) /\ pc[r] = "data"
  BY UpsertIsAlone DEF Upsert, WriteData, Open
<1>2. CASE Refuse(r, 400)
  BY <1>1, <1>2, RefuseHolds
<1>3. CASE ~ Refuse(r, 400)
  <2> DEFINE old == [objects |-> {}, data |-> OldData(r), items |-> OldListItems(r)]
             new == [objects |-> {}, data |-> NewData(r), items |-> NewListItems(r)]
  <2>1. /\ Replace(r, old, new)
        /\ Goto(r, IF Typed(r) THEN IF Composites(r) # {} THEN "unlink" ELSE "authorize_delete"
                   ELSE IF part[r] = "main" THEN "commit" ELSE "exist")
        /\ UNCHANGED <<db, body, answer, shared, part, ids>>
    BY <1>3 DEF WriteData, tableVars
  <2>2. TypeOK /\ db' = db
    BY <2>1 DEF IInv
  <2>3. old.objects = {} /\ new.objects = {} /\ old.data = OldData(r) /\ new.data = NewData(r)
        /\ old.items = OldListItems(r) /\ new.items = NewListItems(r)
    OBVIOUS
  <2> HIDE DEF old, new
  <2>4. put'[r].objects = put[r].objects /\ cut'[r].objects = cut[r].objects
    BY <2>1, <2>2, <2>3, NotReplaced
  <2>5. /\ put'[r].data = (put[r].data \ old.data) \cup new.data
        /\ put'[r].items = (put[r].items \ old.items) \cup new.items
        /\ cut'[r].items = cut[r].items \cup old.items
    BY <2>1, <2>2, Replaced
  <2>6. Held(r)' = Held(r) /\ Gone(r)' = Gone(r) /\ NewOf(r)' = NewOf(r) /\ Gone(r) = {}
    BY <1>1, <2>1, <2>4 DEF Held, Gone, NewOf, IInv, RequestInv, DeletesAreLast
  <2>7. pc'[r] = (IF Typed(r) THEN IF Composites(r) # {} THEN "unlink" ELSE "authorize_delete"
                   ELSE IF part[r] = "main" THEN "commit" ELSE "exist")
    BY <2>1 DEF Goto, IInv, TypeOK
  <2>8. WriterInv(r) /\ \A d \in put[r].data : d.table # "composite"
    BY <1>1 DEF HInv, WriterInv, ContentsGoWithData, Late
  <2>9. \A d \in new.data : d.by = r /\ d.table # "composite"
    BY <2>3 DEF NewData, SimplePieces
  <2>10. \A d \in old.data : d.id \in IdsOf(new.data)
    <3> DEFINE row(c) == [id |-> IdOf(r, c), table |-> body[r].writes[c].type, by |-> r]
    <3>1. \A c \in SimplePieces(r) : row(c) \in NewData(r) /\ row(c).id = IdOf(r, c)
      BY DEF NewData
    <3> HIDE DEF row
    <3>2. \A c \in SimplePieces(r) : IdOf(r, c) \in IdsOf(NewData(r))
      BY <3>1 DEF IdsOf
    <3> QED
      BY <2>3, <3>2 DEF OldData
  <2>11. IdsOf(put[r].data) \subseteq IdsOf(put'[r].data) /\ IdsOf(new.data) \subseteq IdsOf(put'[r].data)
    BY <2>5, <2>10 DEF IdsOf
  <2>12. /\ \A i \in new.items : i.sub = 0 /\ i.id \in IdsOf(new.data)
         /\ \A i \in old.items : i.id \in IdsOf(new.data)
    BY <2>3 DEF NewListItems, OldListItems, ListsWritten, IdsOf
  <2>13. HeldAreKnown(r)' /\ Unanswered(r)' /\ AskedAreLinked(r)' /\ GivenOnce(r)'
    <3>1. pc'[r] \notin Early
      BY <2>7 DEF Early
    <3>2. \A d \in put'[r].data : d.table # "composite"
      BY <2>5, <2>8, <2>9
    <3>3. HeldAreKnown(r)' /\ AskedAreLinked(r)' /\ GivenOnce(r)'
      BY <2>1, <2>6, <2>8, <3>1, <3>2 DEF WriterInv, HeldAreKnown, AskedAreLinked, GivenOnce, Early
    <3> QED
      BY <1>1, <2>1, <2>8, <3>3 DEF WriterInv, Unanswered
  <2>14. SharedAreThere(r)'
    <3>1. pc'[r] \in Late => Subobjects(r)' = {}
      <4>1. pc'[r] \in Late => Composites(r) = {}
        BY <1>1, <2>7, OnlyCompositesHaveLinks DEF Late, Upserting, IInv, TypeOK
      <4>2. \A l \in body[r].links : l[1] \in Composites(r)
        BY <1>1, OnlyCompositesHaveLinks DEF Upserting
      <4> QED
        BY <2>1, <4>1, <4>2 DEF Subobjects, Linked
    <3>2. pc'[r] # "link"
      BY <2>7
    <3> QED
      BY <2>1, <2>5, <2>6, <2>8, <2>12, <3>1, <3>2 DEF WriterInv, SharedAreThere
  <2>15. ContentsGoWithData(r)'
    BY <2>1, <2>5, <2>6, <2>7, <2>8, <2>9, <2>11, <2>12 DEF WriterInv, ContentsGoWithData
  <2>16. TypeOK'
    BY DEF IInv
  <2>17. \A q \in Requests \ {r} : Gone(r)' \cap shared[q] = {} /\ Gone(q) \cap shared'[r] = {}
    BY <2>1, <2>6 DEF HInv, SharedAreSafe
  <2> QED
    BY <1>1, <2>6, <2>13, <2>14, <2>15, <2>16, <2>17, AloneKeeps DEF WriterInv
<1> QED
  BY <1>2, <1>3 DEF WriteData

LEMMA UnlinkHolds ==
  ASSUME IInv, HInv, IInv', NEW r \in Requests, Unlink(r)
  PROVE  HInv'
<1> DEFINE properties == {d \in Seen(r).data : d.id \in CompositeIds(r) /\ d.table = "composite"}
           row(x) == [id |-> x, table |-> "composite", by |-> r]
           rows == {row(x) : x \in CompositeIds(r)}
           old == [objects |-> {}, data |-> properties, items |-> OldItems(r)]
           new == [NoRows EXCEPT !.data = rows]
<1>1. Alone(r) /\ Open(r) /\ pc[r] = "unlink"
  BY UpsertIsAlone DEF Upsert, Unlink, Open
<1>2. /\ Replace(r, old, new) /\ todo' = [todo EXCEPT ![r] = Subobjects(r)] /\ Goto(r, "link")
      /\ UNCHANGED <<db, body, answer, shared, ids>>
  BY DEF Unlink, tableVars
<1>3. TypeOK /\ db' = db
  BY <1>2 DEF IInv
<1>4. /\ old.objects = {} /\ new.objects = {} /\ old.data = properties /\ new.data = rows
      /\ old.items = OldItems(r) /\ new.items = {}
  BY DEF NoRows
<1>5. \A x \in CompositeIds(r) : x \in IdsOf(rows)
  <2>1. \A x \in CompositeIds(r) : row(x) \in rows /\ row(x).id = x
    OBVIOUS
  <2> QED
    BY <2>1 DEF IdsOf
<1>6. \A d \in rows : d.by = r /\ d.id \in CompositeIds(r)
  OBVIOUS
<1>7. \A d \in properties : d.id \in CompositeIds(r)
  OBVIOUS
<1> HIDE DEF old, new, rows, properties
<1>8. put'[r].objects = put[r].objects /\ cut'[r].objects = cut[r].objects
  BY <1>2, <1>3, <1>4, NotReplaced
<1>9. /\ put'[r].data = (put[r].data \ old.data) \cup new.data
      /\ put'[r].items = (put[r].items \ old.items) \cup new.items
      /\ cut'[r].items = cut[r].items \cup old.items
  BY <1>2, <1>3, Replaced
<1>10. Held(r)' = Held(r) /\ Gone(r)' = Gone(r) /\ NewOf(r)' = NewOf(r) /\ Gone(r) = {}
  BY <1>1, <1>2, <1>8 DEF Held, Gone, NewOf, IInv, RequestInv, DeletesAreLast
<1>11. pc'[r] = "link" /\ todo'[r] = Subobjects(r)
  BY <1>2 DEF Goto, IInv, TypeOK
<1>12. WriterInv(r) /\ \A d \in put[r].data : d.table # "composite"
  BY <1>1 DEF HInv, WriterInv, ContentsGoWithData, Late
<1>13. CompositeIds(r)' = CompositeIds(r) /\ Subobjects(r)' = Subobjects(r)
  BY <1>2 DEF CompositeIds, Composites, Subobjects, IdOf
<1>14. HeldAreKnown(r)' /\ AskedAreLinked(r)' /\ GivenOnce(r)'
  BY <1>2, <1>10, <1>11, <1>12 DEF WriterInv, HeldAreKnown, AskedAreLinked, GivenOnce, Early, Late
<1>15. Unanswered(r)'
  BY <1>1, <1>2, <1>12 DEF WriterInv, Unanswered
<1>16. SharedAreThere(r)'
  BY <1>2, <1>4, <1>9, <1>10, <1>11, <1>12, <1>13 DEF WriterInv, SharedAreThere, Late
<1>17. ContentsGoWithData(r)'
  <2>1. IdsOf(put[r].data) \subseteq IdsOf(put'[r].data) /\ CompositeIds(r) \subseteq IdsOf(put'[r].data)
    BY <1>4, <1>5, <1>7, <1>9 DEF IdsOf
  <2>2. \A i \in old.items : i.id \in CompositeIds(r)
    BY <1>4 DEF OldItems
  <2>3. ASSUME NEW i \in db.items, i.id \in CompositeIds(r)
        PROVE  i \in cut'[r].items
    BY <1>4, <1>9, <2>3, SeenRows DEF OldItems
  <2>4. ASSUME NEW i \in put'[r].items
        PROVE  i \in put[r].items /\ i.id \notin CompositeIds(r)
    BY <1>4, <1>9, <2>4, SeenRows DEF OldItems
  <2>5. \A d \in put'[r].data :
           /\ d.by = r
           /\ d.table = "composite" => d.id \in CompositeIds(r)
    BY <1>4, <1>6, <1>9, <1>12 DEF WriterInv, ContentsGoWithData
  <2>6. \A i \in put'[r].items : i.id \in IdsOf(put'[r].data)
    BY <1>12, <2>1, <2>4 DEF WriterInv, ContentsGoWithData
  <2>7. \A i \in cut'[r].items : i.id \in IdsOf(put'[r].data)
    BY <1>9, <1>10, <1>12, <2>1, <2>2 DEF WriterInv, ContentsGoWithData
  <2>8. body[r].route # "delete"
    BY <1>1, PiecesAreAsked DEF Upserting
  <2> QED
    BY <1>2, <1>11, <1>13, <2>1, <2>3, <2>4, <2>5, <2>6, <2>7, <2>8 DEF ContentsGoWithData
<1>18. TypeOK'
  BY DEF IInv
<1>19. \A q \in Requests \ {r} : Gone(r)' \cap shared[q] = {} /\ Gone(q) \cap shared'[r] = {}
  BY <1>2, <1>10 DEF HInv, SharedAreSafe
<1> QED
  BY <1>1, <1>10, <1>14, <1>15, <1>16, <1>17, <1>18, <1>19, AloneKeeps DEF WriterInv

LEMMA LinkHolds ==
  ASSUME IInv, HInv, IInv', NEW r \in Requests, Link(r)
  PROVE  HInv'
<1>1. Alone(r) /\ Open(r) /\ pc[r] = "link"
  BY UpsertIsAlone DEF Upsert, Link, Open
<1>2. CASE Refuse(r, 500)
  BY <1>1, <1>2, RefuseHolds
<1>3. WriterInv(r) /\ TypeOK /\ TypeOK' /\ Gone(r) = {}
  BY <1>1 DEF HInv, IInv, RequestInv, DeletesAreLast
<1>4. CASE /\ todo[r] = {} /\ Put(r, [NoRows EXCEPT !.items = NewItems(r)]) /\ Goto(r, AfterLink(r))
           /\ UNCHANGED <<tableVars, body, answer, cut, shared, workVars, feasible, changed>>
  <2> DEFINE new == [NoRows EXCEPT !.items = NewItems(r)]
             row(l) == [id |-> IdOf(r, l[1]), sub |-> IdOf(r, l[2]), by |-> r]
  <2>1. new.objects = {} /\ new.data = {} /\ new.items = NewItems(r)
    BY DEF NoRows
  <2>2. Put(r, new) /\ cut' = cut /\ db' = db /\ ids' = ids /\ body' = body /\ answer' = answer /\ shared' = shared
    BY <1>4 DEF tableVars, workVars
  <2>3. pc'[r] = AfterLink(r) /\ AfterLink(r) \in {"authorize_delete", "marked"}
    BY <1>3, <1>4 DEF Goto, TypeOK, AfterLink
  <2> HIDE DEF new
  <2>4. /\ put'[r].objects = put[r].objects \cup new.objects /\ put'[r].data = put[r].data \cup new.data
        /\ put'[r].items = put[r].items \cup new.items
    BY <1>3, <2>2, Inserted
  <2>5. put'[r].objects = put[r].objects /\ put'[r].data = put[r].data /\ put'[r].items = put[r].items \cup NewItems(r)
    BY <2>1, <2>4
  <2>6. Held(r)' = Held(r) /\ Gone(r)' = Gone(r) /\ NewOf(r)' = NewOf(r)
    BY <2>2, <2>5 DEF Held, Gone, NewOf
  <2>7. /\ CompositeIds(r)' = CompositeIds(r) /\ Subobjects(r)' = Subobjects(r)
        /\ \A x : AskedContents(r, x)' = AskedContents(r, x)
    BY <2>2 DEF CompositeIds, Composites, Subobjects, AskedContents, IdOf
  <2>8. \A l \in body[r].links : l \in Refs \X Refs /\ l[1] \in Composites(r)
    BY <1>1, OnlyCompositesHaveLinks DEF Upserting
  <2>9. \A l \in body[r].links : row(l) \in NewItems(r) /\ row(l).id = IdOf(r, l[1]) /\ row(l).sub = IdOf(r, l[2])
    BY DEF NewItems
  <2>10. \A i \in NewItems(r) : \E l \in body[r].links : i = row(l)
    BY DEF NewItems
  <2> HIDE DEF row
  <2>11. ASSUME NEW i \in NewItems(r)
         PROVE  i.id \in CompositeIds(r) /\ i.sub \in Subobjects(r)
    BY <2>8, <2>9, <2>10 DEF CompositeIds, Subobjects, Linked
  <2>12. HeldAreKnown(r)' /\ GivenOnce(r)'
    BY <1>3, <2>2, <2>3, <2>6 DEF WriterInv, HeldAreKnown, GivenOnce, Early
  <2>13. Unanswered(r)'
    BY <1>1, <1>3, <2>2 DEF WriterInv, Unanswered
  <2>14. SharedAreThere(r)'
    BY <1>1, <1>3, <1>4, <2>2, <2>3, <2>5, <2>6, <2>7, <2>11 DEF WriterInv, SharedAreThere
  <2>15. ContentsGoWithData(r)'
    BY <1>1, <1>3, <2>2, <2>3, <2>5, <2>6, <2>7, <2>11 DEF WriterInv, ContentsGoWithData, Late
  <2>16. AskedAreLinked(r)'
    <3>1. ASSUME NEW d \in put[r].data, d.table = "composite"
          PROVE  {i.sub : i \in {j \in put'[r].items : j.id = d.id}} = AskedContents(r, d.id)
      <4>1. d.id \in CompositeIds(r) /\ \A i \in put[r].items : i.id \notin CompositeIds(r)
        BY <1>1, <1>3, <3>1 DEF WriterInv, ContentsGoWithData
      <4>2. {j \in put'[r].items : j.id = d.id} = {j \in NewItems(r) : j.id = d.id}
        BY <2>5, <4>1
      <4>3. {i.sub : i \in {j \in NewItems(r) : j.id = d.id}} = AskedContents(r, d.id)
        BY <2>9, <2>10 DEF AskedContents
      <4> QED
        BY <4>2, <4>3
    <3> QED
      BY <2>3, <2>5, <2>7, <3>1 DEF AskedAreLinked
  <2>17. \A q \in Requests \ {r} : Gone(r)' \cap shared[q] = {} /\ Gone(q) \cap shared'[r] = {}
    BY <2>2, <2>6 DEF HInv, SharedAreSafe
  <2> QED
    BY <1>1, <1>3, <2>6, <2>12, <2>13, <2>14, <2>15, <2>16, <2>17, AloneKeeps DEF WriterInv
<1>5. ASSUME NEW x \in todo[r], Holders(r, x) = {}, RowsOf(Seen(r), x) # {},
             shared' = [shared EXCEPT ![r] = @ \cup {x}], todo' = [todo EXCEPT ![r] = @ \ {x}],
             UNCHANGED <<tableVars, pc, body, answer, put, cut, part, ids, checked, doomed, shown, feasible, changed>>
      PROVE  HInv'
  <2>1. shared'[r] = shared[r] \cup {x} /\ todo'[r] = todo[r] \ {x} /\ db' = db /\ UNCHANGED <<pc, body, answer, put, cut, part, ids>>
    BY <1>3, <1>5 DEF TypeOK, tableVars
  <2>2. Held(r)' = Held(r) /\ Gone(r)' = Gone(r) /\ NewOf(r)' = NewOf(r) /\ Seen(r)' = Seen(r)
    BY <2>1 DEF Held, Gone, NewOf, Seen
  <2>3. /\ CompositeIds(r)' = CompositeIds(r) /\ Subobjects(r)' = Subobjects(r)
        /\ \A y : AskedContents(r, y)' = AskedContents(r, y)
    BY <2>1 DEF CompositeIds, Composites, Subobjects, AskedContents, IdOf
  <2>4. x \in IdsOf(db.objects) \cup Held(r)
    BY <1>5, SeenRows DEF RowsOf, IdsOf, Held
  <2>5. \A q \in Requests \ {r} : x \notin Gone(q)
    BY <1>1, <1>5 DEF Holders
  <2>6. HeldAreKnown(r)' /\ GivenOnce(r)' /\ Unanswered(r)' /\ AskedAreLinked(r)'
    BY <1>1, <1>3, <2>1, <2>2 DEF WriterInv, HeldAreKnown, GivenOnce, Early, Unanswered, AskedAreLinked, Late
  <2>7. SharedAreThere(r)'
    BY <1>1, <1>3, <2>1, <2>2, <2>3, <2>4 DEF WriterInv, SharedAreThere, Late
  <2>8. ContentsGoWithData(r)'
    BY <1>1, <1>3, <2>1, <2>2, <2>3 DEF WriterInv, ContentsGoWithData
  <2>9. \A q \in Requests \ {r} : Gone(r)' \cap shared[q] = {} /\ Gone(q) \cap shared'[r] = {}
    BY <2>1, <2>2, <2>5 DEF HInv, SharedAreSafe
  <2> QED
    BY <1>1, <1>3, <2>2, <2>6, <2>7, <2>8, <2>9, AloneKeeps DEF WriterInv
<1> QED
  BY <1>2, <1>4, <1>5 DEF Link

LEMMA DeleteRowHolds ==
  ASSUME IInv, HInv, IInv', NEW r \in Requests, NEW x \in Ids, DeleteRow(r, x)
  PROVE  HInv'
<1> DEFINE old == [NoRows EXCEPT !.objects = RowsOf(Seen(r), x)]
<1>1. Open(r) /\ pc[r] = "delete" /\ Holders(r, x) = {}
  BY DEF DeleteRow, Open
<1>2. Alone(r)
  BY <1>1, DeleteIsAlone DEF Delete, Commit
<1>3. /\ Replace(r, old, NoRows) /\ Goto(r, IF todo[r] = {x} THEN "cascade" ELSE "delete")
      /\ UNCHANGED <<db, body, answer, shared, ids>>
  BY DEF DeleteRow, tableVars
<1>4. TypeOK /\ TypeOK' /\ WriterInv(r) /\ db' = db
  BY <1>3 DEF IInv, HInv
<1>5. /\ old.objects = RowsOf(Seen(r), x) /\ old.data = {} /\ old.items = {}
      /\ NoRows.objects = {} /\ NoRows.data = {} /\ NoRows.items = {}
  BY DEF NoRows
<1> HIDE DEF old
<1>6. /\ put'[r].objects = (put[r].objects \ old.objects) \cup NoRows.objects
      /\ cut'[r].objects = cut[r].objects \cup old.objects
  BY <1>3, <1>4, Replaced
<1>7. /\ put'[r].data = put[r].data /\ put'[r].items = put[r].items /\ cut'[r].items = cut[r].items
  BY <1>3, <1>4, <1>5, NotReplaced
<1>8. pc'[r] \in {"cascade", "delete"}
  BY <1>3, <1>4 DEF Goto, TypeOK
<1>9. Gone(r) \subseteq Gone(r)' /\ Gone(r)' \subseteq Gone(r) \cup {x} /\ Held(r) \subseteq Held(r)'
  BY <1>5, <1>6, SeenRows DEF Gone, Held, IdsOf, RowsOf
<1>10. Held(r)' \subseteq Held(r) \cup IdsOf(db.objects)
  BY <1>5, <1>6, SeenRows DEF Held, IdsOf, RowsOf
<1>11. /\ NewOf(r)' = NewOf(r) /\ CompositeIds(r)' = CompositeIds(r) /\ Subobjects(r)' = Subobjects(r)
       /\ \A y : AskedContents(r, y)' = AskedContents(r, y)
  BY <1>3 DEF NewOf, CompositeIds, Composites, Subobjects, AskedContents, IdOf
<1>12. HeldAreKnown(r)' /\ GivenOnce(r)'
  BY <1>3, <1>4, <1>8, <1>10, <1>11 DEF WriterInv, HeldAreKnown, GivenOnce, Early
<1>13. Unanswered(r)'
  BY <1>1, <1>3, <1>4 DEF WriterInv, Unanswered
<1>14. SharedAreThere(r)'
  BY <1>1, <1>3, <1>4, <1>7, <1>8, <1>9, <1>11 DEF WriterInv, SharedAreThere, Late
<1>15. ContentsGoWithData(r)'
  BY <1>1, <1>3, <1>4, <1>7, <1>8, <1>9, <1>11 DEF WriterInv, ContentsGoWithData, Late
<1>16. AskedAreLinked(r)'
  BY <1>1, <1>4, <1>7, <1>8, <1>11 DEF WriterInv, AskedAreLinked, Late
<1>17. \A q \in Requests \ {r} : Gone(r)' \cap shared[q] = {} /\ Gone(q) \cap shared'[r] = {}
  BY <1>1, <1>3, <1>9 DEF HInv, SharedAreSafe, Holders
<1> QED
  BY <1>2, <1>4, <1>11, <1>12, <1>13, <1>14, <1>15, <1>16, <1>17, AloneKeeps DEF WriterInv

LEMMA CascadeHolds ==
  ASSUME IInv, HInv, IInv', NEW r \in Requests, Cascade(r)
  PROVE  HInv'
<1> DEFINE old == RowsWith(Seen(r), Gone(r))
<1>1. Open(r) /\ pc[r] = "cascade"
  BY DEF Cascade, Open
<1>2. Alone(r)
  BY <1>1, DeleteIsAlone DEF Delete, Commit
<1>3. Replace(r, old, NoRows) /\ Goto(r, "commit") /\ UNCHANGED <<db, body, answer, shared, ids>>
  BY DEF Cascade, tableVars, workVars
<1>4. TypeOK /\ TypeOK' /\ WriterInv(r) /\ RequestInv(r) /\ db' = db
  BY <1>3 DEF IInv, HInv
<1>5. /\ old.objects = {o \in Seen(r).objects : o.id \in Gone(r)} /\ old.data = {d \in Seen(r).data : d.id \in Gone(r)}
      /\ old.items = {i \in Seen(r).items : i.id \in Gone(r) \/ i.sub \in Gone(r)}
      /\ NoRows.objects = {} /\ NoRows.data = {} /\ NoRows.items = {}
  BY DEF RowsWith, NoRows
<1> HIDE DEF old
<1>6. old.objects = {}
  BY <1>4, <1>5 DEF RequestInv, DeletesAreLast
<1>7. put'[r].objects = put[r].objects /\ cut'[r].objects = cut[r].objects
  BY <1>3, <1>4, <1>5, <1>6, NotReplaced
<1>8. /\ put'[r].data = put[r].data \ old.data /\ put'[r].items = put[r].items \ old.items
      /\ cut'[r].items = cut[r].items \cup old.items
      /\ Seen(r)'.items = Seen(r).items \ old.items
  <2>1. /\ put'[r].data = (put[r].data \ old.data) \cup NoRows.data /\ put'[r].items = (put[r].items \ old.items) \cup NoRows.items
        /\ cut'[r].items = cut[r].items \cup old.items
        /\ Seen(r)'.items = (Seen(r).items \ old.items) \cup NoRows.items
    BY <1>3, <1>4, Replaced
  <2> QED
    BY <1>5, <2>1
<1>9. pc'[r] = "commit"
  BY <1>3, <1>4 DEF Goto, TypeOK
<1>10. Gone(r)' = Gone(r) /\ Held(r)' = Held(r)
  BY <1>7 DEF Gone, Held
<1>11. /\ NewOf(r)' = NewOf(r) /\ CompositeIds(r)' = CompositeIds(r) /\ Subobjects(r)' = Subobjects(r)
       /\ \A y : AskedContents(r, y)' = AskedContents(r, y)
  BY <1>3 DEF NewOf, CompositeIds, Composites, Subobjects, AskedContents, IdOf
<1>12. HeldAreKnown(r)' /\ GivenOnce(r)'
  BY <1>3, <1>4, <1>9, <1>10, <1>11 DEF WriterInv, HeldAreKnown, GivenOnce, Early
<1>13. Unanswered(r)'
  BY <1>1, <1>3, <1>4 DEF WriterInv, Unanswered
<1>14. SharedAreThere(r)'
  BY <1>1, <1>3, <1>4, <1>8, <1>9, <1>10, <1>11 DEF WriterInv, SharedAreThere, Late
<1>15. put[r].items \subseteq Seen(r).items
  BY SeenRows
<1>16. ContentsGoWithData(r)'
  <2>1. \A x \in IdsOf(put[r].data) : x \in IdsOf(put'[r].data) \/ x \in Gone(r)
    BY <1>5, <1>8 DEF IdsOf
  <2>2. \A i \in put'[r].items : i \in put[r].items /\ i.id \notin Gone(r) /\ i.sub \notin Gone(r)
    BY <1>5, <1>8, <1>15
  <2>3. \A i \in Seen(r)'.items : i.sub \notin Gone(r)
    BY <1>5, <1>8
  <2>4. \A i \in cut'[r].items : i \in cut[r].items \/ i.id \in Gone(r) \/ i.sub \in Gone(r)
    BY <1>5, <1>8
  <2>5. \A i \in put'[r].items : i.id \in IdsOf(put'[r].data)
    BY <1>4, <2>1, <2>2 DEF WriterInv, ContentsGoWithData
  <2>6. \A i \in cut'[r].items : i.id \in IdsOf(put'[r].data) \cup Gone(r) \/ i.sub \in Gone(r)
    BY <1>4, <2>1, <2>4 DEF WriterInv, ContentsGoWithData
  <2>7. \A d \in put'[r].data :
           /\ d.by = r
           /\ d.table = "composite" =>
                 /\ pc'[r] \in Late \cup {"link"} /\ body[r].route # "delete" /\ d.id \in CompositeIds(r)
                 /\ \A i \in db.items : i.id = d.id => i \in cut'[r].items
    BY <1>4, <1>8, <1>9 DEF WriterInv, ContentsGoWithData, Late
  <2> QED
    BY <1>3, <1>9, <1>10, <1>11, <2>3, <2>5, <2>6, <2>7 DEF ContentsGoWithData
<1>17. AskedAreLinked(r)'
  <2>1. ASSUME NEW d \in put'[r].data, d.table = "composite"
        PROVE  {i.sub : i \in {j \in put'[r].items : j.id = d.id}} = AskedContents(r, d.id) \ Gone(r)
    <3>1. d \in put[r].data /\ d.id \notin Gone(r)
      BY <1>5, <1>8, SeenRows, <2>1
    <3>2. {i.sub : i \in {j \in put[r].items : j.id = d.id}} = AskedContents(r, d.id)
      BY <1>1, <1>4, <2>1, <3>1 DEF WriterInv, AskedAreLinked, Late
    <3>3. \A i \in put[r].items : i.id = d.id => (i \in put'[r].items <=> i.sub \notin Gone(r))
      BY <1>5, <1>8, <1>15, <3>1
    <3>4. put'[r].items \subseteq put[r].items
      BY <1>8
    <3> QED
      BY <3>2, <3>3, <3>4
  <2> QED
    BY <1>9, <1>10, <1>11, <2>1 DEF AskedAreLinked
<1>18. \A q \in Requests \ {r} : Gone(r)' \cap shared[q] = {} /\ Gone(q) \cap shared'[r] = {}
  BY <1>3, <1>10 DEF HInv, SharedAreSafe
<1> QED
  BY <1>2, <1>4, <1>11, <1>12, <1>13, <1>14, <1>16, <1>17, <1>18, AloneKeeps DEF WriterInv

\* What a request sees of the objects: what is committed or its own, less what it deletes.
LEMMA SeenIds ==
  ASSUME IInv, NEW r \in Requests
  PROVE  IdsOf(Seen(r).objects) = (IdsOf(db.objects) \cup Held(r)) \ Gone(r)
<1>1. ASSUME NEW x \in IdsOf(Seen(r).objects)
      PROVE  x \in IdsOf(db.objects) \cup Held(r) /\ x \notin Gone(r)
  BY SeenRows DEF IdsOf, Held, IInv, RequestInv, DeletesAreLast
<1>2. ASSUME NEW x \in IdsOf(db.objects) \cup Held(r), x \notin Gone(r)
      PROVE  x \in IdsOf(Seen(r).objects)
  BY <1>2, SeenRows DEF IdsOf, Held, Gone
<1> QED
  BY <1>1, <1>2

\* The transaction that commits.
LEMMA Committing ==
  ASSUME IInv, HInv, IInv', NEW r \in Requests, Commit(r)
  PROVE  /\ pc[r] = "commit" /\ Open(r) /\ db' = Seen(r)
         /\ \A d, e \in Seen(r).data : d.id = e.id => d = e
         /\ \A i \in Seen(r).items : i.sub \in IdsOf(Seen(r).objects) \cup {0}
         /\ \A d \in Seen(r).data : d.id \notin Gone(r)
         /\ \A d \in Seen(r).data, i \in put[r].items : i.id = d.id => d \in put[r].data
         /\ \A d \in Seen(r).data, i \in cut[r].items : i.id = d.id => d \in put[r].data \/ i.sub \in Gone(r)
<1>1. pc[r] = "commit" /\ Open(r) /\ db' = Seen(r) /\ WriterInv(r)
  BY DEF Commit, Open, HInv
<1>2. ASSUME NEW d \in Seen(r).data, NEW e \in Seen(r).data, d.id = e.id
      PROVE  d = e
  <2>1. d.id \in Ids /\ \A x \in Ids : WholeAt(Seen(r), x)
    BY <1>1 DEF IInv, TypeOK, Tables, DataRow
  <2> QED
    BY <1>2, <2>1 DEF WholeAt, NothingAt, ObjectAt
<1>3. ASSUME NEW i \in Seen(r).items
      PROVE  i.sub \in IdsOf(Seen(r).objects) \cup {0}
  <2>1. i.sub \notin Gone(r)
    BY <1>1 DEF WriterInv, ContentsGoWithData
  <2>2. i.sub \in IdsOf(db.objects) \cup Held(r) \cup {0}
    BY <1>1, SeenRows DEF WriterInv, SharedAreThere, HInv, CommittedAreDone
  <2> QED
    BY <2>1, <2>2, SeenIds
<1>4. \A d \in Seen(r).data : d.id \notin Gone(r)
  BY <1>1 DEF IInv, RequestInv, DeletesAreLast, NothingAt
<1>5. \A x \in IdsOf(put[r].data), d \in Seen(r).data : d.id = x => d \in put[r].data
  BY <1>2, SeenRows DEF IdsOf
<1> QED
  BY <1>1, <1>2, <1>3, <1>4, <1>5 DEF WriterInv, ContentsGoWithData

\* What was asked for an object that r has written.
LEMMA AskedAreShared ==
  ASSUME IInv, HInv, NEW r \in Requests, pc[r] = "commit",
         NEW d \in put[r].data, d.table = "composite", NEW x \in AskedContents(r, d.id)
  PROVE  /\ x \in IdsOf(db.objects) \cup Held(r) /\ x \in IdsOf(db.objects) \cup NewOf(r)
         /\ x \in 1 .. lastId
<1>1. WriterInv(r) /\ Subobjects(r) \subseteq shared[r]
  BY DEF HInv, WriterInv, ContentsGoWithData, SharedAreThere, Late
<1>2. x \in Subobjects(r)
  BY DEF AskedContents, Subobjects, Linked
<1>3. x \in IdsOf(db.objects) \cup Held(r) /\ x \in IdsOf(db.objects) \cup NewOf(r)
  BY <1>1, <1>2 DEF WriterInv, SharedAreThere, HeldAreKnown
<1>4. \A y \in IdsOf(db.objects) \cup Held(r) : y \in Ids /\ y <= lastId
  BY DEF IInv, IdsAreTaken, TypeOK, Tables, ObjectRow, IdsOf, Held
<1>5. lastId \in Int
  BY DEF IInv, TypeOK
<1> QED
  BY <1>3, <1>4, <1>5 DEF Ids

LEMMA CommittedContents ==
  ASSUME IInv, HInv, IInv', NEW r \in Requests, Commit(r),
         NEW d \in Seen(r).data, d.table = "composite", NEW q \in Requests, d.by = q
  PROVE  {i.sub : i \in {j \in Seen(r).items : j.id = d.id}} = AskedContents(q, d.id) \cap IdsOf(Seen(r).objects)
<1>1. /\ pc[r] = "commit" /\ Open(r)
      /\ d.id \notin Gone(r)
      /\ \A i \in put[r].items : i.id = d.id => d \in put[r].data
      /\ \A i \in cut[r].items : i.id = d.id => d \in put[r].data \/ i.sub \in Gone(r)
  BY Committing
<1>2. WriterInv(r) /\ IdsOf(Seen(r).objects) = (IdsOf(db.objects) \cup Held(r)) \ Gone(r)
  BY SeenIds DEF HInv
<1>3. CASE d \in put[r].data
  <2>1. q = r /\ \A i \in db.items : i.id = d.id => i \in cut[r].items
    BY <1>2, <1>3 DEF WriterInv, ContentsGoWithData
  <2>2. {j \in Seen(r).items : j.id = d.id} = {j \in put[r].items : j.id = d.id}
    BY <2>1, SeenRows
  <2>3. {i.sub : i \in {j \in put[r].items : j.id = d.id}} = AskedContents(r, d.id) \ Gone(r)
    BY <1>1, <1>2, <1>3 DEF WriterInv, AskedAreLinked, Late
  <2>4. AskedContents(r, d.id) \subseteq IdsOf(db.objects) \cup Held(r)
    BY <1>1, <1>3, AskedAreShared
  <2> QED
    BY <1>2, <2>1, <2>2, <2>3, <2>4
<1>4. CASE d \notin put[r].data
  <2>1. d \in db.data
    BY <1>4, SeenRows
  <2>2. /\ {i.sub : i \in {j \in db.items : j.id = d.id}} = AskedContents(q, d.id) \cap IdsOf(db.objects)
        /\ \A x \in AskedContents(q, d.id) : x \notin NewOf(r)
    BY <1>1, <2>1 DEF HInv, CommittedAreDone
  <2>3. \A i \in Seen(r).items : i.sub \notin Gone(r)
    BY <1>1, <1>2 DEF WriterInv, ContentsGoWithData
  <2>4. \A i : i.id = d.id => (i \in Seen(r).items <=> i \in db.items /\ i.sub \notin Gone(r))
    BY <1>1, <1>4, <2>3, SeenRows
  <2>5. {i.sub : i \in {j \in Seen(r).items : j.id = d.id}} = {i.sub : i \in {j \in db.items : j.id = d.id}} \ Gone(r)
    BY <2>4
  <2>6. Held(r) \subseteq IdsOf(db.objects) \cup NewOf(r)
    BY <1>2 DEF WriterInv, HeldAreKnown
  <2> QED
    BY <1>2, <2>2, <2>5, <2>6
<1> QED
  BY <1>3, <1>4

LEMMA CommitHolds ==
  ASSUME IInv, HInv, IInv', NEW r \in Requests, Commit(r)
  PROVE  HInv'
<1>1. pc[r] = "commit" /\ Open(r) /\ db' = Seen(r)
  BY Committing
<1>2. /\ UNCHANGED <<hidden, lastId, ids, body>>
      /\ pc' = [pc EXCEPT ![r] = "done"] /\ answer' = [answer EXCEPT ![r] = 200]
      /\ put' = [put EXCEPT ![r] = NoRows] /\ cut' = [cut EXCEPT ![r] = NoRows] /\ shared' = [shared EXCEPT ![r] = {}]
      /\ part' = [part EXCEPT ![r] = "main"] /\ todo' = [todo EXCEPT ![r] = {}]
  BY DEF Commit, End, Goto
<1>3. /\ pc'[r] = "done" /\ put'[r] = NoRows /\ cut'[r] = NoRows /\ shared'[r] = {}
      /\ \A q \in Requests \ {r} :
            /\ pc'[q] = pc[q] /\ answer'[q] = answer[q] /\ put'[q] = put[q] /\ cut'[q] = cut[q] /\ shared'[q] = shared[q]
            /\ part'[q] = part[q] /\ todo'[q] = todo[q]
  BY <1>2 DEF IInv, TypeOK
<1>4. WriterInv(r)' /\ Gone(r)' = {} /\ Held(r)' = {}
  BY <1>3, EndedHolds
<1>5. /\ \A q \in Requests : NewOf(q)' = NewOf(q) /\ \A x : AskedContents(q, x)' = AskedContents(q, x)
      /\ \A q \in Requests : Open(q)' => Open(q) /\ q # r
  BY <1>2, <1>3 DEF NewOf, AskedContents, IdOf, Open
<1>6. /\ IdsOf(db'.objects) = (IdsOf(db.objects) \cup Held(r)) \ Gone(r)
      /\ Held(r) \subseteq IdsOf(db.objects) \cup NewOf(r)
  BY <1>1, SeenIds DEF HInv, WriterInv, HeldAreKnown
<1>7. 0 \notin IdsOf(db'.objects) /\ \A q \in Requests : 0 \notin Gone(q)
  BY DEF IInv, TypeOK, Tables, ObjectRow, Ids, IdsOf, Gone
<1>8. IdsAreFresh'
  <2>1. ASSUME NEW q \in Requests, Open(q)', NEW x \in NewOf(q)
        PROVE  x \notin IdsOf(db'.objects)
    BY <1>5, <1>6, <1>7, <2>1 DEF HInv, IdsAreFresh
  <2>2. \A q \in Requests : pc'[q] = "new" => pc[q] = "new"
    BY <1>3
  <2> QED
    BY <1>2, <1>5, <2>1, <2>2 DEF HInv, IdsAreFresh
<1>9. \A q \in Requests \ {r} : Gone(q)' = Gone(q) /\ Held(q)' = Held(q)
  BY <1>3 DEF Gone, Held
<1>10. SharedAreSafe'
  BY <1>3, <1>4, <1>9 DEF HInv, SharedAreSafe
<1>11. CommittedAreDone'
  <2>1. \A i \in db'.items : i.sub \in IdsOf(db'.objects) \cup {0}
    BY <1>1, Committing
  <2>2. ASSUME NEW d \in db'.data, NEW q \in Requests, d.by = q
        PROVE  pc'[q] = "done" /\ (d \in put[r].data => q = r)
    <3>1. d \in put[r].data \/ d \in db.data
      BY <1>1, SeenRows
    <3> QED
      BY <1>3, <2>2, <3>1 DEF HInv, WriterInv, ContentsGoWithData, CommittedAreDone
  <2>3. ASSUME NEW d \in db'.data, NEW q \in Requests, d.by = q, d.table = "composite", NEW x \in AskedContents(q, d.id)
        PROVE  x \in 1 .. lastId /\ \A p \in Requests : Open(p)' => x \notin NewOf(p)
    <3>1. CASE d \in put[r].data
      <4>1. q = r /\ x \in IdsOf(db.objects) \cup NewOf(r) /\ x \in 1 .. lastId
        BY <1>1, <2>2, <2>3, <3>1, AskedAreShared
      <4>2. x # 0
        BY <4>1
      <4> QED
        BY <1>5, <4>1, <4>2 DEF HInv, IdsAreFresh
    <3>2. CASE d \in db.data
      BY <1>5, <2>3, <3>2 DEF HInv, CommittedAreDone
    <3> QED
      BY <1>1, <3>1, <3>2, SeenRows
  <2>4. ASSUME NEW d \in db'.data, NEW q \in Requests, d.by = q, d.table = "composite"
        PROVE  {i.sub : i \in {j \in db'.items : j.id = d.id}} = AskedContents(q, d.id) \cap IdsOf(db'.objects)
    BY <1>1, <2>4, CommittedContents
  <2> QED
    BY <1>2, <1>5, <2>1, <2>2, <2>3, <2>4 DEF CommittedAreDone
<1>12. ASSUME NEW q \in Requests \ {r}
       PROVE  WriterInv(q)'
  <2>1. WriterInv(q) /\ Held(q) \cap Held(r) = {} /\ Gone(q)' = Gone(q) /\ Held(q)' = Held(q) /\ NewOf(q)' = NewOf(q)
    BY <1>5, <1>9 DEF HInv, IInv, RowsAreLocked
  <2>2. /\ \A c : IdOf(q, c)' = IdOf(q, c)
        /\ Composites(q)' = Composites(q) /\ Pieces(q)' = Pieces(q) /\ Typed(q)' = Typed(q)
        /\ CompositeIds(q)' = CompositeIds(q) /\ Subobjects(q)' = Subobjects(q)
    BY <1>2, <1>3 DEF IdOf, Composites, Pieces, Typed, CompositeIds, Subobjects
  <2>3. Gone(r) \subseteq Held(r)
    BY DEF Gone, Held
  <2>4. HeldAreKnown(q)'
    BY <1>6, <2>1, <2>3 DEF WriterInv, HeldAreKnown
  <2>5. GivenOnce(q)' /\ Unanswered(q)'
    BY <1>2, <1>3, <2>1, <2>2 DEF WriterInv, GivenOnce, Unanswered
  <2>6. SharedAreThere(q)'
    <3>1. shared[q] \cap Gone(r) = {}
      BY DEF HInv, SharedAreSafe
    <3>2. shared[q] \subseteq IdsOf(db'.objects) \cup Held(q)
      BY <1>6, <2>1, <3>1 DEF WriterInv, SharedAreThere
    <3> QED
      BY <1>2, <1>3, <2>1, <2>2, <3>2 DEF WriterInv, SharedAreThere
  <2>7. ContentsGoWithData(q)'
    <3>1. /\ IdsOf(put[r].data) \subseteq Held(r) /\ IdsOf(put[q].data) \subseteq Held(q)
          /\ \A i \in put[r].items : i.id \in IdsOf(put[r].data) /\ i.sub \in shared[r] \cup {0}
      BY DEF HInv, WriterInv, ContentsGoWithData, SharedAreThere, IInv, RequestInv, WritesAreHeld
    <3>2. \A d \in put[q].data : d.table = "composite" => \A i \in db'.items : i.id = d.id => i \in cut[q].items
      <4>1. \A i \in db'.items : i \in db.items \/ i \in put[r].items
        BY <1>1, SeenRows
      <4>2. \A d \in put[q].data, i \in put[r].items : i.id # d.id
        BY <2>1, <3>1 DEF IdsOf
      <4> QED
        BY <2>1, <4>1, <4>2 DEF WriterInv, ContentsGoWithData
    <3>3. pc[q] = "commit" => \A i \in Seen(q)'.items : i.sub \notin Gone(q)
      <4>1. \A i \in Seen(q)'.items : i \in Seen(q).items \/ i \in put[r].items
        BY <1>1, <1>3, SeenRows DEF Seen, Plus, Less
      <4>2. \A i \in put[r].items : i.sub \notin Gone(q)
        BY <1>7, <3>1 DEF HInv, SharedAreSafe
      <4> QED
        BY <2>1, <4>1, <4>2 DEF WriterInv, ContentsGoWithData
    <3> QED
      BY <1>2, <1>3, <2>1, <2>2, <3>2, <3>3 DEF WriterInv, ContentsGoWithData
  <2>8. AskedAreLinked(q)'
    BY <1>3, <1>5, <2>1 DEF WriterInv, AskedAreLinked
  <2> QED
    BY <2>4, <2>5, <2>6, <2>7, <2>8 DEF WriterInv
<1> QED
  BY <1>4, <1>8, <1>10, <1>11, <1>12 DEF HInv

\* Tags, and steps of nothing.
LEMMA RetagHolds ==
  ASSUME IInv, HInv, hidden' \subseteq hidden \cup IdsOf(db.objects),
         UNCHANGED <<db, lastId, pc, body, answer, writeVars, workVars>>
  PROVE  HInv'
<1> USE DEF writeVars, workVars
<1>1. ASSUME NEW r \in Requests
      PROVE  /\ Seen(r)' = Seen(r) /\ Held(r)' = Held(r) /\ Gone(r)' = Gone(r) /\ NewOf(r)' = NewOf(r)
             /\ CompositeIds(r)' = CompositeIds(r) /\ Subobjects(r)' = Subobjects(r)
             /\ Pieces(r)' = Pieces(r) /\ Typed(r)' = Typed(r) /\ Open(r)' = Open(r)
             /\ \A y : AskedContents(r, y)' = AskedContents(r, y)
  BY DEF Seen, Held, Gone, NewOf, CompositeIds, Composites, Subobjects, Pieces, Typed, Open, AskedContents, IdOf
<1>2. \A x \in IdsOf(db.objects) : x <= lastId
  BY DEF IInv, IdsAreTaken, IdsOf
<1>3. IdsAreFresh'
  BY <1>1, <1>2 DEF HInv, IdsAreFresh
<1>4. SharedAreSafe' /\ CommittedAreDone'
  BY <1>1 DEF HInv, SharedAreSafe, CommittedAreDone
<1>5. ASSUME NEW r \in Requests
      PROVE  WriterInv(r)'
  <2>1. WriterInv(r)
    BY DEF HInv
  <2>2. HeldAreKnown(r)' /\ GivenOnce(r)' /\ Unanswered(r)' /\ AskedAreLinked(r)'
    BY <1>1, <2>1 DEF WriterInv, HeldAreKnown, GivenOnce, Unanswered, AskedAreLinked
  <2>3. SharedAreThere(r)' /\ ContentsGoWithData(r)'
    BY <1>1, <2>1 DEF WriterInv, SharedAreThere, ContentsGoWithData
  <2> QED
    BY <2>2, <2>3 DEF WriterInv
<1> QED
  BY <1>3, <1>4, <1>5 DEF HInv

LEMMA LossIsRefusal ==
  ASSUME NEW r \in Requests, AbortDeadlocked(r) \/ Fail(r)
  PROVE  Open(r) /\ Refuse(r, Lost)
<1>1. Refuse(r, Lost)
  BY DEF AbortDeadlocked, Fail
<1>2. CASE Fail(r)
  BY <1>1, <1>2 DEF Fail
<1>3. CASE Deadlocked(r)
  <2>1. PICK q \in Requests : WaitsFor(r, q)
    BY <1>3 DEF Deadlocked
  <2>2. pc[r] \in {"update", "delete", "link", "unlink", "cascade"}
    BY <2>1 DEF WaitsFor, Holders
  <2> QED
    BY <1>1, <2>2 DEF Open
<1> QED
  BY <1>2, <1>3 DEF AbortDeadlocked

LEMMA HistoryStarts == Init => HInv
<1> SUFFICES ASSUME Init PROVE HInv
  OBVIOUS
<1> USE DEF Init
<1>1. \A r \in Requests : /\ pc[r] = "new" /\ put[r] = NoRows /\ cut[r] = NoRows /\ shared[r] = {} /\ answer[r] = 0
                          /\ \A c \in NewIds : ids[r][c] = 0
  OBVIOUS
<1>2. \A r \in Requests : Held(r) = {} /\ Gone(r) = {} /\ ~ Open(r) /\ \A x \in NewOf(r) : x = 0
  BY <1>1 DEF Held, Gone, IdsOf, NoRows, Open, NewOf
<1>3. IdsAreFresh /\ SharedAreSafe
  BY <1>1, <1>2, ObjectAssumption DEF IdsAreFresh, SharedAreSafe
<1>4. CommittedAreDone
  BY <1>1, FirstIsWhole, ObjectAssumption DEF CommittedAreDone
<1>5. ASSUME NEW r \in Requests
      PROVE  WriterInv(r)
  <2>1. HeldAreKnown(r) /\ GivenOnce(r) /\ Unanswered(r)
    BY <1>1, <1>2 DEF HeldAreKnown, GivenOnce, Unanswered
  <2>2. SharedAreThere(r) /\ ContentsGoWithData(r) /\ AskedAreLinked(r)
    BY <1>1 DEF SharedAreThere, ContentsGoWithData, AskedAreLinked, NoRows, Late
  <2> QED
    BY <2>1, <2>2 DEF WriterInv
<1> QED
  BY <1>3, <1>4, <1>5 DEF HInv

LEMMA HistoryHolds == IInv /\ HInv /\ [Next]_vars => HInv'
<1> SUFFICES ASSUME IInv, HInv, [Next]_vars PROVE HInv'
  OBVIOUS
<1>1. IInv'
  BY Preserved
<1>2. ASSUME NEW r \in Requests, Upsert(r)
      PROVE  HInv'
  BY <1>1, <1>2, InsertHolds, ReadsHold, WriteHolds, UpdateHolds, UnlinkHolds, LinkHolds DEF Upsert
<1>3. ASSUME NEW r \in Requests, Delete(r)
      PROVE  HInv'
  BY <1>1, <1>3, ReadsHold, DeleteRowHolds, CascadeHolds, CommitHolds DEF Delete
<1>4. ASSUME NEW r \in Requests, AbortDeadlocked(r) \/ Fail(r)
      PROVE  HInv'
  BY <1>1, <1>4, LossIsRefusal, RefuseHolds
<1>5. ASSUME NEW x \in Taggable, Retag(x)
      PROVE  HInv'
  BY <1>5, RetagHolds DEF Retag
<1>6. CASE UNCHANGED vars
  BY <1>6, RetagHolds DEF vars, tableVars
<1> QED
  BY <1>1, <1>2, <1>3, <1>4, <1>5, <1>6, BeginHolds, ReadsHold DEF Next, Work

\* Every state a run of requests reaches satisfies the invariant of contents and new ids.
THEOREM HistoryInvariant == Spec => [](IInv /\ HInv)
<1>1. Init => IInv /\ HInv
  BY Initially, HistoryStarts
<1>2. (IInv /\ HInv) /\ [Next]_vars => (IInv /\ HInv)'
  BY Preserved, HistoryHolds
<1> QED
  BY <1>1, <1>2, PTL DEF Spec

\* A composite object contains what its last writer asked for, new sub-objects by the ids
\* they were given, less what was deleted since: however upsert_composite_object_data,
\* deletions and their cascades meet.
THEOREM ContentsAsAsked == Spec => []ContentsAreAsAsked
<1>1. IInv /\ HInv => ContentsAreAsAsked
  <2> SUFFICES ASSUME HInv PROVE ContentsAreAsAsked
    OBVIOUS
  <2>1. ASSUME NEW d \in db.data, d.table = "composite", NEW r \in Requests, d.by = r
        PROVE  {i.sub : i \in {j \in db.items : j.id = d.id}} = AskedContents(r, d.id) \cap IdsOf(db.objects)
    BY <2>1 DEF HInv, CommittedAreDone
  <2> QED
    BY <2>1 DEF ContentsAreAsAsked, AskedContents
<1> QED
  BY <1>1, HistoryInvariant, PTL

-----------------------------------------------------------------------------
(* The store of documents *)

\* The tables as documents, object by object.
ContentsAt(t, x) == {i.sub : i \in {j \in t.items : j.id = x}} \ {0}
DocumentAt(t, x) ==
    IF x \notin IdsOf(t.objects) THEN NoSpec
    ELSE [type |-> (CHOOSE o \in t.objects : o.id = x).type,
          contents |-> ContentsAt(t, x),
          by |-> (CHOOSE d \in t.data : d.id = x).by]
DocumentsOf(t) == [x \in Ids |-> DocumentAt(t, x)]

\* Tables that can be read so.
Readable(t) ==
    /\ t \in Tables /\ \A x \in Ids : WholeAt(t, x)
    /\ \A i \in t.items : i.sub \in IdsOf(t.objects) \cup {0}

LEMMA DocumentIs ==
  ASSUME NEW t, NEW x, NEW o \in t.objects, NEW d \in t.data, ObjectAt(t, x, o, d)
  PROVE  /\ x \in IdsOf(t.objects)
         /\ DocumentAt(t, x) = [type |-> o.type, contents |-> ContentsAt(t, x), by |-> d.by]
<1>1. x \in IdsOf(t.objects)
  BY DEF ObjectAt, IdsOf
<1>2. (CHOOSE p \in t.objects : p.id = x) = o
  BY DEF ObjectAt
<1>3. (CHOOSE e \in t.data : e.id = x) = d
  BY DEF ObjectAt
<1> QED
  BY <1>1, <1>2, <1>3 DEF DocumentAt

\* An object and its data.
LEMMA ReadObject ==
  ASSUME NEW t, Readable(t), NEW x \in IdsOf(t.objects)
  PROVE  x \in Ids /\ \E o \in t.objects, d \in t.data : ObjectAt(t, x, o, d)
<1>1. x \in Ids
  BY DEF Readable, Tables, ObjectRow, IdsOf
<1> QED
  BY <1>1 DEF Readable, WholeAt, NothingAt, IdsOf

LEMMA DocumentsAreTyped ==
  ASSUME NEW t, Readable(t)
  PROVE  /\ DocumentsOf(t) \in [Ids -> Store!Doc \cup {NoSpec}]
         /\ Store!Present(DocumentsOf(t)) = IdsOf(t.objects)
         /\ \A x \in IdsOf(t.objects) : x \in Ids /\ DocumentsOf(t)[x] = DocumentAt(t, x)
         /\ \A x \in IdsOf(t.objects) : DocumentsOf(t)[x].contents \subseteq IdsOf(t.objects)
<1>1. ASSUME NEW x \in IdsOf(t.objects)
      PROVE  /\ x \in Ids /\ DocumentAt(t, x) \in Store!Doc
             /\ DocumentAt(t, x).contents \subseteq IdsOf(t.objects)
  <2>1. PICK o \in t.objects, d \in t.data : ObjectAt(t, x, o, d)
    BY ReadObject
  <2> DEFINE doc == [type |-> o.type, contents |-> ContentsAt(t, x), by |-> d.by]
  <2>2. DocumentAt(t, x) = doc
    BY <2>1, DocumentIs
  <2>3. ContentsAt(t, x) \subseteq IdsOf(t.objects)
    BY DEF Readable, ContentsAt
  <2>4. o.type \in Types /\ d.by \in Writers /\ IdsOf(t.objects) \subseteq Ids
    BY DEF Readable, Tables, ObjectRow, DataRow, IdsOf
  <2>5. doc \in Store!Doc /\ doc.contents = ContentsAt(t, x)
    BY <2>3, <2>4 DEF Store!Doc, Writers
  <2> HIDE DEF doc
  <2> QED
    BY <2>2, <2>3, <2>4, <2>5
<1>2. \A x \in Ids : x \notin IdsOf(t.objects) => DocumentAt(t, x) = NoSpec
  BY DEF DocumentAt
<1>3. \A x \in Ids : DocumentsOf(t)[x] = DocumentAt(t, x)
  BY DEF DocumentsOf
<1>4. DocumentsOf(t) \in [Ids -> Store!Doc \cup {NoSpec}]
  <2>1. \A x \in Ids : DocumentAt(t, x) \in Store!Doc \cup {NoSpec}
    BY <1>1, <1>2
  <2> QED
    BY <2>1 DEF DocumentsOf
<1>5. Store!Present(DocumentsOf(t)) = IdsOf(t.objects)
  BY <1>1, <1>2, <1>3, MarkerAssumption DEF Store!Present
<1> QED
  BY <1>1, <1>3, <1>4, <1>5

LEMMA CommittedIsReadable ==
  ASSUME IInv, HInv
  PROVE  Readable(db)
  BY DEF IInv, TypeOK, HInv, CommittedAreDone, Readable

LEMMA DocumentsAreDocuments == Documents = DocumentsOf(db)
  BY DEF Documents, DocumentsOf, DocumentAt, ContentsAt

\* The requests that have taken effect.
Saved == {r \in Requests : answer[r] = 200 /\ body[r].route # "view"}

\* The steps of requests that commit nothing.
Other(r) ==
    \/ Begin(r) \/ Upsert(r) \/ (Delete(r) /\ ~ Commit(r)) \/ View(r)
    \/ AbortDeadlocked(r) \/ Fail(r)

LEMMA OthersWaste ==
  ASSUME IInv, HInv, IInv', NEW r \in Requests, Other(r)
  PROVE  /\ Alone(r)
         /\ \A x \in NewOf(r)' : x \in NewOf(r) \cup {0} \/ lastId < x
         /\ answer'[r] = 200 => body'[r].route = "view"
<1>1. Alone(r)
  BY BeginIsAlone, UpsertIsAlone, DeleteIsAlone, ViewIsAlone, LossIsRefusal, RefuseIsAlone DEF Other
<1> SUFFICES /\ \A x \in NewOf(r)' : x \in NewOf(r) \cup {0} \/ lastId < x
             /\ answer'[r] = 200 => body'[r].route = "view"
  BY <1>1
<1>2. /\ pc \in [Requests -> Step] /\ body \in [Requests -> Body] /\ ids \in [Requests -> [NewIds -> Ids \cup {0}]]
      /\ answer \in [Requests -> Answers] /\ answer[r] = 0
  BY <1>1 DEF IInv, TypeOK, Answers, HInv, WriterInv, Unanswered, Alone
<1>3. ASSUME NEW status, status # 200 \/ (status = 200 /\ FinishView(r)), Refuse(r, status)
      PROVE  /\ \A x \in NewOf(r)' : x = 0
             /\ answer'[r] = 200 => body'[r].route = "view"
  <2>1. ids'[r] = [c \in NewIds |-> 0] /\ answer'[r] = status /\ body' = body
    BY <1>2, <1>3 DEF Refuse, End
  <2>2. FinishView(r) => body[r].route = "view"
    <3>1. FinishView(r) => pc[r] = "rows" /\ Open(r)
      BY DEF FinishView, Open
    <3>2. body[r].route \in Routes
      BY <1>2 DEF Body
    <3> QED
      BY <3>1, <3>2 DEF IInv, RequestInv, RouteShape, StepsOf, Routes
  <2> QED
    BY <1>3, <2>1, <2>2 DEF NewOf
<1>4. ASSUME ids' = ids, answer' = answer
      PROVE  /\ \A x \in NewOf(r)' : x \in NewOf(r)
             /\ answer'[r] = 200 => body'[r].route = "view"
  BY <1>2, <1>4 DEF NewOf
<1>5. Lost # 200
  BY DEF Lost
<1>6. CASE Begin(r)
  <2>1. ids' = ids /\ answer'[r] \in {0, 401, 403}
    <3>1. PICK b \in Bodies :
              IF RouteRefusal(b) # 0 THEN answer' = [answer EXCEPT ![r] = RouteRefusal(b)] ELSE UNCHANGED answer
      BY <1>6 DEF Begin
    <3> QED
      BY <1>2, <1>6, <3>1 DEF Begin, RouteRefusal
  <2> QED
    BY <2>1 DEF NewOf
<1>7. CASE Upsert(r)
  <2>1. CASE InsertObjects(r) /\ ~ Refuse(r, 403)
    <3>1. /\ \A c \in NewIds : ids'[r][c] = ids[r][c] \/ lastId < ids'[r][c]
          /\ answer' = answer
      <4>1. LET new == Pieces(r) \cap NewIds IN
            /\ \A c \in NewIds : ids'[r][c] = IF c \in new THEN lastId + Rank(c, new) ELSE ids[r][c]
            /\ \A c \in new : lastId < ids'[r][c] /\ ids'[r][c] <= lastId'
            /\ answer' = answer
        BY <2>1, InsertWrites
      <4> QED
        BY <4>1
    <3> QED
      BY <1>2, <3>1 DEF NewOf
  <2>2. CASE \E status \in {400, 403, 500} : Refuse(r, status)
    BY <1>3, <2>2
  <2>3. CASE ~ InsertObjects(r) /\ ~ \E status \in {400, 403, 500} : Refuse(r, status)
    <3>1. UNCHANGED <<ids, answer>>
      <4>1. CASE Authorize(r) \/ CheckExisting(r) \/ WriteData(r) \/ CheckSubobjects(r) \/ FindMarked(r)
        BY <2>3, <4>1 DEF Authorize, CheckExisting, WriteData, CheckSubobjects, FindMarked, writeVars, workVars
      <4>2. CASE \E x \in Ids : UpdateObject(r, x)
        BY <2>3, <4>2, UpdateWrites
      <4>3. CASE Unlink(r) \/ Link(r)
        BY <2>3, <4>3 DEF Unlink, Link, workVars
      <4> QED
        BY <1>7, <2>3, <4>1, <4>2, <4>3 DEF Upsert
    <3> QED
      BY <1>4, <3>1
  <2> QED
    BY <2>1, <2>2, <2>3
<1>8. CASE Delete(r) /\ ~ Commit(r)
  <2>1. Refuse(r, 403) \/ UNCHANGED <<ids, answer>>
    BY <1>8 DEF Delete, FindSubobjects, FindExclusive, AuthorizeDelete, DeleteRow, Cascade, workVars
  <2> QED
    BY <1>3, <1>4, <2>1
<1>9. CASE View(r)
  <2>1. (\E status \in {400, 500, 404} : Refuse(r, status)) \/ (FinishView(r) /\ Refuse(r, 200)) \/ UNCHANGED <<ids, answer>>
    BY <1>9 DEF View, ViewAttributes, ViewTypes, ViewRows, ViewItems, FinishView, ViewUnchanged
  <2> QED
    BY <1>3, <1>4, <2>1
<1>10. CASE AbortDeadlocked(r) \/ Fail(r)
  BY <1>3, <1>5, <1>10, LossIsRefusal
<1> QED
  BY <1>1, <1>6, <1>7, <1>8, <1>9, <1>10 DEF Other

\* The ids that are past, request by request.
LEMMA PastIdsAre ==
  PastIds = {x \in 1 .. lastId : x \notin IdsOf(db.objects) /\ \A q \in Requests : Open(q) => x \notin NewOf(q)}
<1>1. UNION {{ids[r][c] : c \in NewIds} : r \in {q \in Requests : Open(q)}} = UNION {NewOf(r) : r \in {q \in Requests : Open(q)}}
  BY DEF NewOf
<1> QED
  BY <1>1 DEF PastIds

\* What r leaves of an object that it has not written.
LEMMA OthersLoseContents ==
  ASSUME IInv, HInv, IInv', NEW r \in Requests, Commit(r), NEW x, NEW d \in Seen(r).data, d.id = x, d \notin put[r].data
  PROVE  ContentsAt(Seen(r), x) = ContentsAt(db, x) \cap IdsOf(Seen(r).objects)
<1>1. /\ \A i \in Seen(r).items : i.sub \in IdsOf(Seen(r).objects) \cup {0}
      /\ \A i \in put[r].items : i.id # x
      /\ \A i \in cut[r].items : i.id = x => i.sub \in Gone(r)
  BY Committing
<1>2. IdsOf(Seen(r).objects) = (IdsOf(db.objects) \cup Held(r)) \ Gone(r)
  BY SeenIds
<1>3. \A i : i.id = x /\ i.sub # 0 => (i \in Seen(r).items <=> i \in db.items /\ i.sub \in IdsOf(Seen(r).objects))
  BY <1>1, <1>2, SeenRows
<1> QED
  BY <1>3 DEF ContentsAt

\* The documents before and after a transaction that commits.
LEMMA CommittedDocument ==
  ASSUME IInv, HInv, IInv', NEW r \in Requests, Readable(Seen(r)), Commit(r), NEW x \in IdsOf(Seen(r).objects)
  PROVE  LET old == DocumentAt(db, x)
             new == DocumentAt(Seen(r), x)
             there == IdsOf(Seen(r).objects)
         IN /\ x \in IdsOf(db.objects) => new.type = old.type
            /\ new.by # r => x \in IdsOf(db.objects) /\ new = [old EXCEPT !.contents = @ \cap there]
<1> DEFINE old == DocumentAt(db, x)
           new == DocumentAt(Seen(r), x)
           there == IdsOf(Seen(r).objects)
<1>1. PICK o \in Seen(r).objects, d \in Seen(r).data : ObjectAt(Seen(r), x, o, d)
  BY ReadObject
<1>2. new = [type |-> o.type, contents |-> ContentsAt(Seen(r), x), by |-> d.by]
  BY <1>1, DocumentIs
<1>3. new.type = o.type /\ new.by = d.by
  BY <1>2
<1>4. ASSUME x \in IdsOf(db.objects)
      PROVE  \E p \in db.objects, e \in db.data :
                /\ ObjectAt(db, x, p, e) /\ old = [type |-> p.type, contents |-> ContentsAt(db, x), by |-> e.by]
                /\ p.type = o.type
  <2>1. PICK p \in db.objects, e \in db.data : ObjectAt(db, x, p, e)
    BY <1>4, CommittedIsReadable, ReadObject
  <2>2. old = [type |-> p.type, contents |-> ContentsAt(db, x), by |-> e.by]
    BY <2>1, DocumentIs
  <2>3. p.type = o.type
    <3>1. o \in db.objects \/ o \in put[r].objects
      BY SeenRows
    <3>2. o.id = p.id
      BY <1>1, <2>1 DEF ObjectAt
    <3> QED
      BY <1>1, <2>1, <3>1, <3>2 DEF ObjectAt, IInv, RequestInv, TypesKept
  <2> QED
    BY <2>1, <2>2, <2>3
<1>5. ASSUME x \in IdsOf(db.objects)
      PROVE  new.type = old.type
  <2>1. PICK p \in db.objects, e \in db.data :
                /\ ObjectAt(db, x, p, e) /\ old = [type |-> p.type, contents |-> ContentsAt(db, x), by |-> e.by]
                /\ p.type = o.type
    BY <1>4, <1>5
  <2>2. old.type = p.type
    BY <2>1
  <2> QED
    BY <1>3, <2>1, <2>2
<1>6. ASSUME new.by # r
      PROVE  x \in IdsOf(db.objects) /\ new = [old EXCEPT !.contents = @ \cap there]
  <2>1. d \notin put[r].data /\ d \in db.data /\ d.id = x
    BY <1>1, <1>3, <1>6, SeenRows DEF HInv, WriterInv, ContentsGoWithData, ObjectAt
  <2>2. x \in IdsOf(db.objects)
    <3>1. x \in Ids
      BY ReadObject
    <3> QED
      BY <2>1, <3>1 DEF IInv, WholeAt, NothingAt, ObjectAt, IdsOf
  <2>3. PICK p \in db.objects, e \in db.data :
                /\ ObjectAt(db, x, p, e) /\ old = [type |-> p.type, contents |-> ContentsAt(db, x), by |-> e.by]
                /\ p.type = o.type
    BY <1>4, <2>2
  <2>4. e = d
    BY <2>1, <2>3 DEF ObjectAt
  <2>5. ContentsAt(Seen(r), x) = ContentsAt(db, x) \cap there
    BY <2>1, OthersLoseContents
  <2> HIDE DEF old, new, there
  <2>6. [old EXCEPT !.contents = @ \cap there] = [type |-> p.type, contents |-> ContentsAt(db, x) \cap there, by |-> e.by]
    BY <2>3
  <2> QED
    BY <1>2, <2>2, <2>3, <2>4, <2>5, <2>6
<1> QED
  BY <1>5, <1>6

LEMMA CommitSaves ==
  ASSUME IInv, HInv, IInv', HInv', NEW r \in Requests, Commit(r)
  PROVE  Store!Save(r)
<1> DEFINE before == IdsOf(db.objects)
           there == IdsOf(Seen(r).objects)
<1>1. /\ pc[r] = "commit" /\ Open(r) /\ db' = Seen(r) /\ lastId' = lastId /\ ids' = ids /\ body' = body
      /\ pc' = [pc EXCEPT ![r] = "done"] /\ answer' = [answer EXCEPT ![r] = 200]
  BY DEF Commit, End, Goto, Open
<1>2. Readable(db) /\ Readable(Seen(r))
  <2>1. TypeOK' /\ (\A x \in Ids : WholeAt(db', x)) /\ \A i \in db'.items : i.sub \in IdsOf(db'.objects) \cup {0}
    BY DEF IInv, HInv, CommittedAreDone
  <2> QED
    BY <1>1, <2>1, CommittedIsReadable DEF TypeOK, Readable
<1>3. Documents = DocumentsOf(db) /\ Documents' = DocumentsOf(Seen(r))
  BY <1>1 DEF Documents, DocumentsOf, DocumentAt, ContentsAt
<1>4. /\ Documents' \in [Ids -> Store!Doc \cup {NoSpec}]
      /\ Store!Present(Documents) = before /\ Store!Present(Documents') = there
      /\ \A x \in before : x \in Ids /\ Documents[x] = DocumentAt(db, x)
      /\ \A x \in there : /\ x \in Ids /\ Documents'[x] = DocumentAt(Seen(r), x)
                          /\ Documents'[x].contents \subseteq there
  BY <1>2, <1>3, DocumentsAreTyped
<1>5. /\ there = (before \cup Held(r)) \ Gone(r) /\ Held(r) \subseteq before \cup NewOf(r)
  BY SeenIds DEF HInv, WriterInv, HeldAreKnown
<1>6. /\ PastIds = {x \in 1 .. lastId : x \notin before /\ \A q \in Requests : Open(q) => x \notin NewOf(q)}
      /\ PastIds' = {x \in 1 .. lastId : x \notin there /\ \A q \in Requests : Open(q)' => x \notin NewOf(q)}
  <2>1. (PastIds = {x \in 1 .. lastId : x \notin IdsOf(db.objects) /\ \A q \in Requests : Open(q) => x \notin NewOf(q)})'
    BY PastIdsAre, PTL
  <2>2. \A q \in Requests : NewOf(q)' = NewOf(q)
    BY <1>1 DEF NewOf
  <2> QED
    BY <1>1, <2>1, <2>2, PastIdsAre
<1>7. /\ \A q \in Requests : Open(q)' => Open(q) /\ q # r
      /\ lastId \in Nat /\ lastId <= MaxId /\ MaxId \in Nat
      /\ \A x \in before : x \in Nat \ {0} /\ x <= lastId
  <2>1. \A q \in Requests : Open(q)' => Open(q) /\ q # r
    BY <1>1 DEF Open, IInv, TypeOK
  <2>2. \A x \in before : x \in Ids /\ x <= lastId
    BY <1>4 DEF IInv, IdsAreTaken, IdsOf
  <2> QED
    BY <2>1, <2>2, ObjectAssumption DEF IInv, TypeOK, Ids
<1> HIDE DEF before, there
<1>8. PastIds' \in SUBSET Ids /\ PastIds \cup (before \ there) \subseteq PastIds' /\ PastIds' \cap there = {}
  <2>1. ASSUME NEW x \in PastIds
        PROVE  x \in PastIds'
    <3>1. x \notin before \cup NewOf(r)
      BY <1>1, <1>6
    <3> QED
      BY <1>5, <1>6, <1>7, <3>1
  <2>2. ASSUME NEW x \in before \ there
        PROVE  x \in PastIds'
    <3>1. \A q \in Requests : Open(q) => x \notin NewOf(q)
      BY DEF HInv, IdsAreFresh, before
    <3> QED
      BY <1>6, <1>7, <3>1
  <2>3. PastIds' \subseteq Ids /\ PastIds' \cap there = {}
    BY <1>6, <1>7 DEF Ids
  <2> QED
    BY <2>1, <2>2, <2>3
<1>9. ASSUME NEW x \in there
      PROVE  /\ x \in before => Documents'[x].type = Documents[x].type
             /\ Documents'[x].by # r => x \in before /\ Documents'[x] = [Documents[x] EXCEPT !.contents = @ \cap there]
  BY <1>2, <1>4, CommittedDocument DEF before, there
<1>10. /\ r \notin {q \in Requests : answer[q] = 200 /\ body[q].route # "view"}
       /\ {q \in Requests : answer'[q] = 200 /\ body'[q].route # "view"} =
             {q \in Requests : answer[q] = 200 /\ body[q].route # "view"} \cup {r}
  <2>1. answer[r] = 0
    BY <1>1 DEF HInv, WriterInv, Unanswered
  <2>2. body[r].route # "view"
    BY <1>1 DEF IInv, RequestInv, RouteShape, StepsOf
  <2>3. answer'[r] = 200 /\ \A q \in Requests \ {r} : answer'[q] = answer[q]
    BY <1>1 DEF IInv, TypeOK
  <2> QED
    BY <1>1, <2>1, <2>2, <2>3
<1>11. Store!WrittenBy(Documents', r) = {x \in there : Documents'[x].by = r}
  BY <1>4 DEF Store!WrittenBy
<1> HIDE DEF Documents, PastIds
<1> QED
  BY <1>4, <1>8, <1>9, <1>10, <1>11 DEF Store!Save

LEMMA OtherWastes ==
  ASSUME IInv, HInv, IInv', HInv', NEW r \in Requests, Other(r)
  PROVE  Store!Waste
<1>1. /\ Alone(r)
      /\ \A x \in NewOf(r)' : x \in NewOf(r) \cup {0} \/ lastId < x
      /\ answer'[r] = 200 => body'[r].route = "view"
  BY OthersWaste
<1>2. /\ db' = db /\ lastId \in Nat /\ lastId' \in Nat /\ lastId <= lastId' /\ lastId' <= MaxId /\ MaxId \in Nat
      /\ pc[r] # "done" /\ pc'[r] # "new"
      /\ \A q \in Requests \ {r} : pc'[q] = pc[q] /\ ids'[q] = ids[q] /\ body'[q] = body[q] /\ answer'[q] = answer[q]
  BY <1>1, ObjectAssumption DEF Alone, StepOf, IInv, TypeOK
<1>3. Documents' = Documents
  BY <1>2 DEF Documents
<1>4. Store!Present(Documents) = IdsOf(db.objects)
  BY CommittedIsReadable, DocumentsAreTyped, DocumentsAreDocuments
<1>5. /\ PastIds = {x \in 1 .. lastId : x \notin IdsOf(db.objects) /\ \A q \in Requests : Open(q) => x \notin NewOf(q)}
      /\ PastIds' = {x \in 1 .. lastId' : x \notin IdsOf(db.objects) /\ \A q \in Requests : Open(q)' => x \notin NewOf(q)'}
  <2>1. (PastIds = {x \in 1 .. lastId : x \notin IdsOf(db.objects) /\ \A q \in Requests : Open(q) => x \notin NewOf(q)})'
    BY PastIdsAre, PTL
  <2> QED
    BY <1>2, <2>1, PastIdsAre
<1>6. ASSUME NEW x \in PastIds
      PROVE  x \in PastIds'
  <2>1. x \in 1 .. lastId /\ x \notin IdsOf(db.objects) /\ \A q \in Requests : Open(q) => x \notin NewOf(q)
    BY <1>5
  <2>2. x \notin NewOf(r)'
    <3>1. x \notin NewOf(r)
      BY <1>2, <2>1 DEF HInv, IdsAreFresh, Open
    <3> QED
      BY <1>1, <1>2, <2>1, <3>1
  <2>3. \A q \in Requests \ {r} : Open(q)' => x \notin NewOf(q)'
    BY <1>2, <2>1 DEF Open, NewOf
  <2> QED
    BY <1>2, <1>5, <2>1, <2>2, <2>3
<1>7. PastIds' \in SUBSET Ids /\ PastIds' \cap IdsOf(db.objects) = {}
  BY <1>2, <1>5 DEF Ids
<1>8. {q \in Requests : answer'[q] = 200 /\ body'[q].route # "view"} = {q \in Requests : answer[q] = 200 /\ body[q].route # "view"}
  <2>1. answer[r] = 0
    BY <1>2 DEF HInv, WriterInv, Unanswered
  <2> QED
    BY <1>1, <1>2, <2>1
<1> HIDE DEF Documents, PastIds
<1> QED
  BY <1>3, <1>4, <1>6, <1>7, <1>8 DEF Store!Waste

LEMMA StartIsAStore == Init => Store!StoreInit
<1> SUFFICES ASSUME Init PROVE Store!StoreInit
  OBVIOUS
<1>1. IInv /\ HInv
  BY Initially, HistoryStarts
<1>2. Readable(db) /\ Documents = DocumentsOf(db)
  BY <1>1, CommittedIsReadable, DocumentsAreDocuments
<1>3. /\ Documents \in [Ids -> Store!Doc \cup {NoSpec}]
      /\ Store!Present(Documents) = IdsOf(db.objects)
      /\ \A x \in IdsOf(db.objects) : /\ x \in Ids /\ Documents[x] = DocumentAt(db, x)
                                      /\ Documents[x].contents \subseteq IdsOf(db.objects)
  BY <1>2, DocumentsAreTyped
<1>4. ASSUME NEW x \in IdsOf(db.objects)
      PROVE  Documents[x].by = NoOne
  <2>1. PICK o \in db.objects, d \in db.data : ObjectAt(db, x, o, d)
    BY <1>2, ReadObject
  <2>2. Documents[x] = [type |-> o.type, contents |-> ContentsAt(db, x), by |-> d.by]
    BY <1>3, <2>1, DocumentIs
  <2>3. d.by = NoOne
    BY FirstIsWhole DEF Init
  <2> QED
    BY <2>2, <2>3
<1>5. PastIds \in SUBSET Ids /\ PastIds \cap IdsOf(db.objects) = {}
  <2>1. lastId \in Nat /\ lastId <= MaxId /\ MaxId \in Nat
    BY <1>1, ObjectAssumption DEF IInv, TypeOK
  <2> QED
    BY <2>1, PastIdsAre DEF Ids
<1>6. {r \in Requests : answer[r] = 200 /\ body[r].route # "view"} = {}
  BY DEF Init
<1> HIDE DEF Documents, PastIds
<1> QED
  BY <1>3, <1>4, <1>5, <1>6 DEF Store!StoreInit

\* The requests, statement by statement, implement a store of documents that whole requests
\* write: a transaction takes effect when it commits, keeps types, loses no data of others,
\* leaves no reference to what it deletes, and no id comes back.
THEOREM ImplementsStore == Spec => RequestsAreAtomic
<1>1. Init => Store!StoreInit
  BY StartIsAStore
<1>2. ASSUME IInv, HInv, IInv', HInv', [Next]_vars
      PROVE  [Store!StoreNext]_(Store!storeVars)
  <2>1. ASSUME NEW r \in Requests, Commit(r)
        PROVE  Store!StoreNext
    BY <1>2, <2>1, CommitSaves DEF Store!StoreNext
  <2>2. ASSUME NEW r \in Requests, Other(r)
        PROVE  Store!StoreNext
    BY <1>2, <2>2, OtherWastes DEF Store!StoreNext
  <2>3. ASSUME UNCHANGED <<db, lastId, pc, body, answer, ids>>
        PROVE  UNCHANGED Store!storeVars
    <3>1. Documents' = Documents
      BY <2>3 DEF Documents
    <3>2. PastIds' = PastIds
      BY <2>3 DEF PastIds, Open
    <3> QED
      BY <2>3, <3>1, <3>2 DEF Store!storeVars
  <2>4. ASSUME NEW r \in Requests, Begin(r) \/ Work(r) \/ Fail(r)
        PROVE  Commit(r) \/ Other(r)
    BY <2>4 DEF Work, Other, Delete
  <2>5. ASSUME NEW x \in Taggable, Retag(x)
        PROVE  UNCHANGED Store!storeVars
    BY <2>3, <2>5 DEF Retag, workVars
  <2>6. CASE UNCHANGED vars
    BY <2>3, <2>6 DEF vars, tableVars, workVars
  <2> QED
    BY <1>2, <2>1, <2>2, <2>4, <2>5, <2>6 DEF Next
<1> QED
  BY <1>1, <1>2, HistoryInvariant, PTL DEF Spec, RequestsAreAtomic, Store!StoreSpec

-----------------------------------------------------------------------------
(* What a request relies on *)

\* What a request that is not an admin's holds was checked, and is its issuer's unless others
\* changed it; what /objects/bulk_upsert writes stays so.
OwnersAreChecked(r) ==
    /\ ~ Open(r) => checked[r] = {}
    /\ ~ IsAdmin(r) =>
          /\ pc[r] \in {"check", "update"} => OwnersAllowed(r, Existing(r))
          /\ pc[r] \in {"check", "update", "delete"} => todo[r] \subseteq checked[r]
          /\ \A o \in db.objects : o.id \in Held(r) => o.id \in checked[r]
          /\ \A o \in db.objects : o.id \in checked[r] \ changed[r] => o.owner = body[r].issuer
          /\ Typed(r) => \A o \in put[r].objects : o.owner = body[r].issuer

\* What a view has read is what is there, of the types it has read, unless others changed it.
ItemType(i) == IF i.sub = 0 THEN "to_do_list" ELSE "composite"
ShownSoFar(r) ==
    /\ pc[r] \in {"types", "rows", "items"} =>
          shown[r].attributes = body[r].ids \cap IdsOf(Visible(body[r].issuer, db))
    /\ pc[r] \in {"rows", "items"} =>
          /\ \A d \in shown[r].rows : d \in db.data /\ d.id \in VisibleIds(r)
          /\ \A d \in db.data : d.id \in VisibleIds(r) => d \in shown[r].rows \/ d.table \in shown[r].types
          /\ \A i \in shown[r].items : i \in db.items /\ i.id \in VisibleIds(r)
          /\ \A i \in db.items : i.id \in VisibleIds(r) => i \in shown[r].items \/ ItemType(i) \in shown[r].types
    /\ pc[r] = "items" =>
          \A d \in db.data : d.id \in VisibleIds(r) /\ d.table = NextType(shown[r].types) => d \in shown[r].rows
AskedFor(r) == body[r].ids \cup body[r].dataIds
ViewIsExact(r) ==
    /\ ~ Open(r) \/ pc[r] \in {"attributes", "types"} => shown[r].rows = {} /\ shown[r].items = {}
    /\ pc[r] = "items" => shown[r].types # {} /\ NextType(shown[r].types) \in {"to_do_list", "composite"}
    /\ AskedFor(r) \cap changed[r] = {} => ShownSoFar(r)

\* What is deleted was marked, or is in no other composite object unless others put it there.
Deletions == {"authorize_delete", "delete", "cascade", "commit"}
DoomedAreUnshared(r) ==
    /\ Gone(r) \subseteq doomed[r]
    /\ pc[r] = "delete" => todo[r] \subseteq doomed[r]
    /\ Open(r) /\ body[r].route \in {"add", "update"} =>
          /\ pc[r] \notin Deletions => doomed[r] = {}
          /\ \A x \in doomed[r] \ changed[r] : \A i \in db.items : i.sub = x => i.id \in CompositeIds(r)
    /\ Open(r) /\ body[r].route = "delete" =>
          /\ pc[r] \in {"subobjects", "exclusive"} => doomed[r] = body[r].gone
          /\ \A x \in doomed[r] \ (body[r].gone \cup changed[r]) : \A i \in db.items : i.sub = x => i.id \in body[r].gone

GivenAreHeld(r) == Open(r) => \A x \in NewOf(r) : x # 0 => x \in Held(r)

\* A request that nobody has disturbed can still be carried out.
StillFeasible(r) == Open(r) /\ feasible[r] /\ changed[r] = {} => Feasible(body[r])
RefusalHasCause(r) == answer[r] \in {400, 404, 500} /\ feasible[r] => changed[r] # {}

ReliesOn(r) ==
    /\ OwnersAreChecked(r) /\ ViewIsExact(r) /\ DoomedAreUnshared(r)
    /\ GivenAreHeld(r) /\ StillFeasible(r) /\ RefusalHasCause(r)
RInv == \A r \in Requests : ReliesOn(r)

\* Of a request that is over, or has not begun, there is nothing to rely on but its answer.
Idle(r) ==
    /\ ~ Open(r) /\ checked[r] = {} /\ shown[r].rows = {} /\ shown[r].items = {}
    /\ put[r] = NoRows /\ cut[r] = NoRows
IdleRely == \A r \in Requests : Idle(r) /\ RefusalHasCause(r) => ReliesOn(r)
LEMMA IdleDoRely == IdleRely
<1> SUFFICES ASSUME NEW r \in Requests, Idle(r), RefusalHasCause(r)
             PROVE  ReliesOn(r)
  BY DEF IdleRely
<1> USE DEF Idle
<1>1. Held(r) = {} /\ Gone(r) = {} /\ pc[r] \in {"new", "done"} /\ put[r].objects = {}
  BY DEF Held, Gone, IdsOf, NoRows, Open
<1>2. OwnersAreChecked(r)
  BY <1>1 DEF OwnersAreChecked
<1>3. ViewIsExact(r)
  BY <1>1 DEF ViewIsExact, ShownSoFar
<1>4. DoomedAreUnshared(r)
  BY <1>1 DEF DoomedAreUnshared
<1> QED
  BY <1>2, <1>3, <1>4 DEF ReliesOn, GivenAreHeld, StillFeasible

\* Nor is anything lost by a step that leaves a request and what is committed alone.
LeftAlone(q) ==
    /\ pc'[q] = pc[q] /\ body'[q] = body[q] /\ todo'[q] = todo[q] /\ ids'[q] = ids[q] /\ part'[q] = part[q]
    /\ put'[q] = put[q] /\ cut'[q] = cut[q] /\ answer'[q] = answer[q] /\ doomed'[q] = doomed[q]
    /\ checked'[q] = checked[q] /\ shown'[q] = shown[q] /\ feasible'[q] = feasible[q]
    /\ db' = db /\ hidden' = hidden /\ changed' = changed
LEMMA LeftAloneRelies ==
  ASSUME NEW q \in Requests, LeftAlone(q), ReliesOn(q)
  PROVE  ReliesOn(q)'
<1>1. /\ Open(q)' = Open(q) /\ Held(q)' = Held(q) /\ Gone(q)' = Gone(q) /\ NewOf(q)' = NewOf(q)
      /\ IsAdmin(q)' = IsAdmin(q) /\ Typed(q)' = Typed(q) /\ AskedFor(q)' = AskedFor(q)
  BY DEF LeftAlone, Open, Held, Gone, NewOf, IsAdmin, Typed, AskedFor
<1>2. /\ Existing(q)' = Existing(q) /\ CompositeIds(q)' = CompositeIds(q)
      /\ \A i : Visible(i, db)' = Visible(i, db)
  BY <1>1 DEF LeftAlone, Existing, Pieces, CompositeIds, Composites, IdOf, Visible
<1>3. /\ VisibleIds(q)' = VisibleIds(q) /\ Feasible(body[q])' = Feasible(body[q])
      /\ OwnersAllowed(q, Existing(q))' = OwnersAllowed(q, Existing(q))
  BY <1>1, <1>2 DEF LeftAlone, VisibleIds, Feasible, OwnersAllowed
<1>4. OwnersAreChecked(q)'
  BY <1>1, <1>3 DEF LeftAlone, ReliesOn, OwnersAreChecked
<1>5. ViewIsExact(q)'
  BY <1>1, <1>2, <1>3 DEF LeftAlone, ReliesOn, ViewIsExact, ShownSoFar
<1>6. DoomedAreUnshared(q)'
  BY <1>1, <1>2 DEF LeftAlone, ReliesOn, DoomedAreUnshared
<1>7. GivenAreHeld(q)' /\ StillFeasible(q)' /\ RefusalHasCause(q)'
  BY <1>1, <1>3 DEF LeftAlone, ReliesOn, GivenAreHeld, StillFeasible, RefusalHasCause
<1> QED
  BY <1>4, <1>5, <1>6, <1>7 DEF ReliesOn

LEMMA OthersRely ==
  ASSUME NEW r \in Requests, Alone(r), NEW q \in Requests \ {r}, ReliesOn(q)
  PROVE  ReliesOn(q)'
<1>1. LeftAlone(q)
  BY DEF LeftAlone, Alone, StepOf
<1> QED
  BY <1>1, LeftAloneRelies

LEMMA EndedRelies ==
  ASSUME IInv, HInv, NEW r \in Requests, Open(r), NEW status, End(r, status),
         status \in {400, 404, 500} /\ feasible[r] => changed[r] # {},
         changed'[r] = changed[r]
  PROVE  ReliesOn(r)'
<1>1. /\ pc'[r] = "done" /\ checked'[r] = {} /\ shown'[r] = NothingShown
      /\ put'[r] = NoRows /\ cut'[r] = NoRows /\ answer'[r] = status /\ feasible'[r] = feasible[r]
  BY DEF End, Goto, IInv, TypeOK
<1>2. Idle(r)' /\ RefusalHasCause(r)'
  BY <1>1 DEF Idle, Open, RefusalHasCause, NothingShown
<1>3. IdleRely'
  BY IdleDoRely, PTL
<1> QED
  BY <1>2, <1>3 DEF IdleRely

\* A request that is refused, or fails, keeps the invariant if the refusal has a cause.
LEMMA RefuseRelies ==
  ASSUME IInv, HInv, RInv, NEW r \in Requests, Open(r), NEW status, Refuse(r, status),
         status \in {400, 404, 500} /\ feasible[r] => changed[r] # {}
  PROVE  RInv'
<1>1. Alone(r) /\ End(r, status) /\ changed'[r] = changed[r]
  BY RefuseIsAlone DEF Refuse
<1>2. ReliesOn(r)'
  BY <1>1, EndedRelies
<1> QED
  BY <1>1, <1>2, OthersRely DEF RInv

LEMMA BeginRelies ==
  ASSUME IInv, HInv, RInv, NEW r \in Requests, Begin(r)
  PROVE  RInv'
<1>1. Alone(r)
  BY BeginIsAlone
<1>2. PICK b \in Bodies :
          /\ body' = [body EXCEPT ![r] = b]
          /\ feasible' = [feasible EXCEPT ![r] = Feasible(b)]
          /\ IF RouteRefusal(b) # 0
             THEN /\ Goto(r, "done") /\ answer' = [answer EXCEPT ![r] = RouteRefusal(b)]
                  /\ UNCHANGED doomed
             ELSE /\ Goto(r, FirstStep(b)) /\ UNCHANGED answer
                  /\ doomed' = [doomed EXCEPT ![r] = IF b.route \in {"bulk_upsert", "delete"} THEN b.gone ELSE {}]
  BY DEF Begin
<1>3. pc[r] = "new" /\ UNCHANGED <<tableVars, writeVars, part, todo, ids, checked, shown, changed>>
  BY DEF Begin
<1>4. /\ body'[r] = b /\ feasible'[r] = Feasible(b)
      /\ pc'[r] = IF RouteRefusal(b) # 0 THEN "done" ELSE FirstStep(b)
      /\ answer'[r] = IF RouteRefusal(b) # 0 THEN RouteRefusal(b) ELSE answer[r]
      /\ RouteRefusal(b) = 0 => doomed'[r] = IF b.route \in {"bulk_upsert", "delete"} THEN b.gone ELSE {}
  <2>1. /\ body \in [Requests -> Body] /\ feasible \in [Requests -> BOOLEAN] /\ pc \in [Requests -> Step]
        /\ answer \in [Requests -> Answers] /\ doomed \in [Requests -> SUBSET Ids]
    BY DEF IInv, TypeOK, Answers
  <2> QED
    BY <1>2, <2>1 DEF Goto
<1>5. /\ ~ Open(r) /\ ReliesOn(r) /\ RouteShape(r) /\ answer[r] = 0 /\ put[r] = NoRows /\ cut[r] = NoRows
      /\ \A c \in NewIds : ids[r][c] = 0
  BY <1>3 DEF Open, RInv, IInv, RequestInv, RouteShape, HInv, WriterInv, Unanswered, IdsAreFresh, NewOf
<1>6. /\ checked'[r] = {} /\ shown'[r].rows = {} /\ shown'[r].items = {} /\ db' = db /\ hidden' = hidden
      /\ Held(r)' = {} /\ Gone(r)' = {} /\ put'[r].objects = {}
  BY <1>3, <1>5 DEF tableVars, writeVars, ReliesOn, OwnersAreChecked, ViewIsExact, Held, Gone, IdsOf, NoRows
<1>7. /\ RouteRefusal(b) \in {0, 401, 403} /\ b.route \in Routes
  BY ObjectAssumption DEF RouteRefusal, Body
<1>8. /\ b.route \in {"add", "bulk_upsert"} => FirstStep(b) = "insert"
      /\ b.route = "update" => FirstStep(b) = "authorize"
      /\ b.route = "view" => FirstStep(b) = "attributes"
      /\ b.route = "delete" => FirstStep(b) \in {"subobjects", "authorize_delete"}
  BY DEF FirstStep
<1>9. pc'[r] \in {"done", "insert", "authorize", "attributes", "subobjects", "authorize_delete"}
  BY <1>4, <1>7, <1>8 DEF Routes
<1>10. OwnersAreChecked(r)'
  BY <1>6, <1>9 DEF OwnersAreChecked
<1>11. ViewIsExact(r)'
  BY <1>6, <1>9 DEF ViewIsExact, ShownSoFar
<1>12. DoomedAreUnshared(r)'
  BY <1>4, <1>6, <1>7, <1>9 DEF DoomedAreUnshared, Open, Deletions
<1>13. GivenAreHeld(r)'
  BY <1>3, <1>5 DEF GivenAreHeld, NewOf
<1>14. StillFeasible(r)'
  BY <1>4, <1>6 DEF StillFeasible, Feasible, Visible
<1>15. RefusalHasCause(r)'
  BY <1>4, <1>5, <1>7 DEF RefusalHasCause
<1> QED
  BY <1>1, <1>10, <1>11, <1>12, <1>13, <1>14, <1>15, OthersRely DEF RInv, ReliesOn

\* What a transaction does not touch it leaves as it was.
LEMMA Untouched ==
  ASSUME NEW r \in Requests, NEW x, x \notin TouchedBy(r)
  PROVE  /\ \A o : o.id = x => (o \in Seen(r).objects <=> o \in db.objects)
         /\ \A d : d.id = x => (d \in Seen(r).data <=> d \in db.data)
         /\ \A i : i.id = x => (i \in Seen(r).items <=> i \in db.items)
         /\ \A i : i.sub = x /\ x # 0 => (i \in Seen(r).items <=> i \in db.items)
<1>1. /\ \A o \in put[r].objects \cup cut[r].objects : o.id # x
      /\ \A d \in put[r].data \cup cut[r].data : d.id # x
      /\ \A i \in put[r].items \cup cut[r].items : i.id # x /\ (x # 0 => i.sub # x)
  BY DEF TouchedBy, IdsOf
<1> QED
  BY <1>1, SeenRows

\* Of a transaction that touches nothing nothing is seen.
LEMMA NothingTouched ==
  ASSUME NEW r \in Requests, TouchedBy(r) = {}
  PROVE  Seen(r).objects = db.objects
<1>1. put[r].objects = {} /\ cut[r].objects = {}
  BY DEF TouchedBy, IdsOf
<1> QED
  BY <1>1, SeenRows

\* A view sees the same of what it asked for when that has not changed.
LEMMA SameView ==
  ASSUME NEW q \in Requests, body'[q] = body[q], pc'[q] = pc[q], shown'[q] = shown[q],
         \A x \in AskedFor(q) :
            /\ x \in hidden' <=> x \in hidden
            /\ \A o : o.id = x => (o \in db'.objects <=> o \in db.objects)
            /\ \A d : d.id = x => (d \in db'.data <=> d \in db.data)
            /\ \A i : i.id = x => (i \in db'.items <=> i \in db.items),
         ShownSoFar(q)
  PROVE  ShownSoFar(q)'
<1>1. \A o : o.id \in AskedFor(q) =>
          (o \in Visible(body[q].issuer, db)' <=> o \in Visible(body[q].issuer, db))
  BY DEF Visible
<1>2. IdsOf(Visible(body[q].issuer, db))' \cap AskedFor(q) = IdsOf(Visible(body[q].issuer, db)) \cap AskedFor(q)
  BY <1>1 DEF IdsOf
<1>3. body[q].ids \subseteq AskedFor(q) /\ body[q].dataIds \subseteq AskedFor(q)
  BY DEF AskedFor
<1>4. VisibleIds(q)' = VisibleIds(q) /\ VisibleIds(q) \subseteq AskedFor(q)
  BY <1>2, <1>3 DEF VisibleIds
<1>5. body[q].ids \cap IdsOf(Visible(body[q].issuer, db))' = body[q].ids \cap IdsOf(Visible(body[q].issuer, db))
  BY <1>2, <1>3
<1>6. (body[q].ids \cap IdsOf(Visible(body[q].issuer, db)))' = body[q].ids \cap IdsOf(Visible(body[q].issuer, db))'
  OBVIOUS
<1>7. /\ \A d : d.id \in VisibleIds(q) => (d \in db'.data <=> d \in db.data)
      /\ \A i : i.id \in VisibleIds(q) => (i \in db'.items <=> i \in db.items)
  BY <1>4
<1> QED
  BY <1>4, <1>5, <1>6, <1>7 DEF ShownSoFar

\* Others rely on what a transaction commits being what they notice.
LEMMA BystandersRely ==
  ASSUME IInv, HInv, RInv, NEW r \in Requests, Commit(r), NEW q \in Requests \ {r}
  PROVE  ReliesOn(q)'
<1>1. /\ db' = Seen(r) /\ UNCHANGED <<hidden, lastId, ids, body, feasible>>
      /\ pc'[q] = pc[q] /\ answer'[q] = answer[q] /\ put'[q] = put[q] /\ cut'[q] = cut[q] /\ part'[q] = part[q]
      /\ todo'[q] = todo[q] /\ checked'[q] = checked[q] /\ doomed'[q] = doomed[q] /\ shown'[q] = shown[q]
      /\ changed'[q] = IF Open(q) THEN changed[q] \cup TouchedBy(r) ELSE changed[q]
  BY DEF Commit, End, Goto, Notice, IInv, TypeOK
<1>2. /\ Open(q)' = Open(q) /\ Held(q)' = Held(q) /\ Gone(q)' = Gone(q) /\ NewOf(q)' = NewOf(q)
      /\ IsAdmin(q)' = IsAdmin(q) /\ Typed(q)' = Typed(q) /\ AskedFor(q)' = AskedFor(q)
      /\ Existing(q)' = Existing(q) /\ CompositeIds(q)' = CompositeIds(q)
  BY <1>1 DEF Open, Held, Gone, NewOf, IsAdmin, Typed, AskedFor, Existing, Pieces, CompositeIds, Composites, IdOf
<1>3. ReliesOn(q) /\ RouteShape(q)
  BY DEF RInv, IInv, RequestInv
<1>4. RefusalHasCause(q)'
  BY <1>1, <1>3 DEF ReliesOn, RefusalHasCause
<1>5. CASE ~ Open(q)
  <2>1. Idle(q)'
    BY <1>1, <1>2, <1>3, <1>5 DEF Idle, ReliesOn, OwnersAreChecked, ViewIsExact, RouteShape
  <2>2. IdleRely'
    BY IdleDoRely, PTL
  <2> QED
    BY <1>4, <2>1, <2>2 DEF IdleRely
<1>6. CASE Open(q)
  <2>1. \A o \in db'.objects : o.id \in Held(q) => o \in db.objects
    BY <1>1, SeenRows DEF IInv, RowsAreLocked, Held, IdsOf
  <2>2. \A o \in db'.objects : o.id \notin changed'[q] => o \in db.objects
    BY <1>1, <1>6, Untouched
  <2>3. OwnersAllowed(q, Existing(q))' = OwnersAllowed(q, Existing(q))
    BY <1>1, <1>2 DEF OwnersAllowed
  <2>4. OwnersAreChecked(q)'
    BY <1>1, <1>2, <1>3, <1>6, <2>1, <2>2, <2>3 DEF ReliesOn, OwnersAreChecked
  <2>5. ViewIsExact(q)'
    <3>1. ASSUME AskedFor(q) \cap changed'[q] = {}
          PROVE  ShownSoFar(q)'
      <4>1. \A x \in AskedFor(q) : x \notin TouchedBy(r)
        BY <1>1, <1>6, <3>1
      <4>2. ShownSoFar(q)
        BY <1>1, <1>3, <1>6, <3>1 DEF ReliesOn, ViewIsExact
      <4>3. \A x \in AskedFor(q) :
              /\ x \in hidden' <=> x \in hidden
              /\ \A o : o.id = x => (o \in db'.objects <=> o \in db.objects)
              /\ \A d : d.id = x => (d \in db'.data <=> d \in db.data)
              /\ \A i : i.id = x => (i \in db'.items <=> i \in db.items)
        BY <1>1, <4>1, Untouched
      <4> QED
        BY <1>1, <4>2, <4>3, SameView
    <3> QED
      BY <1>1, <1>2, <1>3, <1>6, <3>1 DEF ReliesOn, ViewIsExact
  <2>6. DoomedAreUnshared(q)'
    <3>1. ASSUME NEW x \in doomed[q] \ changed'[q], NEW i \in db'.items, i.sub = x
          PROVE  i \in db.items /\ x \in doomed[q] \ changed[q]
      <4>1. x \in Ids
        BY DEF IInv, TypeOK
      <4> QED
        BY <1>1, <1>6, <3>1, <4>1, Untouched DEF Ids
    <3> QED
      BY <1>1, <1>2, <1>3, <3>1 DEF ReliesOn, DoomedAreUnshared
  <2>7. StillFeasible(q)'
    <3>1. ASSUME changed'[q] = {}
          PROVE  changed[q] = {} /\ db'.objects = db.objects
      BY <1>1, <1>6, <3>1, NothingTouched
    <3>2. changed'[q] = {} => Feasible(body[q])' = Feasible(body[q])
      BY <1>1, <3>1 DEF Feasible, Visible
    <3> QED
      BY <1>1, <1>2, <1>3, <3>1, <3>2 DEF ReliesOn, StillFeasible
  <2>8. GivenAreHeld(q)'
    BY <1>2, <1>3 DEF ReliesOn, GivenAreHeld
  <2> QED
    BY <1>4, <2>4, <2>5, <2>6, <2>7, <2>8 DEF ReliesOn
<1> QED
  BY <1>5, <1>6

LEMMA CommitRelies ==
  ASSUME IInv, HInv, RInv, NEW r \in Requests, Commit(r)
  PROVE  RInv'
<1>1. Open(r) /\ End(r, 200) /\ changed'[r] = changed[r]
  BY DEF Commit, Open, Notice
<1>2. ReliesOn(r)'
  BY <1>1, EndedRelies
<1> QED
  BY <1>2, BystandersRely DEF RInv

LEMMA RetagRelies ==
  ASSUME IInv, RInv, NEW x \in Taggable, Retag(x)
  PROVE  RInv'
<1>1. /\ UNCHANGED <<db, lastId, pc, body, answer, writeVars, workVars, feasible>>
      /\ \A y : y # x => (y \in hidden' <=> y \in hidden)
      /\ \A q \in Requests : changed'[q] = IF Open(q) THEN changed[q] \cup {x} ELSE changed[q]
  BY DEF Retag, Notice
<1> SUFFICES ASSUME NEW q \in Requests
             PROVE  ReliesOn(q)'
  BY DEF RInv
<1> USE DEF writeVars, workVars
<1>2. /\ Open(q)' = Open(q) /\ Held(q)' = Held(q) /\ Gone(q)' = Gone(q) /\ NewOf(q)' = NewOf(q)
      /\ IsAdmin(q)' = IsAdmin(q) /\ Typed(q)' = Typed(q) /\ AskedFor(q)' = AskedFor(q)
      /\ Existing(q)' = Existing(q) /\ CompositeIds(q)' = CompositeIds(q)
  BY <1>1 DEF Open, Held, Gone, NewOf, IsAdmin, Typed, AskedFor, Existing, Pieces, CompositeIds, Composites, IdOf
<1>3. ReliesOn(q) /\ changed[q] \subseteq changed'[q]
  BY <1>1 DEF RInv
<1>4. RefusalHasCause(q)' /\ GivenAreHeld(q)'
  BY <1>1, <1>2, <1>3 DEF ReliesOn, RefusalHasCause, GivenAreHeld
<1>5. StillFeasible(q)'
  BY <1>1, <1>2 DEF StillFeasible
<1>6. OwnersAreChecked(q)'
  <2>1. OwnersAllowed(q, Existing(q))' = OwnersAllowed(q, Existing(q))
    BY <1>1, <1>2 DEF OwnersAllowed
  <2> QED
    BY <1>1, <1>2, <1>3, <2>1 DEF ReliesOn, OwnersAreChecked
<1>7. DoomedAreUnshared(q)'
  BY <1>1, <1>2, <1>3 DEF ReliesOn, DoomedAreUnshared
<1>8. ViewIsExact(q)'
  <2>1. ASSUME AskedFor(q) \cap changed'[q] = {}
        PROVE  ShownSoFar(q)'
    <3>1. ShownSoFar(q)
      BY <1>3, <2>1 DEF ReliesOn, ViewIsExact
    <3>2. CASE Open(q)
      <4>1. x \notin AskedFor(q)
        BY <1>1, <2>1, <3>2
      <4> QED
        BY <1>1, <3>1, <4>1, SameView
    <3>3. CASE ~ Open(q)
      BY <1>1, <3>3 DEF ShownSoFar, Open
    <3> QED
      BY <3>2, <3>3
  <2> QED
    BY <1>1, <1>2, <1>3, <2>1 DEF ReliesOn, ViewIsExact
<1> QED
  BY <1>4, <1>5, <1>6, <1>7, <1>8 DEF ReliesOn

\* A statement of a request that writes or deletes keeps the invariant if it keeps these parts.
LEMMA WriterRelies ==
  ASSUME IInv, HInv, RInv, NEW r \in Requests, Alone(r), Open(r), pc'[r] \in Upserting \cup Late, answer'[r] = answer[r],
         OwnersAreChecked(r)', DoomedAreUnshared(r)', GivenAreHeld(r)'
  PROVE  RInv'
<1>1. /\ db' = db /\ hidden' = hidden /\ body'[r] = body[r] /\ feasible'[r] = feasible[r] /\ changed' = changed
      /\ answer'[r] = 0
  BY DEF Alone, StepOf, Open, HInv, WriterInv, Unanswered
<1>2. ViewIsExact(r)'
  BY DEF ViewIsExact, ShownSoFar, Open, Upserting, Late
<1>3. Feasible(body[r])' = Feasible(body[r])
  BY <1>1 DEF Feasible, Visible
<1>4. StillFeasible(r)' /\ RefusalHasCause(r)'
  BY <1>1, <1>3 DEF RInv, ReliesOn, StillFeasible, RefusalHasCause
<1>5. ReliesOn(r)'
  BY <1>2, <1>4 DEF ReliesOn
<1> QED
  BY <1>5, OthersRely DEF RInv

\* What a request has of the objects' rows that stays as it is.
SameObjects(r) ==
    /\ put'[r].objects = put[r].objects /\ cut'[r].objects = cut[r].objects
    /\ ids' = ids /\ body' = body /\ answer' = answer /\ db' = db /\ hidden' = hidden /\ changed' = changed

LEMMA SameObjectsKeep ==
  ASSUME NEW r \in Requests, SameObjects(r), ReliesOn(r), Open(r)
  PROVE  /\ Held(r)' = Held(r) /\ Gone(r)' = Gone(r) /\ IsAdmin(r)' = IsAdmin(r) /\ Typed(r)' = Typed(r)
         /\ CompositeIds(r)' = CompositeIds(r) /\ GivenAreHeld(r)' /\ body'[r] = body[r]
  BY DEF SameObjects, Held, Gone, IsAdmin, Typed, CompositeIds, Composites, IdOf, GivenAreHeld, ReliesOn, NewOf

LEMMA QuietRelies ==
  ASSUME IInv, HInv, RInv, NEW r \in Requests, Alone(r), Open(r), SameObjects(r),
         pc'[r] \in (Upserting \cup Late) \ {"check", "update", "delete"},
         pc'[r] \notin Deletions => pc[r] \notin Deletions,
         pc'[r] \in {"subobjects", "exclusive"} => pc[r] \in {"subobjects", "exclusive"},
         checked'[r] = checked[r], doomed'[r] = doomed[r]
  PROVE  RInv'
<1>1. ReliesOn(r)
  BY DEF RInv
<1>2. /\ Held(r)' = Held(r) /\ Gone(r)' = Gone(r) /\ IsAdmin(r)' = IsAdmin(r) /\ Typed(r)' = Typed(r)
      /\ CompositeIds(r)' = CompositeIds(r) /\ GivenAreHeld(r)' /\ body'[r] = body[r]
  BY <1>1, SameObjectsKeep
<1>3. Open(r)' /\ answer'[r] = answer[r]
  BY DEF Open, Upserting, Late, SameObjects
<1>4. OwnersAreChecked(r)'
  BY <1>1, <1>2, <1>3 DEF SameObjects, ReliesOn, OwnersAreChecked
<1>5. DoomedAreUnshared(r)'
  BY <1>1, <1>2, <1>3 DEF SameObjects, ReliesOn, DoomedAreUnshared
<1> QED
  BY <1>2, <1>3, <1>4, <1>5, WriterRelies

\* Authorization: what passes for the first time is the issuer's.
LEMMA ModifiableAreOwned ==
  ASSUME NEW r \in Requests, ReliesOn(r), ~ IsAdmin(r), NEW xs, MayModify(r, xs),
         NEW o \in db.objects, o.id \in xs \cup checked[r], o.id \notin changed[r]
  PROVE  o.owner = body[r].issuer
<1>1. CASE o.id \in checked[r]
  BY <1>1 DEF ReliesOn, OwnersAreChecked
<1>2. CASE o.id \notin checked[r]
  <2>1. o \in Seen(r).objects
    BY <1>2, SeenRows DEF ReliesOn, OwnersAreChecked, Held, IdsOf
  <2> QED
    BY <1>2, <2>1 DEF MayModify
<1> QED
  BY <1>1, <1>2

LEMMA AuthorizeRelies ==
  ASSUME IInv, HInv, RInv, NEW r \in Requests, Authorize(r)
  PROVE  RInv'
<1>1. Alone(r) /\ Open(r) /\ pc[r] = "authorize" /\ ReliesOn(r)
  BY UpsertIsAlone DEF Upsert, Authorize, Open, RInv
<1>2. CASE Refuse(r, 403)
  BY <1>1, <1>2, RefuseRelies
<1>3. ASSUME OwnersAllowed(r, Existing(r)), MayModify(r, Existing(r)),
             checked' = [checked EXCEPT ![r] = @ \cup Existing(r)], todo' = [todo EXCEPT ![r] = Existing(r)],
             Goto(r, IF Typed(r) THEN "check" ELSE "update"),
             UNCHANGED <<tableVars, body, answer, writeVars, part, ids, doomed, shown, feasible, changed>>
      PROVE  RInv'
  <2>1. /\ checked'[r] = checked[r] \cup Existing(r) /\ todo'[r] = Existing(r) /\ doomed'[r] = doomed[r]
        /\ pc'[r] \in {"check", "update"}
    BY <1>3 DEF Goto, IInv, TypeOK
  <2>2. SameObjects(r)
    BY <1>3 DEF SameObjects, tableVars, writeVars
  <2>3. /\ Held(r)' = Held(r) /\ Gone(r)' = Gone(r) /\ IsAdmin(r)' = IsAdmin(r) /\ Typed(r)' = Typed(r)
        /\ CompositeIds(r)' = CompositeIds(r) /\ GivenAreHeld(r)' /\ body'[r] = body[r]
    BY <1>1, <2>2, SameObjectsKeep
  <2>4. Existing(r)' = Existing(r)
    BY <1>3 DEF Existing, Pieces, Typed
  <2>5. OwnersAllowed(r, Existing(r))'
    BY <1>3, <2>3, <2>4 DEF OwnersAllowed
  <2>6. OwnersAreChecked(r)'
    <3>1. ~ IsAdmin(r) => \A o \in db.objects : o.id \in checked'[r] \ changed[r] => o.owner = body[r].issuer
      BY <1>1, <1>3, <2>1, ModifiableAreOwned
    <3> QED
      BY <1>1, <2>1, <2>2, <2>3, <2>4, <2>5, <3>1 DEF ReliesOn, OwnersAreChecked, SameObjects, Open
  <2>7. DoomedAreUnshared(r)'
    BY <1>1, <2>1, <2>2, <2>3 DEF ReliesOn, DoomedAreUnshared, SameObjects, Deletions, Open
  <2> QED
    BY <1>1, <2>1, <2>2, <2>3, <2>6, <2>7, WriterRelies DEF SameObjects, Upserting
<1> QED
  BY <1>2, <1>3 DEF Authorize

LEMMA AuthorizeDeleteRelies ==
  ASSUME IInv, HInv, RInv, NEW r \in Requests, AuthorizeDelete(r)
  PROVE  RInv'
<1>1. Alone(r) /\ Open(r) /\ pc[r] = "authorize_delete" /\ ReliesOn(r)
  BY DeleteIsAlone DEF Delete, Commit, AuthorizeDelete, Open, RInv
<1>2. CASE Refuse(r, 403)
  BY <1>1, <1>2, RefuseRelies
<1>3. ASSUME MayModify(r, doomed[r]), checked' = [checked EXCEPT ![r] = @ \cup doomed[r]],
             todo' = [todo EXCEPT ![r] = doomed[r]], Goto(r, IF doomed[r] = {} THEN "commit" ELSE "delete"),
             UNCHANGED <<tableVars, body, answer, writeVars, part, ids, doomed, shown, feasible, changed>>
      PROVE  RInv'
  <2>1. /\ checked'[r] = checked[r] \cup doomed[r] /\ todo'[r] = doomed[r] /\ doomed'[r] = doomed[r]
        /\ pc'[r] \in {"commit", "delete"}
    BY <1>3 DEF Goto, IInv, TypeOK
  <2>2. SameObjects(r)
    BY <1>3 DEF SameObjects, tableVars, writeVars
  <2>3. /\ Held(r)' = Held(r) /\ Gone(r)' = Gone(r) /\ IsAdmin(r)' = IsAdmin(r) /\ Typed(r)' = Typed(r)
        /\ CompositeIds(r)' = CompositeIds(r) /\ GivenAreHeld(r)' /\ body'[r] = body[r]
    BY <1>1, <2>2, SameObjectsKeep
  <2>4. OwnersAreChecked(r)'
    <3>1. ~ IsAdmin(r) => \A o \in db.objects : o.id \in checked'[r] \ changed[r] => o.owner = body[r].issuer
      BY <1>1, <1>3, <2>1, ModifiableAreOwned
    <3> QED
      BY <1>1, <2>1, <2>2, <2>3, <3>1 DEF ReliesOn, OwnersAreChecked, SameObjects, Open
  <2>5. DoomedAreUnshared(r)'
    BY <1>1, <2>1, <2>2, <2>3 DEF ReliesOn, DoomedAreUnshared, SameObjects, Deletions, Open
  <2> QED
    BY <1>1, <2>1, <2>2, <2>3, <2>4, <2>5, WriterRelies DEF SameObjects, Late
<1> QED
  BY <1>2, <1>3 DEF AuthorizeDelete

\* What a request that nobody has disturbed was asked to write is there, as it sees it.
LEMMA AskedAreThere ==
  ASSUME IInv, HInv, RInv, NEW r \in Requests, Open(r), pc[r] \notin {"delete", "cascade", "commit"},
         feasible[r], changed[r] = {}, NEW c \in Asked(body[r]) \cap Ids
  PROVE  /\ \E p \in Seen(r).objects : /\ p.id = c /\ p.type = body[r].writes[c].type
                                       /\ Typed(r) => p \in Visible(body[r].issuer, Seen(r))
         /\ c \in IdsOf(db.objects)
<1>1. Feasible(body[r]) /\ ReliesOn(r) /\ Gone(r) = {}
  BY DEF RInv, ReliesOn, StillFeasible, IInv, RequestInv, DeletesAreLast
<1>2. PICK o \in (IF Typed(r) THEN Visible(body[r].issuer, db) ELSE db.objects) : o.id = c /\ o.type = body[r].writes[c].type
  BY <1>1 DEF Feasible, Typed
<1>3. o \in db.objects
  BY <1>2 DEF Visible
<1>4. c \in IdsOf(Seen(r).objects)
  BY <1>1, <1>2, <1>3, SeenIds DEF IdsOf
<1>5. PICK p \in Seen(r).objects : p.id = c
  BY <1>4 DEF IdsOf
<1>6. CASE p \in put[r].objects
  <2>1. p.type = body[r].writes[c].type
    BY <1>2, <1>3, <1>5, <1>6 DEF IInv, RequestInv, TypesKept
  <2>2. ASSUME Typed(r)
        PROVE  p \in Visible(body[r].issuer, Seen(r))
    BY <1>1, <1>2, <1>5, <1>6, <2>2 DEF Visible, ReliesOn, OwnersAreChecked, IsAdmin
  <2> QED
    BY <1>2, <1>3, <1>5, <2>1, <2>2 DEF IdsOf
<1>7. CASE p \notin put[r].objects
  <2>1. p \in db.objects
    BY <1>7, SeenRows
  <2>2. p = o
    BY <1>2, <1>3, <1>5, <2>1 DEF IInv, WholeAt, NothingAt, ObjectAt
  <2>3. Typed(r) => p \in Visible(body[r].issuer, Seen(r))
    BY <1>2, <1>5, <2>2 DEF Visible
  <2> QED
    BY <1>2, <1>3, <1>5, <2>2, <2>3 DEF IdsOf
<1> QED
  BY <1>6, <1>7

\* So are the sub-objects it links.
LEMMA LinkedAreThere ==
  ASSUME IInv, HInv, RInv, NEW r \in Requests, Open(r), pc[r] \in {"exist", "unlink", "link"},
         feasible[r], changed[r] = {}
  PROVE  Subobjects(r) \subseteq IdsOf(Seen(r).objects)
<1>1. Feasible(body[r]) /\ ReliesOn(r) /\ Gone(r) = {}
  BY DEF RInv, ReliesOn, StillFeasible, IInv, RequestInv, DeletesAreLast
<1>2. IdsOf(Seen(r).objects) = IdsOf(db.objects) \cup Held(r)
  BY <1>1, SeenIds
<1>3. /\ body[r] \in Bodies /\ body[r].route \notin {"delete", "view"} /\ body[r] \in Body
  BY DEF IInv, RequestInv, RouteShape, StepsOf, TypeOK
<1>4. Linked(body[r]) \subseteq Refs /\ Linked(body[r]) \cap NewIds \subseteq Asked(body[r])
  <2>1. body[r].links \subseteq Refs \X Refs
    BY <1>3 DEF Body
  <2>2. Accepted(body[r])
    BY <1>3, ObjectAssumption
  <2> QED
    BY <1>3, <2>1, <2>2 DEF Linked, Accepted
<1>5. ASSUME NEW s \in Linked(body[r])
      PROVE  IdOf(r, s) \in IdsOf(db.objects) \cup Held(r)
  <2>1. CASE s \in NewIds
    <3>1. s \in Given(r)
      BY <1>4, <2>1 DEF Given
    <3>2. ids[r][s] \in Ids /\ ids[r][s] \in NewOf(r)
      BY <2>1, <3>1 DEF IInv, RequestInv, SeenIsWhole, NewOf
    <3> QED
      BY <1>1, <2>1, <3>2 DEF IdOf, ReliesOn, GivenAreHeld, Ids
  <2>2. CASE s \notin NewIds
    BY <1>1, <1>4, <2>2 DEF IdOf, Refs, Feasible
  <2> QED
    BY <2>1, <2>2
<1> QED
  BY <1>2, <1>5 DEF Subobjects

LEMMA CheckExistingRelies ==
  ASSUME IInv, HInv, RInv, NEW r \in Requests, CheckExisting(r)
  PROVE  RInv'
<1>1. Alone(r) /\ Open(r) /\ pc[r] = "check" /\ ReliesOn(r)
  BY UpsertIsAlone DEF Upsert, CheckExisting, Open, RInv
<1>2. CASE ~ HaveTypes(r, Existing(r))
  <2>1. Refuse(r, 400)
    BY <1>2 DEF CheckExisting
  <2>2. ASSUME feasible[r], changed[r] = {}
        PROVE  FALSE
    <3>1. Typed(r)
      BY <1>1, PiecesAreAsked DEF Upserting, IInv, RequestInv, RouteShape, StepsOf, Typed
    <3>2. \A c \in Existing(r) : c \in Asked(body[r]) /\ c \in Ids
      BY <3>1 DEF Existing, Pieces
    <3>3. ASSUME NEW c \in Existing(r)
          PROVE  IdOf(r, c) = c
      BY <3>2 DEF IdOf, Ids, NewIds
    <3> QED
      BY <1>1, <1>2, <2>2, <3>1, <3>2, <3>3, AskedAreThere DEF HaveTypes, Visible
  <2> QED
    BY <1>1, <2>1, <2>2, RefuseRelies
<1>3. CASE HaveTypes(r, Existing(r))
  <2>1. Goto(r, "update") /\ UNCHANGED <<tableVars, body, answer, writeVars, workVars, feasible, changed>>
    BY <1>3 DEF CheckExisting
  <2>2. SameObjects(r) /\ pc'[r] = "update" /\ UNCHANGED <<checked, doomed, todo, part>>
    BY <2>1 DEF SameObjects, tableVars, writeVars, workVars, Goto, IInv, TypeOK
  <2>3. /\ Held(r)' = Held(r) /\ Gone(r)' = Gone(r) /\ IsAdmin(r)' = IsAdmin(r) /\ Typed(r)' = Typed(r)
        /\ CompositeIds(r)' = CompositeIds(r) /\ GivenAreHeld(r)' /\ body'[r] = body[r]
    BY <1>1, <2>2, SameObjectsKeep
  <2>4. OwnersAllowed(r, Existing(r))' = OwnersAllowed(r, Existing(r))
    BY <2>2, <2>3 DEF OwnersAllowed, Existing, Pieces
  <2>5. OwnersAreChecked(r)'
    BY <1>1, <2>2, <2>3, <2>4 DEF ReliesOn, OwnersAreChecked, SameObjects, Open
  <2>6. DoomedAreUnshared(r)'
    BY <1>1, <2>2, <2>3 DEF ReliesOn, DoomedAreUnshared, SameObjects, Deletions, Open
  <2> QED
    BY <1>1, <2>2, <2>3, <2>5, <2>6, WriterRelies DEF SameObjects, Upserting
<1> QED
  BY <1>2, <1>3

LEMMA UpdateRelies ==
  ASSUME IInv, HInv, RInv, IInv', NEW r \in Requests, NEW x \in Ids, UpdateObject(r, x)
  PROVE  RInv'
<1> DEFINE spec == body[r].writes[x]
           old == RowsOf(Seen(r), x)
           updated(o) == [o EXCEPT !.published = spec.published, !.by = r,
                                   !.owner = IF spec.owner = Unset THEN @ ELSE spec.owner,
                                   !.type = IF Typed(r) THEN spec.type ELSE @]
           composite == ~Typed(r) /\ part[r] = "main" /\ spec.type = "composite"
<1>1. /\ Alone(r) /\ Open(r) /\ pc[r] = "update" /\ ReliesOn(r) /\ x \in todo[r]
  BY UpsertIsAlone DEF Upsert, UpdateObject, Open, RInv
<1>2. todo[r] \subseteq Existing(r)
  BY <1>1 DEF IInv, RequestInv, ExistingAreHeld
<1>3. x \in Asked(body[r]) /\ body[r] \in Bodies /\ (Typed(r) => spec.owner # Unset)
  <2>1. body[r] \in Bodies /\ Accepted(body[r]) /\ body[r].route \in {"add", "update", "bulk_upsert"}
    BY <1>1, PiecesAreAsked, ObjectAssumption DEF IInv, RequestInv, RouteShape, Upserting
  <2>2. ~ Typed(r) => body[r].main \in Asked(body[r])
    BY <2>1 DEF Accepted, AcceptedUntyped, Typed
  <2>3. x \in Asked(body[r])
    BY <1>1, <1>2, <2>2 DEF Existing, Pieces
  <2> QED
    BY <2>1, <2>3 DEF Accepted, AcceptedTyped, Typed
<1>4. CASE Refuse(r, 400)
  <2>1. ASSUME feasible[r], changed[r] = {}
        PROVE  ~Typed(r) => old # {} /\ \A o \in old : o.type = spec.type
    <3>1. PICK p \in Seen(r).objects : p.id = x /\ p.type = spec.type
      BY <1>1, <1>3, <2>1, AskedAreThere
    <3> QED
      BY <3>1, OneRow DEF RowsOf
  <2>2. CASE ~Typed(r) /\ (old = {} \/ (part[r] = "main" /\ \E o \in {updated(p) : p \in old} : o.type # spec.type))
    <3>1. ASSUME NEW p \in old, ~Typed(r)
          PROVE  updated(p).type = p.type
      <4>1. p \in ObjectRow
        BY SeenIsTyped DEF RowsOf, Tables, IInv
      <4> HIDE DEF spec, old
      <4> QED
        BY <3>1, <4>1 DEF ObjectRow
    <3> HIDE DEF updated, spec, old
    <3> QED
      BY <1>1, <1>4, <2>1, <2>2, <3>1, RefuseRelies
  <2>3. CASE ~ (~Typed(r) /\ (old = {} \/ (part[r] = "main" /\ \E o \in {updated(p) : p \in old} : o.type # spec.type)))
    <3>1. answer' = answer /\ pc'[r] # "done"
      BY <1>1, <2>3 DEF UpdateObject, Goto, IInv, TypeOK
    <3> QED
      BY <1>1, <1>4, <3>1 DEF Refuse, End, Goto, IInv, TypeOK
  <2> QED
    BY <2>2, <2>3
<1>5. CASE ~ Refuse(r, 400)
  <2>1. /\ todo'[r] = todo[r] \ {x} /\ UNCHANGED <<tableVars, body, answer, shared, ids, checked, doomed, shown, feasible, changed>>
        /\ cut'[r].objects = cut[r].objects \cup old
        /\ \A o \in put'[r].objects :
               \/ o \in put[r].objects /\ o.id # x
               \/ \E p \in old : o.id = x /\ p.id = x /\ o.owner = IF spec.owner = Unset THEN p.owner ELSE spec.owner
        /\ put[r].objects \ old \subseteq put'[r].objects
        /\ Goto(r, IF todo[r] # {x} THEN "update" ELSE IF composite THEN "insert" ELSE "data")
        /\ part'[r] = IF composite THEN "subobjects" ELSE part[r]
    BY <1>5, UpdateWrites
  <2>2. pc'[r] = IF todo[r] # {x} THEN "update" ELSE IF composite THEN "insert" ELSE "data"
    BY <2>1 DEF Goto, IInv, TypeOK
  <2>3. composite => todo[r] = {x}
    BY <1>1, <1>2 DEF Existing, Pieces
  <2>4. Held(r) \subseteq Held(r)' /\ Held(r)' \subseteq Held(r) \cup {x}
    <3>1. \A o \in old : o.id = x
      BY DEF RowsOf
    <3> HIDE DEF old, spec
    <3> QED
      BY <2>1, <3>1 DEF Held, IdsOf
  <2>5. Gone(r)' = {}
    BY <2>2 DEF IInv, RequestInv, DeletesAreLast
  <2>6. /\ IsAdmin(r)' = IsAdmin(r) /\ Typed(r)' = Typed(r) /\ db' = db /\ CompositeIds(r)' = CompositeIds(r)
    BY <2>1 DEF tableVars, IsAdmin, Typed, CompositeIds, Composites, IdOf
  <2>7. OwnersAreChecked(r)'
    <3>1. pc'[r] = "update" => OwnersAllowed(r, Existing(r))' = OwnersAllowed(r, Existing(r))
      BY <2>1, <2>2, <2>3, <2>6 DEF OwnersAllowed, Existing, Pieces
    <3>2. ~ IsAdmin(r) /\ Typed(r) => spec.owner = body[r].issuer
      BY <1>1, <1>2, <1>3 DEF ReliesOn, OwnersAreChecked, OwnersAllowed
    <3>3. ~ IsAdmin(r) /\ Typed(r) => \A o \in put'[r].objects : o.owner = body[r].issuer
      BY <1>1, <1>3, <2>1, <3>2 DEF ReliesOn, OwnersAreChecked
    <3> QED
      BY <1>1, <2>1, <2>2, <2>4, <2>6, <3>1, <3>3 DEF ReliesOn, OwnersAreChecked, Open
  <2>8. DoomedAreUnshared(r)'
    BY <1>1, <2>1, <2>2, <2>5, <2>6 DEF ReliesOn, DoomedAreUnshared, Deletions, Open
  <2>9. GivenAreHeld(r)'
    BY <1>1, <2>1, <2>4 DEF ReliesOn, GivenAreHeld, NewOf
  <2> QED
    BY <1>1, <2>1, <2>2, <2>7, <2>8, <2>9, WriterRelies DEF Upserting
<1> QED
  BY <1>4, <1>5

LEMMA InsertRelies ==
  ASSUME IInv, HInv, RInv, NEW r \in Requests, InsertObjects(r)
  PROVE  RInv'
<1> DEFINE new == Pieces(r) \cap NewIds
           spec(c) == body[r].writes[c]
<1>1. /\ Alone(r) /\ Open(r) /\ pc[r] = "insert" /\ ReliesOn(r)
  BY UpsertIsAlone DEF Upsert, InsertObjects, Open, RInv
<1>2. CASE Refuse(r, 403)
  BY <1>1, <1>2, RefuseRelies
<1>3. CASE ~ Refuse(r, 403)
  <2>1. /\ OwnersAllowed(r, new)
        /\ \A c \in NewIds : c \notin new => ids'[r][c] = ids[r][c]
        /\ \A c \in new : lastId < ids'[r][c] /\ ids'[r][c] <= lastId'
        /\ \A o \in put'[r].objects :
              \/ o \in put[r].objects
              \/ \E c \in new : o.id = ids'[r][c] /\ o.owner = IF spec(c).owner = Unset THEN body[r].issuer ELSE spec(c).owner
        /\ put[r].objects \subseteq put'[r].objects
        /\ \A c \in new : \E o \in put'[r].objects : o.id = ids'[r][c]
        /\ UNCHANGED <<db, hidden, body, answer, cut, shared, todo, checked, doomed, shown, feasible, changed>>
    <3>1. /\ OwnersAllowed(r, new)
          /\ \A c \in NewIds : ids'[r][c] = IF c \in new THEN lastId + Rank(c, new) ELSE ids[r][c]
          /\ \A c \in new : lastId < ids'[r][c] /\ ids'[r][c] <= lastId'
          /\ \A o \in put'[r].objects :
                \/ o \in put[r].objects
                \/ \E c \in new :
                      /\ o.id = ids'[r][c] /\ o.type = body[r].writes[c].type
                      /\ o.owner = IF body[r].writes[c].owner = Unset THEN body[r].issuer ELSE body[r].writes[c].owner
          /\ put[r].objects \subseteq put'[r].objects
          /\ \A c \in new : \E o \in put'[r].objects : o.id = ids'[r][c] /\ o.type = body[r].writes[c].type
          /\ UNCHANGED <<db, hidden, body, answer, cut, shared, todo, checked, doomed, shown, feasible, changed>>
      BY <1>3, InsertWrites
    <3> HIDE DEF new
    <3> QED
      BY <3>1
  <2>2. pc'[r] \in {"insert", "authorize", "data"}
    <3>1. \E step \in {"insert", "authorize", "data"} : Goto(r, step)
      BY <1>3, InsertWrites
    <3> QED
      BY <3>1 DEF Goto, IInv, TypeOK
  <2>3. Held(r) \subseteq Held(r)' /\ \A c \in new : ids'[r][c] \in Held(r)'
    BY <2>1 DEF Held, IdsOf
  <2>4. \A o \in db.objects : o.id \in Held(r)' => o.id \in Held(r)
    <3>1. lastId \in Int /\ \A o \in db.objects : o.id \in Int /\ o.id <= lastId
      BY DEF IInv, TypeOK, Tables, ObjectRow, Ids, IdsAreTaken
    <3>2. \A c \in new : ids'[r][c] \notin IdsOf(db.objects)
      BY <2>1, <3>1 DEF IdsOf, StepOf, Alone
    <3> HIDE DEF new
    <3> QED
      BY <2>1, <3>2 DEF Held, IdsOf
  <2>5. Gone(r)' = {}
    <3>1. Gone(r) = {} /\ cut'[r] = cut[r]
      BY <1>1, <2>1 DEF IInv, RequestInv, DeletesAreLast
    <3> QED
      BY <2>1, <3>1 DEF Gone, IdsOf
  <2>6. /\ IsAdmin(r)' = IsAdmin(r) /\ Typed(r)' = Typed(r) /\ body'[r] = body[r]
    BY <2>1 DEF IsAdmin, Typed
  <2>7. OwnersAreChecked(r)'
    <3>1. ~ IsAdmin(r) /\ Typed(r) => \A o \in put'[r].objects : o.owner = body[r].issuer
      BY <1>1, <2>1 DEF ReliesOn, OwnersAreChecked, OwnersAllowed
    <3> QED
      BY <1>1, <2>1, <2>2, <2>4, <2>6, <3>1 DEF ReliesOn, OwnersAreChecked, Open
  <2>8. doomed[r] = {} \/ body[r].route \notin {"add", "update", "delete"}
    BY <1>1 DEF ReliesOn, DoomedAreUnshared, Deletions, IInv, RequestInv, RouteShape, StepsOf
  <2>9. DoomedAreUnshared(r)'
    BY <1>1, <2>1, <2>2, <2>5, <2>6, <2>8 DEF DoomedAreUnshared, Deletions, Open
  <2>10. GivenAreHeld(r)'
    BY <1>1, <2>1, <2>3 DEF ReliesOn, GivenAreHeld, NewOf
  <2> QED
    BY <1>1, <2>1, <2>2, <2>7, <2>9, <2>10, WriterRelies DEF Upserting
<1> QED
  BY <1>2, <1>3

LEMMA DeleteRowRelies ==
  ASSUME IInv, HInv, RInv, NEW r \in Requests, NEW x \in Ids, DeleteRow(r, x)
  PROVE  RInv'
<1> DEFINE old == [NoRows EXCEPT !.objects = RowsOf(Seen(r), x)]
<1>1. Alone(r) /\ Open(r) /\ pc[r] = "delete" /\ ReliesOn(r) /\ x \in todo[r]
  BY DeleteIsAlone DEF Delete, Commit, DeleteRow, Open, RInv
<1>2. /\ Replace(r, old, NoRows) /\ Goto(r, IF todo[r] = {x} THEN "cascade" ELSE "delete")
      /\ todo' = [todo EXCEPT ![r] = @ \ {x}]
      /\ UNCHANGED <<tableVars, body, answer, shared, part, ids, checked, doomed, shown, feasible, changed>>
  BY DEF DeleteRow
<1>3. db' = db /\ pc'[r] \in {"cascade", "delete"} /\ todo'[r] = todo[r] \ {x}
  BY <1>2 DEF Goto, IInv, TypeOK, tableVars
<1>4. old.objects = RowsOf(Seen(r), x) /\ NoRows.objects = {} /\ \A o \in RowsOf(Seen(r), x) : o.id = x
  BY DEF NoRows, RowsOf
<1> HIDE DEF old
<1>5. /\ put'[r].objects = (put[r].objects \ old.objects) \cup NoRows.objects
      /\ cut'[r].objects = cut[r].objects \cup old.objects
  BY <1>2, <1>3, Replaced DEF IInv
<1>6. /\ Held(r) \subseteq Held(r)' /\ Held(r)' \subseteq Held(r) \cup {x} /\ Gone(r)' \subseteq Gone(r) \cup {x}
      /\ put'[r].objects \subseteq put[r].objects
  BY <1>4, <1>5 DEF Held, Gone, IdsOf
<1>7. IsAdmin(r)' = IsAdmin(r) /\ Typed(r)' = Typed(r) /\ CompositeIds(r)' = CompositeIds(r)
  BY <1>2 DEF IsAdmin, Typed, CompositeIds, Composites, IdOf
<1>8. OwnersAreChecked(r)'
  BY <1>1, <1>2, <1>3, <1>6, <1>7 DEF ReliesOn, OwnersAreChecked, Open
<1>9. DoomedAreUnshared(r)'
  BY <1>1, <1>2, <1>3, <1>6, <1>7 DEF ReliesOn, DoomedAreUnshared, Deletions, Open
<1>10. GivenAreHeld(r)'
  BY <1>1, <1>2, <1>6 DEF ReliesOn, GivenAreHeld, NewOf
<1> QED
  BY <1>1, <1>2, <1>3, <1>8, <1>9, <1>10, WriterRelies DEF Late

\* The objects of a body of /objects/bulk_upsert, new and old, are there for the issuer.
LEMMA PiecesAreThere ==
  ASSUME IInv, HInv, RInv, NEW r \in Requests, pc[r] = "data", Typed(r), feasible[r], changed[r] = {},
         NEW c \in Pieces(r)
  PROVE  \E o \in Visible(body[r].issuer, Seen(r)) : o.id = IdOf(r, c) /\ o.type = body[r].writes[c].type
<1>1. Open(r) /\ c \in Asked(body[r]) /\ c \in Refs /\ ReliesOn(r)
  BY DEF Open, Pieces, Asked, RInv
<1>2. CASE c \in NewIds
  <2>1. c \in Given(r) /\ c \in Pending(r)
    BY <1>1, <1>2 DEF Given, Pending
  <2>2. ids[r][c] \in IdsOf(put[r].objects) /\ BareAt(Seen(r), ids[r][c], body[r].writes[c].type)
    BY <2>1 DEF IInv, RequestInv, SeenIsWhole
  <2>3. PICK p \in put[r].objects : p.id = ids[r][c]
    BY <2>2 DEF IdsOf
  <2>4. p \in Seen(r).objects /\ p.type = body[r].writes[c].type
    BY <2>2, <2>3, SeenRows DEF BareAt
  <2>5. p.id \notin hidden
    BY <1>1, <1>2, <2>3 DEF HInv, IdsAreFresh, NewOf
  <2>6. p \in Visible(body[r].issuer, Seen(r))
    BY <1>1, <2>3, <2>4, <2>5 DEF Visible, ReliesOn, OwnersAreChecked, IsAdmin
  <2> QED
    BY <1>2, <2>3, <2>4, <2>6 DEF IdOf
<1>3. CASE c \notin NewIds
  <2>1. c \in Asked(body[r]) \cap Ids /\ IdOf(r, c) = c
    BY <1>1, <1>3 DEF Refs, IdOf
  <2> QED
    BY <1>1, <2>1, AskedAreThere DEF Visible
<1> QED
  BY <1>2, <1>3

\* /objects/update finds the data of what it updates.
LEMMA DataIsThere ==
  ASSUME IInv, HInv, RInv, NEW r \in Requests, pc[r] = "data", ~ Typed(r), feasible[r], changed[r] = {}
  PROVE  ~ DataIsMissing(r)
<1> SUFFICES ASSUME NEW c \in SimplePieces(r), c \in Ids
             PROVE  c \in IdsOf(OldData(r))
  BY DEF DataIsMissing
<1>1. Open(r) /\ c \in Pieces(r) /\ c \in Existing(r) /\ IdOf(r, c) = c
  BY DEF Open, SimplePieces, Existing, IdOf, Ids, NewIds
<1>2. c \in Asked(body[r])
  <2>1. body[r].main \in Asked(body[r])
    <3>1. Accepted(body[r]) /\ body[r].route \in {"add", "update", "bulk_upsert"}
      BY <1>1, PiecesAreAsked, ObjectAssumption DEF IInv, RequestInv, RouteShape, Upserting
    <3> QED
      BY <3>1 DEF Accepted, AcceptedUntyped, Typed
  <2> QED
    BY <1>1, <2>1 DEF Pieces
<1>3. PICK p \in Seen(r).objects : p.id = c /\ p.type = body[r].writes[c].type
  BY <1>1, <1>2, AskedAreThere
<1>4. c \in IdsOf(db.objects)
  BY <1>1, <1>2, AskedAreThere
<1>5. c \in Held(r) /\ c \notin PendingIds(r) /\ c \notin Gone(r)
  <2>1. c \in IdsOf(put[r].objects)
    BY <1>1 DEF IInv, RequestInv, ExistingAreHeld
  <2>2. \A d \in Pending(r) : d \in NewIds
    BY DEF Pending, Given, Composites
  <2>3. c \notin NewOf(r)
    BY <1>1, <1>4 DEF HInv, IdsAreFresh
  <2> QED
    BY <2>1, <2>2, <2>3 DEF Held, PendingIds, NewOf, Gone
<1>6. PICK o \in Seen(r).objects, d \in Seen(r).data : ObjectAt(Seen(r), c, o, d)
  BY <1>3, <1>5 DEF IInv, RequestInv, SeenIsWhole, WholeAt, NothingAt
<1>7. d.id = c /\ d.table = body[r].writes[c].type
  BY <1>3, <1>6 DEF ObjectAt
<1> QED
  BY <1>1, <1>7 DEF OldData, IdsOf

LEMMA WriteRelies ==
  ASSUME IInv, HInv, RInv, NEW r \in Requests, WriteData(r)
  PROVE  RInv'
<1> DEFINE refused == IF Typed(r) THEN ~HaveTypes(r, Pieces(r)) ELSE DataIsMissing(r)
           old == [objects |-> {}, data |-> OldData(r), items |-> OldListItems(r)]
           new == [objects |-> {}, data |-> NewData(r), items |-> NewListItems(r)]
<1>1. Alone(r) /\ Open(r) /\ pc[r] = "data"
  BY UpsertIsAlone DEF Upsert, WriteData, Open
<1>2. CASE refused
  <2>1. Refuse(r, 400)
    BY <1>2 DEF WriteData
  <2>2. feasible[r] => changed[r] # {}
    BY <1>1, <1>2, PiecesAreThere, DataIsThere DEF HaveTypes
  <2> QED
    BY <1>1, <2>1, <2>2, RefuseRelies
<1>3. CASE ~ refused
  <2>1. /\ Replace(r, old, new)
        /\ Goto(r, IF Typed(r) THEN IF Composites(r) # {} THEN "unlink" ELSE "authorize_delete"
                   ELSE IF part[r] = "main" THEN "commit" ELSE "exist")
        /\ UNCHANGED <<tableVars, body, answer, shared, part, todo, ids, checked, doomed, shown, feasible, changed>>
    BY <1>3 DEF WriteData
  <2>2. pc'[r] \in {"unlink", "authorize_delete", "commit", "exist"}
    BY <2>1 DEF Goto, IInv, TypeOK
  <2>3. old.objects = {} /\ new.objects = {}
    OBVIOUS
  <2> HIDE DEF old, new
  <2>4. SameObjects(r)
    BY <2>1, <2>3, NotReplaced DEF SameObjects, IInv, tableVars
  <2> QED
    BY <1>1, <2>1, <2>2, <2>4, QuietRelies DEF Upserting, Late, Deletions
<1> QED
  BY <1>2, <1>3

LEMMA CheckSubobjectsRelies ==
  ASSUME IInv, HInv, RInv, NEW r \in Requests, CheckSubobjects(r)
  PROVE  RInv'
<1>1. Alone(r) /\ Open(r) /\ pc[r] = "exist"
  BY UpsertIsAlone DEF Upsert, CheckSubobjects, Open
<1>2. CASE ~ (Subobjects(r) \subseteq IdsOf(Seen(r).objects))
  BY <1>1, <1>2, LinkedAreThere, RefuseRelies DEF CheckSubobjects
<1>3. CASE Subobjects(r) \subseteq IdsOf(Seen(r).objects)
  <2>1. Goto(r, "unlink") /\ UNCHANGED <<tableVars, body, answer, writeVars, workVars, feasible, changed>>
    BY <1>3 DEF CheckSubobjects
  <2>2. SameObjects(r) /\ pc'[r] = "unlink" /\ UNCHANGED <<checked, doomed>>
    BY <2>1 DEF SameObjects, tableVars, writeVars, workVars, Goto, IInv, TypeOK
  <2> QED
    BY <1>1, <2>2, QuietRelies DEF Upserting, Late, Deletions
<1> QED
  BY <1>2, <1>3

LEMMA UnlinkRelies ==
  ASSUME IInv, HInv, RInv, NEW r \in Requests, Unlink(r)
  PROVE  RInv'
<1> DEFINE old == [objects |-> {}, items |-> OldItems(r),
                   data |-> {d \in Seen(r).data : d.id \in CompositeIds(r) /\ d.table = "composite"}]
           new == [NoRows EXCEPT !.data = {[id |-> x, table |-> "composite", by |-> r] : x \in CompositeIds(r)}]
<1>1. Alone(r) /\ Open(r) /\ pc[r] = "unlink"
  BY UpsertIsAlone DEF Upsert, Unlink, Open
<1>2. /\ Replace(r, old, new) /\ Goto(r, "link")
      /\ UNCHANGED <<tableVars, body, answer, shared, part, ids, checked, doomed, shown, feasible, changed>>
  BY DEF Unlink
<1>3. pc'[r] = "link"
  BY <1>2 DEF Goto, IInv, TypeOK
<1>4. old.objects = {} /\ new.objects = {}
  BY DEF NoRows
<1> HIDE DEF old, new
<1>5. SameObjects(r)
  BY <1>2, <1>4, NotReplaced DEF SameObjects, IInv, tableVars
<1> QED
  BY <1>1, <1>2, <1>3, <1>5, QuietRelies DEF Upserting, Late, Deletions

LEMMA LinkRelies ==
  ASSUME IInv, HInv, RInv, NEW r \in Requests, Link(r)
  PROVE  RInv'
<1>1. Alone(r) /\ Open(r) /\ pc[r] = "link"
  BY UpsertIsAlone DEF Upsert, Link, Open
<1>2. ASSUME NEW x \in todo[r], RowsOf(Seen(r), x) = {}, Refuse(r, 500)
      PROVE  RInv'
  <2>1. x \in Subobjects(r)
    BY <1>1 DEF HInv, WriterInv, SharedAreThere
  <2>2. feasible[r] => changed[r] # {}
    BY <1>1, <1>2, <2>1, LinkedAreThere DEF RowsOf, IdsOf
  <2> QED
    BY <1>1, <1>2, <2>2, RefuseRelies
<1>3. ASSUME NEW x \in todo[r],
             UNCHANGED <<tableVars, pc, body, answer, put, cut, part, ids, checked, doomed, shown, feasible, changed>>
      PROVE  RInv'
  <2>1. SameObjects(r) /\ pc'[r] = pc[r]
    BY <1>3 DEF SameObjects, tableVars
  <2> QED
    BY <1>1, <1>3, <2>1, QuietRelies DEF Upserting, Late, Deletions
<1>4. ASSUME Put(r, [NoRows EXCEPT !.items = NewItems(r)]), Goto(r, AfterLink(r)),
             UNCHANGED <<tableVars, body, answer, cut, shared, workVars, feasible, changed>>
      PROVE  RInv'
  <2> DEFINE new == [NoRows EXCEPT !.items = NewItems(r)]
  <2>1. Put(r, new) /\ new.objects = {}
    BY <1>4 DEF NoRows
  <2>2. pc'[r] \in {"authorize_delete", "marked"}
    BY <1>4 DEF Goto, AfterLink, IInv, TypeOK
  <2> HIDE DEF new
  <2>3. put'[r].objects = put[r].objects \cup new.objects
    BY <1>4, <2>1, Inserted DEF IInv, tableVars
  <2>4. SameObjects(r) /\ UNCHANGED <<checked, doomed>>
    BY <1>4, <2>1, <2>3 DEF SameObjects, tableVars, workVars
  <2> QED
    BY <1>1, <2>2, <2>4, QuietRelies DEF Upserting, Late, Deletions
<1> QED
  BY <1>2, <1>3, <1>4 DEF Link

\* What is in no composite object after the contents were replaced was at most in those.
LEMMA UnreferencedWereIn ==
  ASSUME IInv, HInv, NEW r \in Requests, pc[r] = "marked", NEW x \in Unreferenced(r), NEW i \in db.items, i.sub = x
  PROVE  i.id \in CompositeIds(r)
<1>1. RequestInv(r) /\ WriterInv(r) /\ body[r] \in Body
  BY DEF IInv, HInv, TypeOK
<1>2. Gone(r) = {} /\ PendingIds(r) = {}
  BY <1>1 DEF RequestInv, DeletesAreLast, PendingIds, Pending, Given
<1>3. x \in Ids /\ i \notin Seen(r).items
  BY <1>1 DEF Unreferenced, Body
<1>4. i \in cut[r].items
  BY <1>3, SeenRows
<1>5. i.id \in IdsOf(put[r].data)
  BY <1>1, <1>2, <1>4 DEF WriterInv, ContentsGoWithData
<1>6. PICK d \in put[r].data : d.id = i.id
  BY <1>5 DEF IdsOf
<1>7. i.id \in Held(r) /\ i.id \in Ids
  BY <1>1, <1>5 DEF RequestInv, WritesAreHeld, IInv, TypeOK, Tables, ItemRow
<1>8. PICK o \in Seen(r).objects, e \in Seen(r).data : ObjectAt(Seen(r), i.id, o, e)
  <2>1. WholeAt(Seen(r), i.id)
    BY <1>1, <1>2, <1>7 DEF RequestInv, SeenIsWhole
  <2>2. d \in Seen(r).data
    BY SeenRows
  <2> QED
    BY <1>6, <2>1, <2>2 DEF WholeAt, NothingAt
<1>9. d.table = o.type /\ o.id = i.id
  BY <1>6, <1>8, SeenRows DEF ObjectAt
<1>10. PICK p \in db.objects, f \in db.data : ObjectAt(db, i.id, p, f)
  BY <1>7 DEF IInv, WholeAt, NothingAt
<1>11. p.type = "composite" /\ p.id = i.id
  BY <1>3, <1>10 DEF ObjectAt, Ids
<1>12. o.type = "composite"
  <2>1. CASE o \in put[r].objects
    BY <1>1, <1>9, <1>11, <2>1 DEF RequestInv, TypesKept
  <2>2. CASE o \notin put[r].objects
    <3>1. o \in db.objects
      BY <2>2, SeenRows
    <3> QED
      BY <1>9, <1>10, <1>11, <3>1 DEF ObjectAt
  <2> QED
    BY <2>1, <2>2
<1> QED
  BY <1>1, <1>6, <1>9, <1>12 DEF WriterInv, ContentsGoWithData

LEMMA FindMarkedRelies ==
  ASSUME IInv, HInv, RInv, NEW r \in Requests, FindMarked(r)
  PROVE  RInv'
<1>1. Alone(r) /\ Open(r) /\ pc[r] = "marked" /\ ReliesOn(r)
  BY UpsertIsAlone DEF Upsert, FindMarked, Open, RInv
<1>2. /\ doomed'[r] = Unreferenced(r) /\ pc'[r] \in {"commit", "authorize_delete"}
      /\ UNCHANGED <<tableVars, body, answer, writeVars, part, todo, ids, checked, shown, feasible, changed>>
  BY DEF FindMarked, Goto, IInv, TypeOK
<1>3. SameObjects(r)
  BY <1>2 DEF SameObjects, tableVars, writeVars
<1>4. /\ Held(r)' = Held(r) /\ Gone(r)' = Gone(r) /\ IsAdmin(r)' = IsAdmin(r) /\ Typed(r)' = Typed(r)
      /\ CompositeIds(r)' = CompositeIds(r) /\ GivenAreHeld(r)' /\ body'[r] = body[r]
  BY <1>1, <1>3, SameObjectsKeep
<1>5. OwnersAreChecked(r)'
  BY <1>1, <1>2, <1>3, <1>4 DEF SameObjects, ReliesOn, OwnersAreChecked, Open
<1>6. body[r].route \in {"add", "update"} /\ Gone(r) = {}
  BY <1>1 DEF IInv, RequestInv, RouteShape, StepsOf, DeletesAreLast
<1>7. \A x \in doomed'[r] : \A i \in db.items : i.sub = x => i.id \in CompositeIds(r)
  BY <1>1, <1>2, UnreferencedWereIn
<1>8. DoomedAreUnshared(r)'
  BY <1>2, <1>3, <1>4, <1>6, <1>7 DEF DoomedAreUnshared, Deletions, SameObjects
<1> QED
  BY <1>1, <1>2, <1>3, <1>4, <1>5, <1>8, WriterRelies DEF SameObjects, Late

\* /objects/delete reads the contents of what it deletes ...
LEMMA FindSubobjectsRelies ==
  ASSUME IInv, HInv, RInv, NEW r \in Requests, FindSubobjects(r)
  PROVE  RInv'
<1>1. Alone(r) /\ Open(r) /\ pc[r] = "subobjects"
  BY DeleteIsAlone DEF Delete, Commit, FindSubobjects, Open
<1>2. /\ pc'[r] = "exclusive"
      /\ UNCHANGED <<tableVars, body, answer, writeVars, part, ids, checked, doomed, shown, feasible, changed>>
  BY DEF FindSubobjects, Goto, IInv, TypeOK
<1>3. SameObjects(r)
  BY <1>2 DEF SameObjects, tableVars, writeVars
<1> QED
  BY <1>1, <1>2, <1>3, QuietRelies DEF Late, Deletions

\* ... and deletes of these what nothing else contains.
LEMMA FindExclusiveRelies ==
  ASSUME IInv, HInv, RInv, NEW r \in Requests, FindExclusive(r)
  PROVE  RInv'
<1> DEFINE elsewhere == {i.sub : i \in {j \in db.items : j.id \notin body[r].gone}}
<1>1. Alone(r) /\ Open(r) /\ pc[r] = "exclusive" /\ ReliesOn(r)
  BY DeleteIsAlone DEF Delete, Commit, FindExclusive, Open, RInv
<1>2. /\ doomed'[r] = doomed[r] \cup (todo[r] \ elsewhere) /\ pc'[r] = "authorize_delete"
      /\ UNCHANGED <<tableVars, body, answer, writeVars, part, ids, checked, shown, feasible, changed>>
  BY DEF FindExclusive, Goto, IInv, TypeOK
<1>3. SameObjects(r)
  BY <1>2 DEF SameObjects, tableVars, writeVars
<1>4. /\ Held(r)' = Held(r) /\ Gone(r)' = Gone(r) /\ IsAdmin(r)' = IsAdmin(r) /\ Typed(r)' = Typed(r)
      /\ CompositeIds(r)' = CompositeIds(r) /\ GivenAreHeld(r)' /\ body'[r] = body[r]
  BY <1>1, <1>3, SameObjectsKeep
<1>5. OwnersAreChecked(r)'
  BY <1>1, <1>2, <1>3, <1>4 DEF SameObjects, ReliesOn, OwnersAreChecked, Open
<1>6. body[r].route = "delete" /\ Gone(r) = {} /\ doomed[r] = body[r].gone
  BY <1>1 DEF IInv, RequestInv, RouteShape, StepsOf, DeletesAreLast, ReliesOn, DoomedAreUnshared
<1>7. \A x \in doomed'[r] \ body[r].gone : \A i \in db.items : i.sub = x => i.id \in body[r].gone
  BY <1>2, <1>6
<1>8. DoomedAreUnshared(r)'
  BY <1>2, <1>3, <1>4, <1>6, <1>7 DEF DoomedAreUnshared, Deletions, SameObjects
<1> QED
  BY <1>1, <1>2, <1>3, <1>4, <1>5, <1>8, WriterRelies DEF SameObjects, Late

LEMMA CascadeRelies ==
  ASSUME IInv, HInv, RInv, NEW r \in Requests, Cascade(r)
  PROVE  RInv'
<1> DEFINE old == RowsWith(Seen(r), Gone(r))
<1>1. Alone(r) /\ Open(r) /\ pc[r] = "cascade"
  BY DeleteIsAlone DEF Delete, Commit, Cascade, Open
<1>2. /\ Replace(r, old, NoRows) /\ pc'[r] = "commit"
      /\ UNCHANGED <<tableVars, body, answer, shared, workVars, feasible, changed>>
  BY DEF Cascade, Goto, IInv, TypeOK
<1>3. old.objects = {} /\ NoRows.objects = {}
  BY DEF RowsWith, NoRows, IInv, RequestInv, DeletesAreLast
<1> HIDE DEF old
<1>4. SameObjects(r) /\ UNCHANGED <<checked, doomed>>
  BY <1>2, <1>3, NotReplaced DEF SameObjects, IInv, tableVars, workVars
<1> QED
  BY <1>1, <1>2, <1>4, QuietRelies DEF Late, Deletions

\* The next table is one of those that are left.
LEMMA NextIsLeft ==
  ASSUME NEW ts \in SUBSET Types, ts # {}
  PROVE  NextType(ts) \in ts
<1> DEFINE Leads(k) == TypeOrder[k] \in ts /\ \A j \in 1 .. k - 1 : TypeOrder[j] \notin ts
<1>1. TypeOrder[1] = "link" /\ TypeOrder[2] = "markdown" /\ TypeOrder[3] = "to_do_list" /\ TypeOrder[4] = "composite"
  BY DEF TypeOrder
<1>2. \A j \in 1 .. 3 : j = 1 \/ j = 2 \/ j = 3
  OBVIOUS
<1>3. \E k \in 1 .. 4 : Leads(k)
  <2>1. CASE "link" \in ts
    <3>1. Leads(1)
      BY <1>1, <2>1
    <3> QED
      BY <3>1
  <2>2. CASE "link" \notin ts /\ "markdown" \in ts
    <3>1. Leads(2)
      BY <1>1, <2>2
    <3> QED
      BY <3>1
  <2>3. CASE "link" \notin ts /\ "markdown" \notin ts /\ "to_do_list" \in ts
    <3>1. Leads(3)
      BY <1>1, <2>3
    <3> QED
      BY <3>1
  <2>4. CASE "link" \notin ts /\ "markdown" \notin ts /\ "to_do_list" \notin ts
    <3>1. "composite" \in ts
      BY <2>4 DEF Types
    <3>2. Leads(4)
      BY <1>1, <2>4, <3>1
    <3> QED
      BY <3>2
  <2> QED
    BY <2>1, <2>2, <2>3, <2>4
<1>4. Leads(CHOOSE k \in 1 .. 4 : Leads(k))
  BY <1>3
<1> QED
  BY <1>4 DEF NextType

\* A visible object has its row of data, in the table of its type, and items of that type.
LEMMA VisibleAreWhole ==
  ASSUME IInv, NEW r \in Requests, NEW x \in VisibleIds(r)
  PROVE  \E v \in Visible(body[r].issuer, db), d \in db.data :
            /\ v.id = x /\ x \in body[r].dataIds /\ v.type \in Types
            /\ d.id = x /\ d.table = v.type /\ \A e \in db.data : e.id = x => e = d
            /\ \A i \in db.items : i.id = x => ItemType(i) = v.type
            /\ v.type = "to_do_list" => \E i \in db.items : i.id = x
<1>1. x \in body[r].dataIds /\ \E v \in Visible(body[r].issuer, db) : v.id = x
  BY DEF VisibleIds, IdsOf
<1>2. PICK v \in Visible(body[r].issuer, db) : v.id = x
  BY <1>1
<1>3. v \in db.objects /\ v.type \in Types /\ x \in Ids
  BY <1>2 DEF Visible, IInv, TypeOK, Tables, ObjectRow
<1>4. PICK o \in db.objects, d \in db.data : ObjectAt(db, x, o, d)
  BY <1>2, <1>3 DEF IInv, WholeAt, NothingAt
<1>5. o = v
  BY <1>2, <1>3, <1>4 DEF ObjectAt
<1> QED
  BY <1>1, <1>2, <1>3, <1>4, <1>5 DEF ObjectAt, ItemType

\* A step of a view keeps the invariant if it keeps what the view relies on.
LEMMA ViewingRelies ==
  ASSUME IInv, HInv, RInv, NEW r \in Requests, View(r), ViewUnchanged(r), pc'[r] \in {"types", "rows", "items"},
         /\ pc'[r] = "types" => shown'[r].rows = {} /\ shown'[r].items = {}
         /\ pc'[r] = "items" => shown'[r].types # {} /\ NextType(shown'[r].types) \in {"to_do_list", "composite"},
         AskedFor(r) \cap changed[r] = {} => ShownSoFar(r)'
  PROVE  RInv'
<1>1. Alone(r) /\ Open(r) /\ Open(r)' /\ ReliesOn(r)
  BY ViewIsAlone DEF RInv, View, ViewAttributes, ViewTypes, ViewRows, ViewItems, FinishView, Open
<1>2. body[r].route = "view"
  BY <1>1 DEF View, ViewAttributes, ViewTypes, ViewRows, ViewItems, FinishView, IInv, RequestInv, RouteShape, StepsOf, Body, Routes, TypeOK
<1>3. SameObjects(r) /\ checked' = checked /\ doomed' = doomed /\ feasible' = feasible
  BY DEF SameObjects, ViewUnchanged, tableVars, writeVars
<1>4. /\ Held(r)' = Held(r) /\ Gone(r)' = Gone(r) /\ IsAdmin(r)' = IsAdmin(r) /\ Typed(r)' = Typed(r)
      /\ CompositeIds(r)' = CompositeIds(r) /\ GivenAreHeld(r)' /\ body'[r] = body[r]
  BY <1>1, <1>3, SameObjectsKeep
<1>5. OwnersAreChecked(r)'
  BY <1>1, <1>3, <1>4 DEF SameObjects, ReliesOn, OwnersAreChecked
<1>6. DoomedAreUnshared(r)'
  BY <1>1, <1>2, <1>3, <1>4 DEF SameObjects, ReliesOn, DoomedAreUnshared
<1>7. ViewIsExact(r)'
  BY <1>1, <1>3, <1>4 DEF SameObjects, ViewIsExact, AskedFor
<1>8. Feasible(body[r])' = Feasible(body[r])
  BY <1>3, <1>4 DEF SameObjects, Feasible, Visible
<1>9. StillFeasible(r)' /\ RefusalHasCause(r)'
  BY <1>1, <1>3, <1>8 DEF SameObjects, ReliesOn, StillFeasible, RefusalHasCause
<1> QED
  BY <1>1, <1>4, <1>5, <1>6, <1>7, <1>9, OthersRely DEF RInv, ReliesOn

\* What the statements of a view see stays.
LEMMA SeenStays ==
  ASSUME NEW r \in Requests, ViewUnchanged(r)
  PROVE  /\ db' = db /\ body' = body
         /\ IdsOf(Visible(body[r].issuer, db))' = IdsOf(Visible(body[r].issuer, db)) /\ VisibleIds(r)' = VisibleIds(r)
<1>1. db' = db /\ body' = body /\ hidden' = hidden
  BY DEF ViewUnchanged, tableVars
<1>2. Visible(body[r].issuer, db)' = Visible(body[r].issuer, db)
  BY <1>1 DEF Visible
<1>3. IdsOf(Visible(body[r].issuer, db))' = IdsOf(Visible(body[r].issuer, db))
  BY <1>2 DEF IdsOf
<1> QED
  BY <1>1, <1>3 DEF VisibleIds

LEMMA AttributesRely ==
  ASSUME IInv, HInv, RInv, NEW r \in Requests, ViewAttributes(r)
  PROVE  RInv'
<1>1. ReliesOn(r) /\ pc[r] = "attributes" /\ View(r) /\ ViewUnchanged(r)
  BY DEF RInv, ViewAttributes, View
<1>2. /\ shown'[r].attributes = IdsOf(Visible(body[r].issuer, db)) \cap body[r].ids
      /\ shown'[r].rows = shown[r].rows /\ shown'[r].items = shown[r].items /\ pc'[r] = "types"
  BY DEF ViewAttributes, Show, Goto, IInv, TypeOK, Shown
<1>3. shown[r].rows = {} /\ shown[r].items = {}
  BY <1>1 DEF ReliesOn, ViewIsExact
<1>4. shown'[r].attributes = body'[r].ids \cap IdsOf(Visible(body[r].issuer, db))'
  BY <1>1, <1>2, SeenStays
<1>5. ShownSoFar(r)'
  BY <1>2, <1>4 DEF ShownSoFar
<1> QED
  BY <1>1, <1>2, <1>3, <1>5, ViewingRelies

LEMMA TypesRely ==
  ASSUME IInv, HInv, RInv, NEW r \in Requests, ViewTypes(r)
  PROVE  RInv'
<1> DEFINE found == {o.type : o \in {v \in Visible(body[r].issuer, db) : v.id \in body[r].dataIds}}
<1>1. ReliesOn(r) /\ pc[r] = "types" /\ View(r) /\ ViewUnchanged(r)
  BY DEF RInv, ViewTypes, View
<1>2. /\ shown'[r].types = IF Cardinality(body[r].dataIds) < 4 THEN found ELSE Types
      /\ shown'[r].rows = shown[r].rows /\ shown'[r].items = shown[r].items
      /\ shown'[r].attributes = shown[r].attributes /\ pc'[r] = "rows"
  BY DEF ViewTypes, Show, Goto, IInv, TypeOK, Shown
<1>3. shown[r].rows = {} /\ shown[r].items = {} /\ (AskedFor(r) \cap changed[r] = {} => ShownSoFar(r))
  BY <1>1 DEF ReliesOn, ViewIsExact
<1>4. \A x \in VisibleIds(r) : \E t \in shown'[r].types :
         (\A d \in db.data : d.id = x => d.table = t) /\ (\A i \in db.items : i.id = x => ItemType(i) = t)
  <2> SUFFICES ASSUME NEW x \in VisibleIds(r)
               PROVE  \E t \in shown'[r].types :
                         (\A d \in db.data : d.id = x => d.table = t) /\ (\A i \in db.items : i.id = x => ItemType(i) = t)
    OBVIOUS
  <2>1. PICK v \in Visible(body[r].issuer, db), d \in db.data :
            /\ v.id = x /\ x \in body[r].dataIds /\ v.type \in Types
            /\ d.id = x /\ d.table = v.type /\ \A e \in db.data : e.id = x => e = d
            /\ \A i \in db.items : i.id = x => ItemType(i) = v.type
            /\ v.type = "to_do_list" => \E i \in db.items : i.id = x
    BY VisibleAreWhole
  <2>2. v.type \in shown'[r].types
    BY <1>2, <2>1
  <2> QED
    BY <2>1, <2>2
<1>5. ASSUME AskedFor(r) \cap changed[r] = {}
      PROVE  ShownSoFar(r)'
  <2>1. shown'[r].attributes = body'[r].ids \cap IdsOf(Visible(body[r].issuer, db))'
    BY <1>1, <1>2, <1>3, <1>5, SeenStays DEF ShownSoFar
  <2> QED
    BY <1>1, <1>2, <1>3, <1>4, <2>1, SeenStays DEF ShownSoFar
<1> QED
  BY <1>1, <1>2, <1>5, ViewingRelies

LEMMA RowsRely ==
  ASSUME IInv, HInv, RInv, NEW r \in Requests, ViewRows(r)
  PROVE  RInv'
<1> DEFINE t == NextType(shown[r].types)
           plain == t \in {"link", "markdown"}
<1>1. ReliesOn(r) /\ pc[r] = "rows" /\ View(r) /\ ViewUnchanged(r) /\ shown[r].types # {} /\ shown[r].types \subseteq Types
  BY DEF RInv, ViewRows, View, IInv, TypeOK, Shown
<1>2. t \in shown[r].types
  BY <1>1, NextIsLeft
<1> HIDE DEF t
<1>3. /\ shown'[r].rows = shown[r].rows \cup RowsShown(r, t) /\ shown'[r].items = shown[r].items
      /\ shown'[r].attributes = shown[r].attributes
      /\ shown'[r].types = IF plain THEN shown[r].types \ {t} ELSE shown[r].types
      /\ pc'[r] = IF plain THEN "rows" ELSE "items"
  <2>1. /\ shown' = [shown EXCEPT ![r].rows = @ \cup RowsShown(r, t), ![r].types = IF plain THEN @ \ {t} ELSE @]
        /\ Goto(r, IF plain THEN "rows" ELSE "items")
        /\ shown \in [Requests -> Shown] /\ pc \in [Requests -> Step]
    BY DEF ViewRows, t, IInv, TypeOK
  <2> HIDE DEF plain
  <2> QED
    BY <2>1 DEF Goto, Shown
<1>4. pc'[r] = "items" => t \in {"to_do_list", "composite"} /\ shown'[r].types = shown[r].types
  BY <1>1, <1>2, <1>3 DEF Types
<1>5. ASSUME AskedFor(r) \cap changed[r] = {}
      PROVE  ShownSoFar(r)'
  <2>1. ShownSoFar(r)
    BY <1>1, <1>5 DEF ReliesOn, ViewIsExact
  <2>2. shown'[r].attributes = body'[r].ids \cap IdsOf(Visible(body[r].issuer, db))'
    BY <1>1, <1>3, <2>1, SeenStays DEF ShownSoFar
  <2>3. \A d \in shown'[r].rows : d \in db.data /\ d.id \in VisibleIds(r)
    BY <1>1, <1>3, <2>1 DEF ShownSoFar, RowsShown
  <2>4. \A d \in db.data : d.id \in VisibleIds(r) => d \in shown'[r].rows \/ d.table \in shown'[r].types
    BY <1>1, <1>3, <2>1 DEF ShownSoFar, RowsShown
  <2>5. \A d \in db.data : d.id \in VisibleIds(r) /\ d.table = t => d \in shown'[r].rows
    BY <1>3 DEF RowsShown
  <2>6. \A i \in shown'[r].items : i \in db.items /\ i.id \in VisibleIds(r)
    BY <1>1, <1>3, <2>1 DEF ShownSoFar
  <2>7. \A i \in db.items : i.id \in VisibleIds(r) => i \in shown'[r].items \/ ItemType(i) \in shown'[r].types
    BY <1>1, <1>3, <2>1 DEF ShownSoFar, ItemType
  <2>8. pc'[r] = "items" =>
          \A d \in db.data : d.id \in VisibleIds(r) /\ d.table = NextType(shown'[r].types) => d \in shown'[r].rows
    BY <1>4, <2>5 DEF t
  <2> QED
    BY <1>1, <2>2, <2>3, <2>4, <2>6, <2>7, <2>8, SeenStays DEF ShownSoFar
<1>6. pc'[r] = "items" => shown'[r].types # {} /\ NextType(shown'[r].types) \in {"to_do_list", "composite"}
  BY <1>1, <1>4 DEF t
<1>7. pc'[r] \in {"types", "rows", "items"} /\ pc'[r] # "types"
  BY <1>3
<1> QED
  BY <1>1, <1>5, <1>6, <1>7, ViewingRelies

\* The items of what was shown are of what was shown, and to-do lists have some.
LEMMA ItemsFit ==
  ASSUME IInv, NEW r \in Requests, ViewIsExact(r), pc[r] = "items", changed[r] = {},
         NEW t, t = NextType(shown[r].types), NEW x
  PROVE  /\ x \in IdsOf(ItemsShown(r, t)) => x \in IdsOf({d \in shown[r].rows : d.table = t})
         /\ t = "to_do_list" /\ x \in IdsOf({d \in shown[r].rows : d.table = t}) => x \in IdsOf(ItemsShown(r, t))
<1>1. ShownSoFar(r) /\ t \in {"to_do_list", "composite"}
  BY DEF ViewIsExact
<1>2. ASSUME NEW i \in ItemsShown(r, t), i.id = x
      PROVE  x \in IdsOf({d \in shown[r].rows : d.table = t})
  <2>1. i \in db.items /\ x \in VisibleIds(r) /\ ItemType(i) = t
    BY <1>1, <1>2 DEF ItemsShown, ItemType
  <2>2. \E d \in db.data : d.id = x /\ d.table = t
    BY <1>2, <2>1, VisibleAreWhole
  <2>3. \E d \in shown[r].rows : d.id = x /\ d.table = t
    BY <1>1, <2>1, <2>2 DEF ShownSoFar
  <2> QED
    BY <2>3 DEF IdsOf
<1>3. ASSUME NEW d \in shown[r].rows, d.table = t, d.id = x, t = "to_do_list"
      PROVE  x \in IdsOf(ItemsShown(r, t))
  <2>1. d \in db.data /\ x \in VisibleIds(r)
    BY <1>1, <1>3 DEF ShownSoFar
  <2>2. \E i \in db.items : i.id = x /\ ItemType(i) = "to_do_list"
    BY <1>3, <2>1, VisibleAreWhole
  <2>3. PICK i \in db.items : i.id = x /\ ItemType(i) = "to_do_list"
    BY <2>2
  <2>4. i.sub = 0
    BY <2>3 DEF ItemType
  <2>5. i \in ItemsShown(r, t)
    BY <1>3, <2>1, <2>3, <2>4 DEF ItemsShown
  <2> QED
    BY <2>3, <2>5 DEF IdsOf
<1> QED
  BY <1>2, <1>3 DEF IdsOf

LEMMA ItemsRely ==
  ASSUME IInv, HInv, RInv, NEW r \in Requests, ViewItems(r)
  PROVE  RInv'
<1> DEFINE t == NextType(shown[r].types)
           found == IdsOf({d \in shown[r].rows : d.table = t})
           seen == IdsOf(ItemsShown(r, t))
<1>1. ReliesOn(r) /\ pc[r] = "items" /\ View(r) /\ Open(r) /\ shown[r].types # {} /\ t \in {"to_do_list", "composite"}
  BY DEF RInv, ViewItems, View, Open, ReliesOn, ViewIsExact
<1>2. CASE seen \ found # {} \/ (t = "to_do_list" /\ found \ seen # {})
  <2>1. Refuse(r, 500) \/ Refuse(r, 400)
    BY <1>2 DEF ViewItems
  <2>2. changed[r] # {}
    <3>1. ReliesOn(r) => ViewIsExact(r)
      BY DEF ReliesOn
    <3>2. changed[r] = {} => \A x : (x \in seen => x \in found) /\ (t = "to_do_list" /\ x \in found => x \in seen)
      BY <1>1, <3>1, ItemsFit
    <3> HIDE DEF seen, found, t
    <3> QED
      BY <1>2, <3>2
  <2> QED
    BY <1>1, <2>1, <2>2, RefuseRelies
<1>3. CASE ~ (seen \ found # {} \/ (t = "to_do_list" /\ found \ seen # {}))
  <2>1. /\ shown' = [shown EXCEPT ![r].items = @ \cup ItemsShown(r, t), ![r].types = @ \ {t}]
        /\ Goto(r, "rows") /\ ViewUnchanged(r)
    BY <1>3 DEF ViewItems
  <2> HIDE DEF seen, found, t
  <2>2. /\ shown'[r].items = shown[r].items \cup ItemsShown(r, t) /\ shown'[r].types = shown[r].types \ {t}
        /\ shown'[r].attributes = shown[r].attributes /\ shown'[r].rows = shown[r].rows /\ pc'[r] = "rows"
    BY <2>1 DEF Goto, IInv, TypeOK, Shown
  <2>3. ASSUME AskedFor(r) \cap changed[r] = {}
        PROVE  ShownSoFar(r)'
    <3>1. ShownSoFar(r)
      BY <1>1, <2>3 DEF ReliesOn, ViewIsExact
    <3>2. shown'[r].attributes = body'[r].ids \cap IdsOf(Visible(body[r].issuer, db))'
      BY <1>1, <2>1, <2>2, <3>1, SeenStays DEF ShownSoFar
    <3>3. \A d \in shown'[r].rows : d \in db.data /\ d.id \in VisibleIds(r)
      BY <1>1, <2>2, <3>1 DEF ShownSoFar
    <3>4. \A d \in db.data : d.id \in VisibleIds(r) => d \in shown'[r].rows \/ d.table \in shown'[r].types
      BY <1>1, <2>2, <3>1 DEF ShownSoFar, t
    <3>5. \A i \in shown'[r].items : i \in db.items /\ i.id \in VisibleIds(r)
      BY <1>1, <2>2, <3>1 DEF ShownSoFar, ItemsShown
    <3>6. \A i \in db.items : i.id \in VisibleIds(r) /\ ItemType(i) = t => i \in ItemsShown(r, t)
      BY <1>1 DEF ItemsShown, ItemType
    <3>7. \A i \in db.items : i.id \in VisibleIds(r) => i \in shown'[r].items \/ ItemType(i) \in shown'[r].types
      BY <1>1, <2>2, <3>1, <3>6 DEF ShownSoFar
    <3> QED
      BY <2>1, <2>2, <3>2, <3>3, <3>4, <3>5, <3>7, SeenStays DEF ShownSoFar
  <2> QED
    BY <1>1, <2>1, <2>2, <2>3, ViewingRelies
<1> QED
  BY <1>2, <1>3

LEMMA FinishRelies ==
  ASSUME IInv, HInv, RInv, NEW r \in Requests, FinishView(r)
  PROVE  RInv'
<1>1. ReliesOn(r) /\ pc[r] = "rows" /\ Open(r) /\ shown[r].types = {}
  BY DEF RInv, FinishView, Open
<1>2. ASSUME shown[r].attributes = {}, shown[r].rows = {}, feasible[r], changed[r] = {}
      PROVE  FALSE
  <2>1. ShownSoFar(r) /\ Feasible(body[r])
    BY <1>1, <1>2 DEF ReliesOn, ViewIsExact, StillFeasible
  <2>2. body[r].route = "view"
    BY <1>1 DEF IInv, RequestInv, RouteShape, StepsOf, Body, Routes, TypeOK
  <2>3. PICK x \in IdsOf(Visible(body[r].issuer, db)) : x \in body[r].ids \cup body[r].dataIds
    BY <2>1, <2>2 DEF Feasible
  <2>4. x \notin body[r].ids
    BY <1>1, <1>2, <2>1, <2>3 DEF ShownSoFar
  <2>5. x \in VisibleIds(r)
    BY <2>3, <2>4 DEF VisibleIds
  <2>6. \E d \in db.data : d.id = x
    BY <2>5, VisibleAreWhole
  <2> QED
    BY <1>1, <1>2, <2>1, <2>5, <2>6 DEF ShownSoFar
<1>3. CASE Refuse(r, 404) /\ shown[r].attributes = {} /\ shown[r].rows = {}
  BY <1>1, <1>2, <1>3, RefuseRelies
<1>4. CASE Refuse(r, 200)
  BY <1>1, <1>4, RefuseRelies
<1> QED
  BY <1>3, <1>4 DEF FinishView

LEMMA RelianceStarts == Init => RInv
<1> SUFFICES ASSUME Init, NEW r \in Requests PROVE ReliesOn(r)
  BY DEF RInv
<1>1. Idle(r) /\ RefusalHasCause(r)
  BY DEF Init, Idle, Open, NothingShown, RefusalHasCause
<1> QED
  BY <1>1, IdleDoRely DEF IdleRely

LEMMA RelianceHolds == IInv /\ HInv /\ RInv /\ [Next]_vars => RInv'
<1> SUFFICES ASSUME IInv, HInv, RInv, [Next]_vars PROVE RInv'
  OBVIOUS
<1>1. IInv'
  BY Preserved
<1>2. ASSUME NEW r \in Requests, Upsert(r)
      PROVE  RInv'
  BY <1>1, <1>2, InsertRelies, AuthorizeRelies, CheckExistingRelies, WriteRelies, CheckSubobjectsRelies, UpdateRelies,
     UnlinkRelies, LinkRelies, FindMarkedRelies DEF Upsert
<1>3. ASSUME NEW r \in Requests, Delete(r)
      PROVE  RInv'
  BY <1>3, FindSubobjectsRelies, FindExclusiveRelies, AuthorizeDeleteRelies, DeleteRowRelies, CascadeRelies, CommitRelies
     DEF Delete
<1>4. ASSUME NEW r \in Requests, View(r)
      PROVE  RInv'
  BY <1>4, AttributesRely, TypesRely, RowsRely, ItemsRely, FinishRelies DEF View
<1>5. ASSUME NEW r \in Requests, AbortDeadlocked(r) \/ Fail(r)
      PROVE  RInv'
  BY <1>5, LossIsRefusal, RefuseRelies DEF Lost
<1>6. ASSUME NEW x \in Taggable, Retag(x)
      PROVE  RInv'
  BY <1>6, RetagRelies
<1>7. CASE UNCHANGED vars
  <2>1. \A r \in Requests : LeftAlone(r)
    BY <1>7 DEF vars, tableVars, writeVars, workVars, LeftAlone
  <2> QED
    BY <2>1, LeftAloneRelies DEF RInv
<1> QED
  BY <1>2, <1>3, <1>4, <1>5, <1>6, <1>7, BeginRelies DEF Next, Work

\* Every state a run of requests reaches satisfies the invariant of what requests rely on.
THEOREM RelianceInvariant == Spec => [](IInv /\ HInv /\ RInv)
<1>1. Init => IInv /\ HInv /\ RInv
  BY Initially, HistoryStarts, RelianceStarts
<1>2. (IInv /\ HInv /\ RInv) /\ [Next]_vars => (IInv /\ HInv /\ RInv)'
  BY Preserved, HistoryHolds, RelianceHolds
<1> QED
  BY <1>1, <1>2, PTL DEF Spec

-----------------------------------------------------------------------------
(* What follows *)

\* A request that could be carried out when it arrived is refused over what it finds in the
\* tables (objects_do_not_exist, the check of types, a missing row of data, a foreign key that
\* fails, the KeyError and the validation of views) only if others changed something meanwhile.
THEOREM RefusalsAreCaused == Spec => []RefusalsHaveCause
<1>1. RInv => RefusalsHaveCause
  BY DEF RInv, ReliesOn, RefusalHasCause, RefusalsHaveCause
<1> QED
  BY <1>1, RelianceInvariant, PTL

\* What is deleted along with others, by /objects/delete with delete_subobjects or because
\* /objects/add or update marks it, is in no other composite object, but for those that got
\* it while the request ran.
THEOREM SubobjectsAreSafe == Spec => SharedSubobjectsSurvive
<1> DEFINE named(r) == IF body[r].route = "delete" THEN body[r].gone ELSE {}
           rewritten(r) == named(r) \cup IF body[r].route = "delete" THEN {} ELSE CompositeIds(r)
           Safe == \A r \in Requests : Commits(r) /\ body[r].route \in {"add", "update", "delete"} =>
                       \A x \in Gone(r) \ named(r) : x \in changed[r] \/ \A i \in db.items : i.sub = x => i.id \in rewritten(r)
<1>1. RInv => Safe
  <2> SUFFICES ASSUME RInv, NEW r \in Requests, Commits(r), body[r].route \in {"add", "update", "delete"},
                      NEW x \in Gone(r) \ named(r), x \notin changed[r], NEW i \in db.items, i.sub = x
               PROVE  i.id \in rewritten(r)
    OBVIOUS
  <2>1. DoomedAreUnshared(r) /\ Open(r)
    BY DEF RInv, ReliesOn, Commits, Open
  <2>2. CASE body[r].route = "delete"
    BY <2>1, <2>2 DEF DoomedAreUnshared
  <2>3. CASE body[r].route \in {"add", "update"}
    BY <2>1, <2>3 DEF DoomedAreUnshared
  <2> QED
    BY <2>2, <2>3
<1>2. (IInv /\ HInv /\ RInv) /\ [Next]_vars => [Safe]_vars
  BY <1>1
<1> HIDE DEF Safe
<1>3. Spec => [][Safe]_vars
  BY <1>2, RelianceInvariant, PTL DEF Spec
<1> USE DEF Safe
<1> QED
  BY <1>3 DEF SharedSubobjectsSurvive

\* A user who is not an admin changes and deletes objects of his own only, or of those whose
\* owner was changed while the request ran: modifiable_object_ids, filled by the first
\* authorization, lets nothing through that authorize_objects_modification would not.
THEOREM OwnersAreObeyed == Spec => OwnersKeepTheirObjects
<1> DEFINE Safe == \A r \in Requests : Commits(r) /\ body[r].issuer \notin Admins =>
                       \A o \in db.objects : o.id \in Held(r) => o.owner = body[r].issuer \/ o.id \in changed[r]
<1>1. RInv => Safe
  BY DEF RInv, ReliesOn, OwnersAreChecked, IsAdmin
<1>2. (IInv /\ HInv /\ RInv) /\ [Next]_vars => [Safe]_vars
  BY <1>1
<1> HIDE DEF Safe
<1>3. Spec => [][Safe]_vars
  BY <1>2, RelianceInvariant, PTL DEF Spec
<1> USE DEF Safe
<1> QED
  BY <1>3 DEF OwnersKeepTheirObjects

\* Only its last statement answers a view.
LEMMA ViewsEndLast ==
  ASSUME IInv, Next, NEW r \in Requests, pc[r] = "rows", pc'[r] = "done", answer'[r] = 200
  PROVE  FinishView(r)
<1>1. Open(r) /\ pc \in [Requests -> Step] /\ answer \in [Requests -> Answers]
  BY DEF Open, IInv, TypeOK, Answers
<1>2. ASSUME NEW q \in Requests, Begin(q) \/ Work(q) \/ Fail(q), q # r
      PROVE  pc'[r] = "rows"
  <2>1. CASE Commit(q)
    BY <1>1, <2>1, <1>2 DEF Commit, End, Goto
  <2>2. CASE Alone(q)
    BY <2>2, <1>2 DEF Alone, StepOf
  <2> QED
    BY <1>2, <2>1, <2>2, BeginIsAlone, UpsertIsAlone, DeleteIsAlone, ViewIsAlone, LossIsRefusal, RefuseIsAlone DEF Work, Delete
<1>3. ~ Begin(r) /\ ~ Upsert(r) /\ ~ Delete(r)
  BY DEF Begin, Upsert, Delete, InsertObjects, Authorize, CheckExisting, WriteData, CheckSubobjects, UpdateObject, Unlink,
         Link, FindMarked, FindSubobjects, FindExclusive, AuthorizeDelete, DeleteRow, Cascade, Commit
<1>4. ~ AbortDeadlocked(r) /\ ~ Fail(r)
  BY <1>1 DEF AbortDeadlocked, Fail, Refuse, End, Lost
<1>5. ~ ViewAttributes(r) /\ ~ ViewTypes(r) /\ ~ ViewRows(r) /\ ~ ViewItems(r)
  BY <1>1 DEF ViewAttributes, ViewTypes, ViewRows, ViewItems, Goto
<1>6. ~ \E x \in Taggable : Retag(x)
  BY DEF Retag
<1> QED
  BY <1>2, <1>3, <1>4, <1>5, <1>6 DEF Next, Work, View

\* A view whose objects did not change while it ran answers with all that is committed of
\* what was asked and may be seen, and with nothing else, though it reads attributes, types,
\* and each table of data and of items, in statements of their own.
THEOREM ViewsShowWhatIsThere == Spec => ViewsAreExact
<1> DEFINE Safe == \A r \in Requests : pc[r] = "rows" /\ pc'[r] = "done" /\ answer'[r] = 200 /\ (body[r].ids \cup body[r].dataIds) \cap changed[r] = {} =>
                      ShowsWhatIsThere(r)
<1>1. ASSUME RInv, NEW r \in Requests, FinishView(r), (body[r].ids \cup body[r].dataIds) \cap changed[r] = {}
      PROVE  ShowsWhatIsThere(r)
  <2>1. ShownSoFar(r) /\ pc[r] = "rows" /\ shown[r].types = {}
    BY <1>1 DEF RInv, ReliesOn, ViewIsExact, AskedFor, FinishView
  <2>2. \A d : d \in shown[r].rows <=> d \in db.data /\ d.id \in VisibleIds(r)
    BY <2>1 DEF ShownSoFar
  <2>3. \A i : i \in shown[r].items <=> i \in db.items /\ i.id \in VisibleIds(r)
    BY <2>1 DEF ShownSoFar
  <2> QED
    BY <2>1, <2>2, <2>3 DEF ShownSoFar, ShowsWhatIsThere
<1>2. IInv /\ RInv /\ Next => Safe
  BY <1>1, ViewsEndLast
<1>3. (IInv /\ HInv /\ RInv) /\ [Next]_vars => [Safe]_vars
  BY <1>2
<1> HIDE DEF Safe
<1>4. Spec => [][Safe]_vars
  BY <1>3, RelianceInvariant, PTL DEF Spec
<1> USE DEF Safe
<1> QED
  BY <1>4 DEF ViewsAreExact

=============================================================================
