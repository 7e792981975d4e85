------------------------------- MODULE TagsProofs -------------------------------
(***************************************************************************)
(* Proofs about Tags, for every set of names, objects, requests and bodies *)
(* and every table of tags at the start.                                   *)
(***************************************************************************)
EXTENDS Tags, FiniteSetTheorems, TLAPS

-----------------------------------------------------------------------------
(* The inductive invariant *)

Writing == {"unique", "names", "check_added", "add", "check_removed", "remove", "commit"}

\* Where the handler of each route goes.
StepsOf(route) ==
    CASE route = "tags_add" -> {"insert", "add", "commit"}
      [] route = "tags_update" -> {"lock", "unique", "add", "remove", "commit"}
      [] route = "tags_delete" -> {"delete"}
      [] route = "update_tags" -> {"lookup", "names", "check_added", "add", "check_removed", "remove", "commit"}
      [] route = "page" -> {"page", "count"}
      [] OTHER -> {route}

RouteShape(r) ==
    pc[r] # "new" => body[r] \in Bodies /\ (pc[r] = "done" \/ pc[r] \in StepsOf(body[r].route))

\* A request has written nothing before its first statement that writes, one row if it is
\* about one tag, and pairs only once it has added them.
WriteShape(r) ==
    /\ pc[r] \notin Writing => \A t \in TagIds : rows[r][t] = NoRow
    /\ pc[r] \notin {"check_removed", "remove", "commit"} => added[r] = {}
    /\ pc[r] \in Writing /\ body[r].route # "update_tags" =>
          \E t \in TagIds : \A u \in TagIds : rows[r][u] # NoRow <=> u = t

\* add_tags_by_name has, or will have, a tag for every name of the request.
FoundShape(r) ==
    pc[r] \in Writing /\ body[r].route = "update_tags" =>
        \A n \in body[r].names :
            \/ found[r][Lower[n]] \in TagIds
            \/ pc[r] = "names" /\ \E m \in toInsert[r] : Lower[m] = Lower[n]

\* Ids are taken from the sequence, and a row belongs to one request.
IdsAreTaken ==
    /\ \A t \in TagIds : tags[t] # NoRow => t <= lastTag
    /\ \A r \in Requests, t \in TagIds : rows[r][t] # NoRow =>
          t <= lastTag /\ \A q \in Requests \ {r} : rows[q][t] = NoRow

\* What a request sees has unique names, once its own are in the index.
SeenAreUnique(r) ==
    pc[r] # "unique" =>
        \A s, t \in TagIds : Seen(r)[s] # NoRow /\ Seen(r)[t] # NoRow
                             /\ Lower[Seen(r)[s].name] = Lower[Seen(r)[t].name] => s = t

NamesAreLocked ==
    \A r \in Requests : SeenAreUnique(r) /\ \A q \in Requests \ {r} : HeldNames(r) \cap HeldNames(q) = {}

\* The ends of inserted pairs are kept.
AddedHaveEnds ==
    \A r \in Requests : \A p \in added[r] : p[1] \in objects /\ Seen(r)[p[2]] # NoRow

IInv ==
    /\ TypeOK
    /\ \A r \in Requests : RouteShape(r) /\ WriteShape(r) /\ FoundShape(r)
    /\ IdsAreTaken
    /\ NamesAreUnique /\ NamesAreLocked
    /\ PairsHaveEnds /\ AddedHaveEnds

-----------------------------------------------------------------------------
(* What requests hold *)

Blank == [t \in TagIds |-> NoRow]

\* The name of a request about one tag.
LEMMA TheNameIs ==
  ASSUME NEW r \in Requests, RouteShape(r), pc[r] # "new",
         body[r].route \in {"tags_add", "tags_update"}
  PROVE  TheName(r) \in Names /\ body[r].names = {TheName(r)}
  <1>1. \E n \in Names : body[r].names = {n}
    BY TagAssumption DEF RouteShape
  <1> QED
    BY <1>1 DEF TheName

\* The row it has written.
LEMMA TheTagIs ==
  ASSUME NEW r \in Requests, WriteShape(r), pc[r] \in Writing, body[r].route # "update_tags"
  PROVE  TheTag(r) \in TagIds /\ \A u \in TagIds : rows[r][u] # NoRow <=> u = TheTag(r)
  <1>1. PICK t \in TagIds : \A u \in TagIds : rows[r][u] # NoRow <=> u = t
    BY DEF WriteShape
  <1>2. TheTag(r) = t
    BY <1>1 DEF TheTag
  <1> QED
    BY <1>1, <1>2

\* What is known of a row, if there is one.
LEMMA RowTypes ==
  ASSUME TypeOK, NEW r \in Requests, NEW t \in TagIds
  PROVE  /\ tags[t] # NoRow => tags[t] \in TagRow /\ tags[t].name \in Names
         /\ rows[r][t] # NoRow => rows[r][t] \in TagRow /\ rows[r][t].name \in Names
         /\ Seen(r)[t] = (IF rows[r][t] # NoRow THEN rows[r][t] ELSE tags[t])
         /\ Seen(r)[t] # NoRow => Seen(r)[t] \in TagRow /\ Seen(r)[t].name \in Names
  <1>1. tags[t] \in TagRow \cup {NoRow} /\ rows[r][t] \in TagRow \cup {NoRow}
    BY DEF TypeOK
  <1>2. \A w \in TagRow : w.name \in Names
    BY DEF TagRow
  <1>3. Seen(r)[t] = (IF rows[r][t] # NoRow THEN rows[r][t] ELSE tags[t])
    BY DEF Seen
  <1> QED
    BY <1>1, <1>2, <1>3

\* Membership in HeldNames.
LEMMA HeldNamesAre ==
  ASSUME NEW r \in Requests, NEW x
  PROVE  x \in HeldNames(r) <=>
           \E t \in TagIds : rows[r][t] # NoRow /\
              \/ pc[r] # "unique" /\ x = Lower[rows[r][t].name]
              \/ tags[t] # NoRow /\ x = Lower[tags[t].name]
  BY DEF HeldNames

-----------------------------------------------------------------------------
(* The kinds of steps, in what they do to tags and rows *)

\* Others go on as they were.
Alone(r) ==
    /\ rows' \in [Requests -> [TagIds -> TagRow \cup {NoRow}]]
    /\ \A q \in Requests \ {r} : pc'[q] = pc[q] /\ rows'[q] = rows[q]

Keeps(r) ==
    /\ Alone(r) /\ rows' = rows /\ tags' = tags /\ lastTag' = lastTag
    /\ pc'[r] = "unique" <=> pc[r] = "unique"

Drops(r) ==
    /\ Alone(r) /\ rows'[r] = Blank /\ tags' = tags /\ lastTag' = lastTag
    /\ pc'[r] = "done"

Inserts(r, n) ==
    /\ Alone(r) /\ tags' = tags /\ lastTag < MaxTag /\ lastTag' = lastTag + 1
    /\ \E p \in BOOLEAN : rows'[r] = [rows[r] EXCEPT ![lastTag + 1] = [name |-> n, published |-> p]]
    /\ pc[r] # "unique" /\ pc'[r] # "unique"
    /\ n \in Names /\ Named(Seen(r), n) = {}
    /\ \A q \in Requests \ {r} : Lower[n] \notin HeldNames(q)

Locks(r, t) ==
    /\ Alone(r) /\ tags' = tags /\ lastTag' = lastTag
    /\ rows[r] = Blank /\ tags[t] # NoRow
    /\ \E w \in TagRow : rows'[r] = [rows[r] EXCEPT ![t] = w]
    /\ pc'[r] = "unique"
    /\ \A q \in Requests \ {r} : rows[q][t] = NoRow

Renames(r, t) ==
    /\ Alone(r) /\ rows' = rows /\ tags' = tags /\ lastTag' = lastTag
    /\ pc[r] = "unique" /\ pc'[r] # "unique"
    /\ \A u \in TagIds : rows[r][u] # NoRow <=> u = t
    /\ Named(Seen(r), rows[r][t].name) = {t}
    /\ \A q \in Requests \ {r} : Lower[rows[r][t].name] \notin HeldNames(q)

Commits(r) ==
    /\ Alone(r) /\ rows'[r] = Blank /\ tags' = Seen(r) /\ lastTag' = lastTag
    /\ pc[r] = "commit" /\ pc'[r] = "done"

Deletes(r, gone) ==
    /\ Alone(r) /\ rows[r] = Blank /\ rows'[r] = Blank /\ lastTag' = lastTag
    /\ tags' = [t \in TagIds |-> IF t \in gone THEN NoRow ELSE tags[t]]
    /\ \A t \in gone, q \in Requests \ {r} : rows[q][t] = NoRow
    /\ pc'[r] = "done"

Effect(r) ==
    \/ Keeps(r) \/ Drops(r) \/ Commits(r)
    \/ \E n \in Names : Inserts(r, n)
    \/ \E t \in TagIds : Locks(r, t) \/ Renames(r, t)
    \/ \E gone \in SUBSET TagIds : Deletes(r, gone)

\* The part of the invariant that is about tags and names, in two rows or two requests.
NamesOK == IdsAreTaken /\ NamesAreUnique /\ NamesAreLocked

\* HeldNamesAre, of the next state.
LEMMA HeldNamesAfter ==
  ASSUME NEW r \in Requests, NEW x
  PROVE  x \in HeldNames(r)' <=>
           \E t \in TagIds : rows'[r][t] # NoRow /\
              \/ pc'[r] # "unique" /\ x = Lower[rows'[r][t].name]
              \/ tags'[t] # NoRow /\ x = Lower[tags'[t].name]
  BY DEF HeldNames

\* Names that no request holds anew stay apart, and what each sees must be shown unique.
LEMMA LockedIf ==
  ASSUME NamesAreLocked, NEW r \in Requests, NEW new,
         \A q \in Requests : SeenAreUnique(q)',
         \A q \in Requests \ {r} : HeldNames(q)' \subseteq HeldNames(q),
         HeldNames(r)' \subseteq HeldNames(r) \cup new,
         \A q \in Requests \ {r} : HeldNames(q) \cap new = {}
  PROVE  NamesAreLocked'
  <1>1. ASSUME NEW p \in Requests, NEW q \in Requests \ {p}
        PROVE  HeldNames(p)' \cap HeldNames(q)' = {}
    <2>1. HeldNames(p) \cap HeldNames(q) = {}
      BY DEF NamesAreLocked
    <2>2. CASE p = r
      BY <2>1, <2>2
    <2>3. CASE q = r
      BY <2>1, <2>3
    <2>4. CASE p # r /\ q # r
      BY <2>1, <2>4
    <2> QED
      BY <2>2, <2>3, <2>4
  <1> QED
    BY <1>1 DEF NamesAreLocked

LEMMA KeepsNames ==
  ASSUME TypeOK, NamesOK, NEW r \in Requests, Keeps(r)
  PROVE  NamesOK'
  <1>1. \A q \in Requests : (pc'[q] = "unique") = (pc[q] = "unique")
    BY DEF Keeps, Alone
  <1>2. rows' = rows /\ tags' = tags /\ lastTag' = lastTag
    BY DEF Keeps
  <1>3. \A q \in Requests : SeenAreUnique(q)' /\ HeldNames(q)' \subseteq HeldNames(q)
    <2> SUFFICES ASSUME NEW q \in Requests
                 PROVE  SeenAreUnique(q)' /\ HeldNames(q)' \subseteq HeldNames(q)
      OBVIOUS
    <2>1. Seen(q)' = Seen(q)
      BY <1>2 DEF Seen
    <2>2. SeenAreUnique(q)'
      BY <1>1, <2>1 DEF SeenAreUnique, NamesOK, NamesAreLocked
    <2>3. ASSUME NEW x \in HeldNames(q)'
          PROVE  x \in HeldNames(q)
      BY <1>1, <1>2, HeldNamesAre, HeldNamesAfter
    <2> QED
      BY <2>2, <2>3
  <1>4. NamesAreLocked'
    <2>1. HeldNames(r)' \subseteq HeldNames(r) \cup {} /\ \A q \in Requests \ {r} : HeldNames(q) \cap {} = {}
      BY <1>3
    <2>2. NamesAreLocked
      BY DEF NamesOK
    <2> QED
      BY <1>3, <2>1, <2>2, LockedIf
  <1> QED
    BY <1>2, <1>4 DEF NamesOK, IdsAreTaken, NamesAreUnique

LEMMA DropsNames ==
  ASSUME TypeOK, NamesOK, NEW r \in Requests, Drops(r)
  PROVE  NamesOK'
  <1>1. /\ \A q \in Requests \ {r} : pc'[q] = pc[q] /\ rows'[q] = rows[q]
        /\ \A t \in TagIds : rows'[r][t] = NoRow
        /\ tags' = tags /\ lastTag' = lastTag
    BY DEF Drops, Alone, Blank
  <1>2. ASSUME NEW q \in Requests
        PROVE  SeenAreUnique(q)' /\ HeldNames(q)' \subseteq HeldNames(q)
    <2>1. CASE q = r
      <3>1. \A t \in TagIds : Seen(q)'[t] = tags[t]
        BY <1>1, <2>1 DEF Seen
      <3>2. SeenAreUnique(q)'
        BY <3>1 DEF SeenAreUnique, NamesOK, NamesAreUnique
      <3> QED
        BY <1>1, <2>1, <3>2, HeldNamesAfter
    <2>2. CASE q # r
      <3>1. Seen(q)' = Seen(q)
        BY <1>1, <2>2 DEF Seen
      <3>2. SeenAreUnique(q)'
        BY <1>1, <2>2, <3>1 DEF SeenAreUnique, NamesOK, NamesAreLocked
      <3> QED
        BY <1>1, <2>2, <3>2, HeldNamesAre, HeldNamesAfter
    <2> QED
      BY <2>1, <2>2
  <1>3. NamesAreLocked'
    <2>1. HeldNames(r)' \subseteq HeldNames(r) \cup {} /\ \A q \in Requests \ {r} : HeldNames(q) \cap {} = {}
      BY <1>2
    <2>2. NamesAreLocked
      BY DEF NamesOK
    <2> QED
      BY <1>2, <2>1, <2>2, LockedIf
  <1>4. IdsAreTaken'
    <2>1. \A q \in Requests, t \in TagIds : rows'[q][t] # NoRow => rows[q][t] # NoRow /\ q # r
      BY <1>1
    <2> QED
      BY <1>1, <2>1 DEF NamesOK, IdsAreTaken
  <1> QED
    BY <1>1, <1>3, <1>4 DEF NamesOK, NamesAreUnique

LEMMA InsertsNames ==
  ASSUME TypeOK, NamesOK, NEW r \in Requests, NEW n \in Names, Inserts(r, n)
  PROVE  NamesOK'
  <1> DEFINE i == lastTag + 1
  <1>1. /\ \A q \in Requests \ {r} : pc'[q] = pc[q] /\ rows'[q] = rows[q]
        /\ tags' = tags /\ lastTag' = lastTag + 1
        /\ pc[r] # "unique" /\ pc'[r] # "unique"
    BY DEF Inserts, Alone
  <1>2. i \in TagIds /\ lastTag \in Nat /\ \A t \in TagIds : t \in Nat
    BY TagAssumption DEF Inserts, TypeOK, TagIds
  <1>3. tags[i] = NoRow /\ \A q \in Requests : rows[q][i] = NoRow
    BY <1>2 DEF NamesOK, IdsAreTaken
  <1>4. PICK v \in BOOLEAN : rows'[r] = [rows[r] EXCEPT ![i] = [name |-> n, published |-> v]]
    BY DEF Inserts
  <1>5. /\ rows'[r][i] # NoRow /\ rows'[r][i].name = n
        /\ \A t \in TagIds \ {i} : rows'[r][t] = rows[r][t]
    BY <1>2, <1>4, TagAssumption DEF TypeOK, TagRow
  <1> HIDE DEF i
  <1>6. ASSUME NEW q \in Requests \ {r}
        PROVE  SeenAreUnique(q)' /\ HeldNames(q)' \subseteq HeldNames(q)
    <2>1. Seen(q)' = Seen(q)
      BY <1>1 DEF Seen
    <2>2. SeenAreUnique(q)'
      BY <1>1, <2>1 DEF SeenAreUnique, NamesOK, NamesAreLocked
    <2> QED
      BY <1>1, <2>2, HeldNamesAre, HeldNamesAfter
  <1>7. SeenAreUnique(r)'
    <2>1. Seen(r)'[i] = rows'[r][i] /\ \A t \in TagIds \ {i} : Seen(r)'[t] = Seen(r)[t]
      BY <1>1, <1>2, <1>5 DEF Seen
    <2>2. \A t \in TagIds : Seen(r)[t] # NoRow => Lower[Seen(r)[t].name] # Lower[n]
      BY DEF Inserts, Named
    <2>3. \A s, t \in TagIds : Seen(r)[s] # NoRow /\ Seen(r)[t] # NoRow
                               /\ Lower[Seen(r)[s].name] = Lower[Seen(r)[t].name] => s = t
      BY <1>1 DEF NamesOK, NamesAreLocked, SeenAreUnique
    <2> QED
      BY <1>5, <2>1, <2>2, <2>3 DEF SeenAreUnique
  <1>8. HeldNames(r)' \subseteq HeldNames(r) \cup {Lower[n]}
    <2> SUFFICES ASSUME NEW x \in HeldNames(r)', x \notin HeldNames(r)
                 PROVE  x = Lower[n]
      OBVIOUS
    <2>1. PICK t \in TagIds : rows'[r][t] # NoRow /\
              \/ x = Lower[rows'[r][t].name]
              \/ tags'[t] # NoRow /\ x = Lower[tags'[t].name]
      BY HeldNamesAfter
    <2>2. CASE t = i
      BY <1>1, <1>3, <1>5, <2>1, <2>2
    <2>3. CASE t # i
      BY <1>1, <1>5, <2>1, <2>3, HeldNamesAre
    <2> QED
      BY <2>2, <2>3
  <1>9. NamesAreLocked'
    <2>1. \A q \in Requests \ {r} : HeldNames(q) \cap {Lower[n]} = {}
      BY DEF Inserts
    <2>2. NamesAreLocked
      BY DEF NamesOK
    <2>3. \A q \in Requests : SeenAreUnique(q)'
      BY <1>6, <1>7
    <2> QED
      BY <1>6, <1>8, <2>1, <2>2, <2>3, LockedIf
  <1>10. IdsAreTaken'
    <2>1. \A t \in TagIds : tags'[t] # NoRow => t <= lastTag'
      BY <1>1, <1>2 DEF NamesOK, IdsAreTaken
    <2>2. ASSUME NEW q \in Requests, NEW t \in TagIds, rows'[q][t] # NoRow
          PROVE  t <= lastTag' /\ \A p \in Requests \ {q} : rows'[p][t] = NoRow
      <3>1. CASE t = i
        BY <1>1, <1>2, <1>3, <2>2, <3>1 DEF i
      <3>2. CASE t # i
        <4>1. \A p \in Requests : rows'[p][t] = rows[p][t]
          BY <1>1, <1>5, <3>2
        <4> QED
          BY <1>1, <1>2, <2>2, <4>1 DEF NamesOK, IdsAreTaken
      <3> QED
        BY <3>1, <3>2
    <2> QED
      BY <2>1, <2>2 DEF IdsAreTaken
  <1> QED
    BY <1>1, <1>9, <1>10 DEF NamesOK, NamesAreUnique

LEMMA LocksNames ==
  ASSUME TypeOK, NamesOK, NEW r \in Requests, NEW t \in TagIds, Locks(r, t)
  PROVE  NamesOK'
  <1>1. /\ \A q \in Requests \ {r} : pc'[q] = pc[q] /\ rows'[q] = rows[q]
        /\ tags' = tags /\ lastTag' = lastTag
        /\ tags[t] # NoRow /\ pc'[r] = "unique"
        /\ \A q \in Requests \ {r} : rows[q][t] = NoRow
    BY DEF Locks, Alone
  <1>2. PICK w \in TagRow : rows'[r] = [rows[r] EXCEPT ![t] = w]
    BY DEF Locks
  <1>3. \A u \in TagIds \ {t} : rows'[r][u] = NoRow
    BY <1>2 DEF Locks, Blank, TypeOK
  <1>4. ASSUME NEW q \in Requests \ {r}
        PROVE  SeenAreUnique(q)' /\ HeldNames(q)' \subseteq HeldNames(q)
    <2>1. Seen(q)' = Seen(q)
      BY <1>1 DEF Seen
    <2>2. SeenAreUnique(q)'
      BY <1>1, <2>1 DEF SeenAreUnique, NamesOK, NamesAreLocked
    <2> QED
      BY <1>1, <2>2, HeldNamesAre, HeldNamesAfter
  <1>5. SeenAreUnique(r)'
    BY <1>1 DEF SeenAreUnique
  <1> DEFINE x == Lower[tags[t].name]
  <1>6. HeldNames(r)' \subseteq HeldNames(r) \cup {x}
    BY <1>1, <1>3, HeldNamesAfter
  <1>7. ASSUME NEW q \in Requests \ {r}
        PROVE  x \notin HeldNames(q)
    <2>1. SUFFICES ASSUME NEW u \in TagIds, rows[q][u] # NoRow,
                          \/ pc[q] # "unique" /\ x = Lower[rows[q][u].name]
                          \/ tags[u] # NoRow /\ x = Lower[tags[u].name]
                   PROVE  FALSE
      BY HeldNamesAre
    <2>2. u # t
      BY <1>1, <2>1
    <2>3. CASE tags[u] # NoRow /\ x = Lower[tags[u].name]
      BY <1>1, <2>2, <2>3 DEF NamesOK, NamesAreUnique
    <2>4. CASE pc[q] # "unique" /\ x = Lower[rows[q][u].name]
      <3>1. Seen(q)[t] = tags[t] /\ Seen(q)[u] = rows[q][u]
        BY <1>1, <2>1 DEF Seen
      <3>2. \A s, v \in TagIds : Seen(q)[s] # NoRow /\ Seen(q)[v] # NoRow
                                 /\ Lower[Seen(q)[s].name] = Lower[Seen(q)[v].name] => s = v
        BY <2>4 DEF NamesOK, NamesAreLocked, SeenAreUnique
      <3> QED
        BY <1>1, <2>1, <2>2, <2>4, <3>1, <3>2
    <2> QED
      BY <2>1, <2>3, <2>4
  <1> HIDE DEF x
  <1>8. NamesAreLocked'
    <2>1. \A q \in Requests \ {r} : HeldNames(q) \cap {x} = {}
      BY <1>7
    <2>2. NamesAreLocked /\ \A q \in Requests : SeenAreUnique(q)'
      BY <1>4, <1>5 DEF NamesOK
    <2> QED
      BY <1>4, <1>6, <2>1, <2>2, LockedIf
  <1>9. IdsAreTaken'
    <2>1. tags'= tags /\ lastTag' = lastTag /\ t <= lastTag
      BY <1>1 DEF NamesOK, IdsAreTaken
    <2>2. ASSUME NEW q \in Requests, NEW u \in TagIds, rows'[q][u] # NoRow
          PROVE  u <= lastTag /\ \A p \in Requests \ {q} : rows'[p][u] = NoRow
      <3>1. CASE u = t
        BY <1>1, <2>1, <2>2, <3>1
      <3>2. CASE u # t
        <4>1. q # r /\ rows'[r][u] = NoRow
          BY <1>3, <2>2, <3>2
        <4> QED
          BY <1>1, <2>2, <4>1 DEF NamesOK, IdsAreTaken
      <3> QED
        BY <3>1, <3>2
    <2> QED
      BY <1>1, <2>1, <2>2 DEF NamesOK, IdsAreTaken
  <1> QED
    BY <1>1, <1>8, <1>9 DEF NamesOK, NamesAreUnique

LEMMA RenamesNames ==
  ASSUME TypeOK, NamesOK, NEW r \in Requests, NEW t \in TagIds, Renames(r, t)
  PROVE  NamesOK'
  <1>1. /\ \A q \in Requests \ {r} : pc'[q] = pc[q]
        /\ rows' = rows /\ tags' = tags /\ lastTag' = lastTag
        /\ \A u \in TagIds : rows[r][u] # NoRow <=> u = t
    BY DEF Renames, Alone
  <1>2. \A q \in Requests : Seen(q)' = Seen(q)
    BY <1>1 DEF Seen
  <1>3. ASSUME NEW q \in Requests \ {r}
        PROVE  SeenAreUnique(q)' /\ HeldNames(q)' \subseteq HeldNames(q)
    <2>1. SeenAreUnique(q)'
      BY <1>1, <1>2 DEF SeenAreUnique, NamesOK, NamesAreLocked
    <2> QED
      BY <1>1, <2>1, HeldNamesAre, HeldNamesAfter
  <1> DEFINE x == Lower[rows[r][t].name]
  <1>4. SeenAreUnique(r)'
    <2>1. Seen(r)[t] = rows[r][t] /\ \A u \in TagIds \ {t} : Seen(r)[u] = tags[u]
      BY <1>1 DEF Seen
    <2>2. \A u \in TagIds : Seen(r)[u] # NoRow /\ Lower[Seen(r)[u].name] = x => u = t
      BY DEF Renames, Named
    <2> QED
      BY <1>2, <2>1, <2>2 DEF SeenAreUnique, NamesOK, NamesAreUnique
  <1>5. HeldNames(r)' \subseteq HeldNames(r) \cup {x}
    BY <1>1, HeldNamesAre, HeldNamesAfter
  <1>6. \A q \in Requests \ {r} : HeldNames(q) \cap {x} = {}
    BY DEF Renames
  <1> HIDE DEF x
  <1>7. NamesAreLocked'
    <2>1. NamesAreLocked /\ \A q \in Requests : SeenAreUnique(q)'
      BY <1>3, <1>4 DEF NamesOK
    <2> QED
      BY <1>3, <1>5, <1>6, <2>1, LockedIf
  <1> QED
    BY <1>1, <1>7 DEF NamesOK, NamesAreUnique, IdsAreTaken

LEMMA CommitsNames ==
  ASSUME TypeOK, NamesOK, NEW r \in Requests, Commits(r)
  PROVE  NamesOK'
  <1>1. /\ \A q \in Requests \ {r} : pc'[q] = pc[q] /\ rows'[q] = rows[q]
        /\ \A t \in TagIds : rows'[r][t] = NoRow
        /\ tags' = Seen(r) /\ lastTag' = lastTag /\ pc[r] = "commit"
    BY DEF Commits, Alone, Blank
  <1>2. \A t \in TagIds : tags'[t] = IF rows[r][t] # NoRow THEN rows[r][t] ELSE tags[t]
    BY <1>1 DEF Seen
  <1>3. \A q \in Requests \ {r}, t \in TagIds : rows[q][t] # NoRow => tags'[t] = tags[t]
    BY <1>2 DEF NamesOK, IdsAreTaken
  <1>4. \A s, t \in TagIds : tags'[s] # NoRow /\ tags'[t] # NoRow
                             /\ Lower[tags'[s].name] = Lower[tags'[t].name] => s = t
    BY <1>1 DEF NamesOK, NamesAreLocked, SeenAreUnique
  <1>5. ASSUME NEW q \in Requests \ {r}
        PROVE  SeenAreUnique(q)' /\ HeldNames(q)' \subseteq HeldNames(q)
    <2>1. \A t \in TagIds : Seen(q)'[t] = IF rows[q][t] # NoRow THEN rows[q][t] ELSE tags'[t]
      BY <1>1 DEF Seen
    <2>2. ASSUME pc[q] # "unique", NEW s \in TagIds, NEW t \in TagIds, s # t,
                 Seen(q)'[s] # NoRow, Seen(q)'[t] # NoRow, rows[q][s] # NoRow
          PROVE  Lower[Seen(q)'[s].name] # Lower[Seen(q)'[t].name]
      <3>1. Seen(q)'[s] = Seen(q)[s] /\ Seen(q)[s] = rows[q][s]
        BY <2>1, <2>2 DEF Seen
      <3>2. CASE rows[r][t] # NoRow
        <4>1. Seen(q)'[t] = rows[r][t]
          BY <1>2, <2>1, <3>2 DEF NamesOK, IdsAreTaken
        <4>2. Lower[rows[r][t].name] \in HeldNames(r) /\ Lower[rows[q][s].name] \in HeldNames(q)
          BY <1>1, <2>2, <3>2, HeldNamesAre
        <4>3. HeldNames(r) \cap HeldNames(q) = {}
          BY DEF NamesOK, NamesAreLocked
        <4> QED
          BY <3>1, <4>1, <4>2, <4>3
      <3>3. CASE rows[r][t] = NoRow
        <4>1. Seen(q)'[t] = Seen(q)[t]
          BY <1>2, <2>1, <3>3 DEF Seen
        <4> QED
          BY <2>2, <3>1, <4>1 DEF NamesOK, NamesAreLocked, SeenAreUnique
      <3> QED
        BY <3>2, <3>3
    <2>3. ASSUME pc[q] # "unique", NEW s \in TagIds, NEW t \in TagIds, s # t,
                 Seen(q)'[s] # NoRow, Seen(q)'[t] # NoRow
          PROVE  Lower[Seen(q)'[s].name] # Lower[Seen(q)'[t].name]
      <3>1. CASE rows[q][s] # NoRow
        BY <2>2, <2>3, <3>1
      <3>2. CASE rows[q][t] # NoRow
        BY <2>2, <2>3, <3>2
      <3>3. CASE rows[q][s] = NoRow /\ rows[q][t] = NoRow
        BY <1>4, <2>1, <2>3, <3>3
      <3> QED
        BY <3>1, <3>2, <3>3
    <2>4. SeenAreUnique(q)'
      <3>1. pc'[q] = pc[q]
        BY <1>1
      <3> QED
        BY <2>3, <3>1 DEF SeenAreUnique
    <2>5. ASSUME NEW x \in HeldNames(q)'
          PROVE  x \in HeldNames(q)
      <3>1. PICK t \in TagIds : rows'[q][t] # NoRow /\
                \/ pc'[q] # "unique" /\ x = Lower[rows'[q][t].name]
                \/ tags'[t] # NoRow /\ x = Lower[tags'[t].name]
        BY HeldNamesAfter
      <3>2. rows[q][t] # NoRow /\
                \/ pc[q] # "unique" /\ x = Lower[rows[q][t].name]
                \/ tags[t] # NoRow /\ x = Lower[tags[t].name]
        BY <1>1, <1>3, <3>1
      <3> QED
        BY <3>2, HeldNamesAre
    <2> QED
      BY <2>4, <2>5
  <1>6. SeenAreUnique(r)' /\ HeldNames(r)' \subseteq {}
    <2>1. \A t \in TagIds : Seen(r)'[t] = tags'[t]
      BY <1>1 DEF Seen
    <2>2. SeenAreUnique(r)'
      BY <1>4, <2>1 DEF SeenAreUnique
    <2> QED
      BY <1>1, <2>2, HeldNamesAfter
  <1>7. NamesAreLocked'
    <2>1. HeldNames(r)' \subseteq HeldNames(r) \cup {} /\ \A q \in Requests \ {r} : HeldNames(q) \cap {} = {}
      BY <1>6
    <2>2. NamesAreLocked /\ \A q \in Requests : SeenAreUnique(q)'
      BY <1>5, <1>6 DEF NamesOK
    <2> QED
      BY <1>5, <2>1, <2>2, LockedIf
  <1>8. IdsAreTaken'
    <2>1. \A t \in TagIds : tags'[t] # NoRow => t <= lastTag
      BY <1>2 DEF NamesOK, IdsAreTaken
    <2>2. \A q \in Requests, t \in TagIds : rows'[q][t] # NoRow => rows[q][t] # NoRow /\ q # r
      BY <1>1
    <2>3. \A q \in Requests, t \in TagIds : rows'[q][t] = rows[q][t] \/ rows'[q][t] = NoRow
      BY <1>1
    <2> QED
      BY <1>1, <2>1, <2>2, <2>3 DEF NamesOK, IdsAreTaken
  <1> QED
    BY <1>4, <1>7, <1>8 DEF NamesOK, NamesAreUnique

LEMMA DeletesNames ==
  ASSUME TypeOK, NamesOK, NEW r \in Requests, NEW gone \in SUBSET TagIds, Deletes(r, gone)
  PROVE  NamesOK'
  <1>1. /\ \A q \in Requests \ {r} : pc'[q] = pc[q] /\ rows'[q] = rows[q]
        /\ \A t \in TagIds : rows'[r][t] = NoRow /\ rows[r][t] = NoRow
        /\ \A t \in TagIds : tags'[t] = IF t \in gone THEN NoRow ELSE tags[t]
        /\ \A t \in gone, q \in Requests : rows[q][t] = NoRow
        /\ lastTag' = lastTag
    BY DEF Deletes, Alone, Blank
  <1>2. rows' = rows
    BY <1>1 DEF Deletes, Alone, TypeOK
  <1>3. ASSUME NEW q \in Requests
        PROVE  SeenAreUnique(q)' /\ HeldNames(q)' \subseteq HeldNames(q)
    <2>1. \A t \in TagIds : Seen(q)'[t] = Seen(q)[t] \/ Seen(q)'[t] = NoRow
      BY <1>1, <1>2 DEF Seen
    <2>2. SeenAreUnique(q)'
      <3>1. CASE q = r
        <4>1. \A t \in TagIds : Seen(r)'[t] = tags[t] \/ Seen(r)'[t] = NoRow
          BY <1>1 DEF Seen
        <4> QED
          BY <3>1, <4>1 DEF NamesOK, NamesAreUnique, SeenAreUnique
      <3>2. CASE q # r
        BY <1>1, <2>1, <3>2 DEF NamesOK, NamesAreLocked, SeenAreUnique
      <3> QED
        BY <3>1, <3>2
    <2>3. HeldNames(q)' \subseteq HeldNames(q)
      <3>1. CASE q = r
        BY <1>1, <3>1, HeldNamesAfter
      <3>2. CASE q # r
        BY <1>1, <3>2, HeldNamesAre, HeldNamesAfter
      <3> QED
        BY <3>1, <3>2
    <2> QED
      BY <2>2, <2>3
  <1>4. NamesAreLocked'
    <2>1. HeldNames(r)' \subseteq HeldNames(r) \cup {} /\ \A q \in Requests \ {r} : HeldNames(q) \cap {} = {}
      BY <1>3
    <2>2. NamesAreLocked
      BY DEF NamesOK
    <2> QED
      BY <1>3, <2>1, <2>2, LockedIf
  <1>5. IdsAreTaken'
    BY <1>1, <1>2 DEF NamesOK, IdsAreTaken
  <1>6. NamesAreUnique'
    BY <1>1 DEF NamesOK, NamesAreUnique
  <1> QED
    BY <1>4, <1>5, <1>6 DEF NamesOK

\* Whatever a step does to tags and rows.
LEMMA EffectNames ==
  ASSUME TypeOK, NamesOK, NEW r \in Requests, Effect(r)
  PROVE  NamesOK'
  BY KeepsNames, DropsNames, CommitsNames, InsertsNames, LocksNames, RenamesNames, DeletesNames
  DEF Effect

-----------------------------------------------------------------------------
(* What a step does to its request, and to no other *)

Shape(r) == RouteShape(r) /\ WriteShape(r) /\ FoundShape(r)
Statuses == {0, 200, 400, 401, 403, 404, 500}
PageType == [ids : SUBSET TagIds, total : Nat]

Frame(r) ==
    /\ Alone(r)
    /\ \A q \in Requests \ {r} :
          body'[q] = body[q] /\ added'[q] = added[q] /\ found'[q] = found[q] /\ toInsert'[q] = toInsert[q]

Local(r) == TypeOK' /\ Frame(r) /\ Shape(r)' /\ Effect(r)

LEMMA BodyTypes ==
  ASSUME TypeOK, NEW r \in Requests
  PROVE  /\ body[r] \in Body /\ body[r].route \in Routes /\ body[r].issuer \in Issuers
         /\ body[r].ids \in SUBSET TagIds /\ body[r].names \in SUBSET Names
         /\ body[r].objects \in SUBSET Objects /\ body[r].published \in BOOLEAN
         /\ body[r].removedIds \in SUBSET TagIds /\ body[r].removedFrom \in SUBSET Objects
  BY DEF TypeOK, Body

LEMMA LowerTypes == \A n \in Names : Lower[n] \in Names
  BY TagAssumption

\* The others keep their shape.
LEMMA OthersKeepShape ==
  ASSUME NEW r \in Requests, Frame(r), \A q \in Requests : Shape(q), Shape(r)'
  PROVE  \A q \in Requests : Shape(q)'
  <1> SUFFICES ASSUME NEW q \in Requests \ {r} PROVE Shape(q)'
    OBVIOUS
  <1>1. /\ pc'[q] = pc[q] /\ rows'[q] = rows[q] /\ body'[q] = body[q] /\ added'[q] = added[q]
        /\ found'[q] = found[q] /\ toInsert'[q] = toInsert[q]
    BY DEF Frame, Alone
  <1>2. RouteShape(q)'
    BY <1>1 DEF Shape, RouteShape
  <1>3. WriteShape(q)'
    BY <1>1 DEF Shape, WriteShape
  <1>4. FoundShape(q)'
    BY <1>1 DEF Shape, FoundShape
  <1> QED
    BY <1>2, <1>3, <1>4 DEF Shape

\* The end of a transaction.
LEMMA RefuseIs ==
  ASSUME TypeOK, NEW r \in Requests, NEW s \in Statuses, Refuse(r, s)
  PROVE  /\ pc' \in [Requests -> Step] /\ answer' \in [Requests -> Statuses]
         /\ rows' \in [Requests -> [TagIds -> TagRow \cup {NoRow}]]
         /\ added' \in [Requests -> SUBSET (Objects \X TagIds)]
         /\ removed' \in [Requests -> SUBSET (Objects \X TagIds)]
         /\ pc'[r] = "done" /\ rows'[r] = Blank /\ added'[r] = {}
         /\ \A q \in Requests \ {r} : pc'[q] = pc[q] /\ rows'[q] = rows[q] /\ added'[q] = added[q]
  <1>1. Blank \in [TagIds -> TagRow \cup {NoRow}]
    BY DEF Blank
  <1>2. pc' \in [Requests -> Step] /\ pc'[r] = "done" /\ \A q \in Requests \ {r} : pc'[q] = pc[q]
    BY DEF TypeOK, Refuse, Goto, Step
  <1>3. answer' \in [Requests -> Statuses]
    BY DEF TypeOK, Refuse, Statuses
  <1>4. /\ rows' \in [Requests -> [TagIds -> TagRow \cup {NoRow}]] /\ rows'[r] = Blank
        /\ \A q \in Requests \ {r} : rows'[q] = rows[q]
    BY <1>1 DEF TypeOK, Refuse, Blank
  <1>5. /\ added' \in [Requests -> SUBSET (Objects \X TagIds)] /\ added'[r] = {}
        /\ \A q \in Requests \ {r} : added'[q] = added[q]
    BY DEF TypeOK, Refuse
  <1>6. removed' \in [Requests -> SUBSET (Objects \X TagIds)]
    BY DEF TypeOK, Refuse
  <1> QED
    BY <1>2, <1>3, <1>4, <1>5, <1>6

\* A request that is refused, or reads and answers.
LEMMA RefusedStep ==
  ASSUME TypeOK, NEW r \in Requests, Shape(r), pc[r] # "new", NEW s \in Statuses, Refuse(r, s),
         UNCHANGED <<tableVars, body, toInsert, found, feasible, changed>>,
         page' \in [Requests -> PageType]
  PROVE  Local(r)
  <1>1. TypeOK'
    BY RefuseIs DEF TypeOK, tableVars, PageType, Statuses
  <1>2. Frame(r)
    BY RefuseIs DEF Frame, Alone
  <1>3. Shape(r)'
    <2>1. RouteShape(r)'
      BY RefuseIs DEF Shape, RouteShape
    <2>2. WriteShape(r)'
      BY RefuseIs DEF WriteShape, Blank, Writing
    <2>3. FoundShape(r)'
      BY RefuseIs DEF FoundShape, Writing
    <2> QED
      BY <2>1, <2>2, <2>3 DEF Shape
  <1>4. Drops(r)
    BY <1>2, RefuseIs DEF Drops, tableVars, Frame
  <1> QED
    BY <1>1, <1>2, <1>3, <1>4 DEF Local, Effect

\* A request that goes on, and writes nothing.
LEMMA GoesOn ==
  ASSUME TypeOK, NEW r \in Requests, Shape(r), NEW to \in StepsOf(body[r].route), to \in Step,
         pc[r] \notin {"new", "unique"}, to # "unique",
         Goto(r, to), UNCHANGED <<tableVars, body, answer, writeVars, feasible, changed>>,
         toInsert' \in [Requests -> SUBSET Names],
         found' \in [Requests -> [Names -> TagIds \cup {NoTag}]],
         page' \in [Requests -> PageType],
         \A q \in Requests \ {r} : found'[q] = found[q] /\ toInsert'[q] = toInsert[q],
         WriteShape(r)', FoundShape(r)'
  PROVE  Local(r)
  <1>1. /\ pc' \in [Requests -> Step] /\ pc'[r] = to
        /\ \A q \in Requests \ {r} : pc'[q] = pc[q]
    BY DEF TypeOK, Goto
  <1>2. TypeOK'
    BY <1>1 DEF TypeOK, tableVars, writeVars, PageType
  <1>3. Frame(r)
    BY <1>1 DEF Frame, Alone, TypeOK, writeVars
  <1>4. RouteShape(r)'
    <2>1. body' = body /\ body[r] \in Bodies
      BY DEF Shape, RouteShape
    <2> QED
      BY <1>1, <2>1 DEF RouteShape
  <1>5. Keeps(r)
    BY <1>1, <1>3 DEF Keeps, Frame, tableVars, writeVars
  <1> QED
    BY <1>2, <1>3, <1>4, <1>5 DEF Local, Effect, Shape

\* A request that goes on, and writes pairs.
LEMMA WritesPairs ==
  ASSUME TypeOK, NEW r \in Requests, Shape(r), NEW to \in StepsOf(body[r].route), to \in Step,
         pc[r] \notin {"new", "unique"}, to # "unique",
         Goto(r, to), UNCHANGED <<tableVars, body, answer, localVars, rows, feasible, changed>>,
         added' \in [Requests -> SUBSET (Objects \X TagIds)],
         removed' \in [Requests -> SUBSET (Objects \X TagIds)],
         \A q \in Requests \ {r} : added'[q] = added[q],
         WriteShape(r)', FoundShape(r)'
  PROVE  Local(r)
  <1>1. /\ pc' \in [Requests -> Step] /\ pc'[r] = to
        /\ \A q \in Requests \ {r} : pc'[q] = pc[q]
    BY DEF TypeOK, Goto
  <1>2. TypeOK'
    BY <1>1 DEF TypeOK, tableVars, localVars
  <1>3. Frame(r)
    BY <1>1 DEF Frame, Alone, TypeOK, localVars
  <1>4. RouteShape(r)'
    <2>1. body' = body /\ body[r] \in Bodies
      BY DEF Shape, RouteShape
    <2> QED
      BY <1>1, <2>1 DEF RouteShape
  <1>5. Keeps(r)
    BY <1>1, <1>3 DEF Keeps, Frame, tableVars
  <1> QED
    BY <1>2, <1>3, <1>4, <1>5 DEF Local, Effect, Shape

-----------------------------------------------------------------------------
(* The actions, one by one *)

\* The part of the invariant that is about one row, or one request.
LocalOK(r) == TypeOK /\ Shape(r) /\ IdsAreTaken

LEMMA FirstStepIs ==
  ASSUME NEW b \in Body
  PROVE  FirstStep(b) \in StepsOf(b.route) /\ FirstStep(b) \in Step /\ FirstStep(b) \notin Writing
  <1>1. b.route \in Routes
    BY DEF Body
  <1> QED
    BY <1>1 DEF FirstStep, StepsOf, Step, Writing, Routes

LEMMA BeginStep ==
  ASSUME NEW r \in Requests, LocalOK(r), Begin(r)
  PROVE  Local(r)
  <1>1. PICK b \in Bodies :
          /\ body' = [body EXCEPT ![r] = b]
          /\ feasible' = [feasible EXCEPT ![r] = Feasible(b)]
          /\ IF b.route \in ModifyingRoutes /\ b.issuer # "admin"
             THEN /\ Goto(r, "done")
                  /\ answer' = [answer EXCEPT ![r] = IF b.issuer = "anonymous" THEN 401 ELSE 403]
             ELSE Goto(r, FirstStep(b)) /\ UNCHANGED answer
    BY DEF Begin
  <1>2. b \in Body /\ TypeOK /\ pc[r] = "new" /\ UNCHANGED <<tableVars, localVars, writeVars, changed>>
    BY TagAssumption DEF LocalOK, Begin
  <1>3. PICK to : /\ Goto(r, to) /\ to \in Step /\ to \notin Writing
                  /\ to = "done" \/ to \in StepsOf(b.route)
                  /\ answer' \in [Requests -> Statuses]
    <2>1. CASE b.route \in ModifyingRoutes /\ b.issuer # "admin"
      <3>1. (IF b.issuer = "anonymous" THEN 401 ELSE 403) \in Statuses
        BY DEF Statuses
      <3>2. answer \in [Requests -> Statuses]
        BY <1>2 DEF TypeOK, Statuses
      <3>3. answer' \in [Requests -> Statuses]
        BY <1>1, <2>1, <3>1, <3>2
      <3> QED
        BY <1>1, <2>1, <3>3 DEF Step, Writing
    <2>2. CASE ~ (b.route \in ModifyingRoutes /\ b.issuer # "admin")
      <3>1. answer' \in [Requests -> Statuses]
        BY <1>1, <1>2, <2>2 DEF TypeOK, Statuses
      <3> QED
        BY <1>1, <1>2, <2>2, <3>1, FirstStepIs
    <2> QED
      BY <2>1, <2>2
  <1>4. /\ pc' \in [Requests -> Step] /\ pc'[r] = to
        /\ \A q \in Requests \ {r} : pc'[q] = pc[q]
    BY <1>2, <1>3 DEF TypeOK, Goto
  <1>5. body' \in [Requests -> Body] /\ body'[r] = b /\ \A q \in Requests \ {r} : body'[q] = body[q]
    BY <1>1, <1>2 DEF TypeOK
  <1>6. feasible' \in [Requests -> BOOLEAN]
    <2>1. Feasible(b) \in BOOLEAN
      BY DEF Feasible
    <2> QED
      BY <1>1, <1>2, <2>1 DEF TypeOK
  <1>7. TypeOK'
    BY <1>2, <1>3, <1>4, <1>5, <1>6 DEF TypeOK, tableVars, localVars, writeVars, Statuses
  <1>8. Frame(r)
    BY <1>2, <1>4, <1>5 DEF Frame, Alone, TypeOK, localVars, writeVars
  <1>9. Shape(r)'
    <2>1. RouteShape(r)'
      BY <1>3, <1>4, <1>5 DEF RouteShape
    <2>2. pc[r] \notin Writing
      BY <1>2 DEF Writing
    <2>3. rows' = rows /\ added' = added /\ \A t \in TagIds : rows[r][t] = NoRow
      BY <1>2, <2>2 DEF writeVars, LocalOK, Shape, WriteShape
    <2>4. added[r] = {}
      BY <1>2 DEF LocalOK, Shape, WriteShape
    <2>5. WriteShape(r)' /\ FoundShape(r)'
      BY <1>3, <1>4, <2>3, <2>4 DEF WriteShape, FoundShape
    <2> QED
      BY <2>1, <2>5 DEF Shape
  <1>10. Keeps(r)
    <2>1. pc[r] # "unique" /\ to # "unique"
      BY <1>2, <1>3 DEF Writing
    <2> QED
      BY <1>2, <1>4, <1>8, <2>1 DEF Keeps, Frame, tableVars, writeVars
  <1> QED
    BY <1>7, <1>8, <1>9, <1>10 DEF Local, Effect

\* The steps that refuse, or answer, and change no table.
LEMMA FailStep ==
  ASSUME NEW r \in Requests, LocalOK(r), Fail(r) \/ AbortDeadlocked(r)
  PROVE  Local(r)
  <1>1. pc[r] # "new"
    <2>1. CASE Fail(r)
      BY <2>1 DEF Fail, Open
    <2>2. CASE AbortDeadlocked(r)
      <3>1. PICK q \in Requests : WaitsFor(r, q)
        BY <2>2 DEF AbortDeadlocked, Deadlocked
      <3> QED
        BY <3>1 DEF WaitsFor
    <2> QED
      BY <2>1, <2>2
  <1>2. Refuse(r, 500) /\ UNCHANGED <<tableVars, body, localVars, feasible, changed>>
    BY DEF Fail, AbortDeadlocked
  <1> QED
    BY <1>1, <1>2, RefusedStep DEF LocalOK, localVars, TypeOK, PageType, Statuses

LEMMA MatchingTypes ==
  ASSUME NEW b
  PROVE  Matching(b) \in SUBSET TagIds /\ IsFiniteSet(Matching(b)) /\ Cardinality(Matching(b)) \in Nat
  <1>1. Matching(b) \in SUBSET TagIds
    BY DEF Matching, VisibleTags
  <1>2. IsFiniteSet(TagIds)
    BY TagAssumption, FS_Interval DEF TagIds
  <1> QED
    BY <1>1, <1>2, FS_Subset, FS_CardinalityType

LEMMA ReadStep ==
  ASSUME NEW r \in Requests, LocalOK(r),
         ReadPage(r) \/ CountPage(r) \/ ViewTags(r) \/ SearchTags(r)
  PROVE  Local(r)
  <1>1. /\ TypeOK /\ Shape(r) /\ page \in [Requests -> PageType] /\ pc[r] # "new"
        /\ UNCHANGED <<tableVars, body, toInsert, found, feasible, changed>>
    BY DEF LocalOK, TypeOK, PageType, ReadPage, CountPage, ViewTags, SearchTags
  <1>2. page' \in [Requests -> PageType]
    <2>1. \A ids \in SUBSET TagIds : [page EXCEPT ![r].ids = ids] \in [Requests -> PageType]
      BY <1>1 DEF PageType
    <2>2. \A n \in Nat : [page EXCEPT ![r].total = n] \in [Requests -> PageType]
      BY <1>1 DEF PageType
    <2>3. CASE ReadPage(r)
      <3>1. PagesOf(body[r]) \subseteq SUBSET TagIds
        BY MatchingTypes DEF PagesOf
      <3> QED
        BY <1>1, <2>1, <2>3, <3>1 DEF ReadPage
    <2>4. CASE CountPage(r)
      BY <2>2, <2>4, MatchingTypes DEF CountPage
    <2>5. CASE ViewTags(r)
      <3>1. body[r].ids \cap VisibleTags(body[r].issuer) \in SUBSET TagIds
        BY DEF VisibleTags
      <3> QED
        BY <2>1, <2>5, <3>1 DEF ViewTags
    <2>6. CASE SearchTags(r)
      BY <1>1, <2>1, <2>6, MatchingTypes DEF SearchTags
    <2> QED
      BY <2>3, <2>4, <2>5, <2>6
  <1>3. CASE \E s \in Statuses : Refuse(r, s)
    BY <1>1, <1>2, <1>3, RefusedStep
  <1>4. CASE Goto(r, "count") /\ pc[r] = "page" /\ UNCHANGED <<answer, writeVars>>
    <2>1. "count" \in StepsOf(body[r].route) /\ "count" \in Step
      BY <1>1, <1>4, BodyTypes DEF Shape, RouteShape, StepsOf, Step, Routes
    <2>2. pc'[r] = "count"
      BY <1>1, <1>4 DEF Goto, TypeOK
    <2>3. WriteShape(r)' /\ FoundShape(r)'
      <3>1. \A t \in TagIds : rows[r][t] = NoRow
        BY <1>1, <1>4 DEF Shape, WriteShape, Writing
      <3>2. added[r] = {}
        BY <1>1, <1>4 DEF Shape, WriteShape
      <3> QED
        BY <1>4, <2>2, <3>1, <3>2 DEF WriteShape, FoundShape, Writing, writeVars
    <2>4. /\ toInsert' \in [Requests -> SUBSET Names]
          /\ found' \in [Requests -> [Names -> TagIds \cup {NoTag}]]
      BY <1>1 DEF TypeOK
    <2> QED
      BY <1>1, <1>2, <1>4, <2>1, <2>3, <2>4, GoesOn
  <1>5. ASSUME NEW x PROVE (IF x = {} THEN 404 ELSE 200) \in Statuses
    BY DEF Statuses
  <1> QED
    BY <1>3, <1>4, <1>5 DEF ReadPage, CountPage, ViewTags, SearchTags, Statuses

\* The statements that write one row, or look names up.
LEMMA InsertTagStep ==
  ASSUME NEW r \in Requests, LocalOK(r), InsertTag(r)
  PROVE  Local(r)
  <1>1. /\ TypeOK /\ Shape(r) /\ pc[r] = "insert" /\ page \in [Requests -> PageType]
        /\ UNCHANGED <<tags, objects, pairs, body, localVars, feasible, changed>>
    BY DEF LocalOK, TypeOK, PageType, InsertTag
  <1>2. CASE Refuse(r, 400) /\ UNCHANGED lastTag
    BY <1>1, <1>2, RefusedStep DEF Statuses, tableVars, localVars
  <1>3. CASE ~ (Refuse(r, 400) /\ UNCHANGED lastTag)
    <2> DEFINE n == TheName(r)
               i == lastTag + 1
               w == [name |-> n, published |-> body[r].published]
    <2>1. /\ Named(tags, n) = {} /\ lastTag < MaxTag /\ lastTag' = i
          /\ rows' = [rows EXCEPT ![r][i] = w]
          /\ Goto(r, "add") /\ UNCHANGED <<answer, added, removed>>
          /\ ~ Blocked(r)
      BY <1>3 DEF InsertTag
    <2>2. body[r].route = "tags_add"
      BY <1>1, BodyTypes DEF Shape, RouteShape, StepsOf, Routes
    <2>3. n \in Names
      BY <1>1, <2>2, TheNameIs DEF Shape
    <2>4. i \in TagIds /\ i \in 0 .. MaxTag
      BY <1>1, <2>1, TagAssumption DEF TypeOK, TagIds
    <2>5. w \in TagRow
      BY <1>1, <2>3, BodyTypes DEF TagRow
    <2>6. \A t \in TagIds : rows[r][t] = NoRow
      BY <1>1 DEF Shape, WriteShape, Writing
    <2>7. added[r] = {}
      BY <1>1 DEF Shape, WriteShape
    <2> HIDE DEF w
    <2>8. /\ rows' \in [Requests -> [TagIds -> TagRow \cup {NoRow}]]
          /\ rows'[r] = [rows[r] EXCEPT ![i] = w]
          /\ \A q \in Requests \ {r} : rows'[q] = rows[q]
          /\ \A t \in TagIds : rows'[r][t] = IF t = i THEN w ELSE NoRow
      BY <1>1, <2>1, <2>4, <2>5, <2>6 DEF TypeOK
    <2>9. pc' \in [Requests -> Step] /\ pc'[r] = "add" /\ \A q \in Requests \ {r} : pc'[q] = pc[q]
      BY <1>1, <2>1 DEF Goto, TypeOK, Step
    <2>10. TypeOK'
      BY <1>1, <2>1, <2>4, <2>8, <2>9 DEF TypeOK, localVars
    <2>11. Frame(r)
      BY <1>1, <2>1, <2>8, <2>9 DEF Frame, Alone, localVars
    <2>12. Shape(r)'
      <3>1. RouteShape(r)'
        BY <1>1, <2>2, <2>9 DEF Shape, RouteShape, StepsOf
      <3>2. w # NoRow
        BY <2>5, TagAssumption
      <3>3. WriteShape(r)' /\ FoundShape(r)'
        BY <1>1, <2>1, <2>2, <2>4, <2>7, <2>8, <2>9, <3>2 DEF WriteShape, FoundShape, Writing
      <3> QED
        BY <3>1, <3>3 DEF Shape
    <2>13. Inserts(r, n)
      <3>1. Seen(r) = tags
        BY <1>1, <2>6 DEF Seen, TypeOK
      <3>2. \A q \in Requests \ {r} : Lower[n] \notin HeldNames(q)
        BY <1>1, <2>1 DEF Blocked, WaitsFor
      <3>3. \E p \in BOOLEAN : rows'[r] = [rows[r] EXCEPT ![lastTag + 1] = [name |-> n, published |-> p]]
        BY <1>1, <2>8, BodyTypes DEF w
      <3> QED
        BY <1>1, <2>1, <2>3, <2>9, <2>11, <3>1, <3>2, <3>3 DEF Inserts, Frame
    <2> QED
      BY <2>3, <2>10, <2>11, <2>12, <2>13 DEF Local, Effect
  <1> QED
    BY <1>2, <1>3

LEMMA LockTagStep ==
  ASSUME NEW r \in Requests, LocalOK(r), LockTag(r)
  PROVE  Local(r)
  <1>1. /\ TypeOK /\ Shape(r) /\ pc[r] = "lock" /\ page \in [Requests -> PageType]
        /\ UNCHANGED <<tableVars, body, localVars, feasible, changed>>
    BY DEF LocalOK, TypeOK, PageType, LockTag
  <1>2. CASE Refuse(r, 404)
    BY <1>1, <1>2, RefusedStep DEF Statuses, tableVars, localVars
  <1>3. CASE ~ Refuse(r, 404)
    <2> DEFINE w == [name |-> TheName(r), published |-> body[r].published]
    <2>1. PICK t \in body[r].ids :
            /\ tags[t] # NoRow /\ rows' = [rows EXCEPT ![r][t] = w]
            /\ Goto(r, "unique") /\ UNCHANGED <<answer, added, removed>>
      BY <1>3 DEF LockTag
    <2>2. body[r].route = "tags_update"
      BY <1>1, BodyTypes DEF Shape, RouteShape, StepsOf, Routes
    <2>3. w \in TagRow /\ t \in TagIds
      BY <1>1, <2>2, TheNameIs, BodyTypes DEF Shape, TagRow
    <2>4. \A u \in TagIds : rows[r][u] = NoRow
      BY <1>1 DEF Shape, WriteShape, Writing
    <2>5. added[r] = {}
      BY <1>1 DEF Shape, WriteShape
    <2> HIDE DEF w
    <2>6. /\ rows' \in [Requests -> [TagIds -> TagRow \cup {NoRow}]]
          /\ rows'[r] = [rows[r] EXCEPT ![t] = w]
          /\ \A q \in Requests \ {r} : rows'[q] = rows[q]
          /\ \A u \in TagIds : rows'[r][u] = IF u = t THEN w ELSE NoRow
      BY <1>1, <2>1, <2>3, <2>4 DEF TypeOK
    <2>7. pc' \in [Requests -> Step] /\ pc'[r] = "unique" /\ \A q \in Requests \ {r} : pc'[q] = pc[q]
      BY <1>1, <2>1 DEF Goto, TypeOK, Step
    <2>8. TypeOK'
      BY <1>1, <2>1, <2>6, <2>7 DEF TypeOK, tableVars, localVars
    <2>9. Frame(r)
      BY <1>1, <2>1, <2>6, <2>7 DEF Frame, Alone, localVars
    <2>10. Shape(r)'
      <3>1. RouteShape(r)'
        BY <1>1, <2>2, <2>7 DEF Shape, RouteShape, StepsOf
      <3>2. w # NoRow
        BY <2>3, TagAssumption
      <3>3. WriteShape(r)' /\ FoundShape(r)'
        BY <1>1, <2>1, <2>2, <2>3, <2>5, <2>6, <2>7, <3>2 DEF WriteShape, FoundShape, Writing
      <3> QED
        BY <3>1, <3>3 DEF Shape
    <2>11. Locks(r, t)
      <3>1. rows[r] = Blank
        BY <1>1, <2>4 DEF Blank, TypeOK
      <3>2. \A q \in Requests \ {r} : rows[q][t] = NoRow
        BY <1>1, <2>1 DEF LockTag, Blocked, WaitsFor
      <3> QED
        BY <1>1, <2>1, <2>3, <2>6, <2>7, <2>9, <3>1, <3>2 DEF Locks, Frame, tableVars
    <2> QED
      BY <2>3, <2>8, <2>9, <2>10, <2>11 DEF Local, Effect
  <1> QED
    BY <1>2, <1>3

LEMMA RenameTagStep ==
  ASSUME NEW r \in Requests, LocalOK(r), RenameTag(r)
  PROVE  Local(r)
  <1>1. /\ TypeOK /\ Shape(r) /\ pc[r] = "unique" /\ page \in [Requests -> PageType]
        /\ UNCHANGED <<tableVars, body, localVars, feasible, changed>> /\ ~ Blocked(r)
    BY DEF LocalOK, TypeOK, PageType, RenameTag
  <1>2. CASE Refuse(r, 400)
    BY <1>1, <1>2, RefusedStep DEF Statuses, tableVars, localVars
  <1>3. CASE ~ Refuse(r, 400)
    <2>1. /\ Named(Seen(r), TheName(r)) = {TheTag(r)}
          /\ Goto(r, "add") /\ UNCHANGED <<answer, writeVars>>
      BY <1>3 DEF RenameTag
    <2>2. body[r].route = "tags_update"
      BY <1>1, BodyTypes DEF Shape, RouteShape, StepsOf, Routes
    <2>3. TheTag(r) \in TagIds /\ \A u \in TagIds : rows[r][u] # NoRow <=> u = TheTag(r)
      BY <1>1, <2>2, TheTagIs DEF Shape, Writing
    <2>4. pc' \in [Requests -> Step] /\ pc'[r] = "add" /\ \A q \in Requests \ {r} : pc'[q] = pc[q]
      BY <1>1, <2>1 DEF Goto, TypeOK, Step
    <2>5. TypeOK'
      BY <1>1, <2>1, <2>4 DEF TypeOK, tableVars, localVars, writeVars
    <2>6. Frame(r)
      BY <1>1, <2>1, <2>4 DEF Frame, Alone, localVars, writeVars, TypeOK
    <2>7. Shape(r)'
      <3>1. RouteShape(r)'
        BY <1>1, <2>2, <2>4 DEF Shape, RouteShape, StepsOf
      <3>2. added[r] = {}
        BY <1>1 DEF Shape, WriteShape
      <3>3. WriteShape(r)' /\ FoundShape(r)'
        BY <1>1, <2>1, <2>2, <2>3, <2>4, <3>2 DEF WriteShape, FoundShape, Writing, writeVars
      <3> QED
        BY <3>1, <3>3 DEF Shape
    <2>8. Renames(r, TheTag(r))
      <3> DEFINE t == TheTag(r)
      <3>1. Lower[rows[r][t].name] = Lower[TheName(r)]
        <4>1. t \in Named(Seen(r), TheName(r)) /\ Seen(r)[t] = rows[r][t]
          BY <2>1, <2>3 DEF Seen
        <4> QED
          BY <4>1 DEF Named
      <3>2. Named(Seen(r), rows[r][t].name) = {t}
        BY <2>1, <3>1 DEF Named
      <3>3. \A q \in Requests \ {r} : Lower[rows[r][t].name] \notin HeldNames(q)
        BY <1>1, <3>1 DEF Blocked, WaitsFor
      <3> QED
        BY <1>1, <2>1, <2>3, <2>4, <2>6, <3>2, <3>3 DEF Renames, Frame, tableVars, writeVars
    <2> QED
      BY <2>3, <2>5, <2>6, <2>7, <2>8 DEF Local, Effect
  <1> QED
    BY <1>2, <1>3

\* The steps of /objects/update_tags.
LEMMA LookUpNamesStep ==
  ASSUME NEW r \in Requests, LocalOK(r), LookUpNames(r)
  PROVE  Local(r)
  <1> DEFINE names == body[r].names
  <1>1. /\ TypeOK /\ Shape(r) /\ pc[r] = "lookup" /\ page \in [Requests -> PageType]
        /\ UNCHANGED <<tableVars, body, feasible, changed>> /\ names \in SUBSET Names
    BY BodyTypes DEF LocalOK, TypeOK, PageType, LookUpNames
  <1>2. CASE (names # {} /\ body[r].issuer # "admin") \/ body[r].issuer = "anonymous"
    <2>1. Refuse(r, IF body[r].issuer = "anonymous" THEN 401 ELSE 403) /\ UNCHANGED localVars
      BY <1>2 DEF LookUpNames
    <2>2. (IF body[r].issuer = "anonymous" THEN 401 ELSE 403) \in Statuses
      BY DEF Statuses
    <2> QED
      BY <1>1, <2>1, <2>2, RefusedStep DEF localVars
  <1>3. CASE ~ ((names # {} /\ body[r].issuer # "admin") \/ body[r].issuer = "anonymous")
    <2> DEFINE known(n) == {t \in TagIds : \E m \in names : Lower[m] = n /\ t \in Named(tags, m)}
               map == [n \in Names |-> IF known(n) = {} THEN NoTag ELSE CHOOSE t \in known(n) : TRUE]
    <2>1. PICK given \in NewNames(names) :
            /\ toInsert' = [toInsert EXCEPT ![r] = given]
            /\ found' = [found EXCEPT ![r] = map]
            /\ Goto(r, IF given = {} THEN "check_added" ELSE "names")
            /\ UNCHANGED <<answer, page, writeVars>>
      BY <1>3 DEF LookUpNames
    <2> HIDE DEF names
    <2>2. /\ given \subseteq names
          /\ \A n \in names : Named(tags, n) = {} => \E m \in given : Lower[m] = Lower[n]
      BY <2>1 DEF NewNames
    <2>3. map \in [Names -> TagIds \cup {NoTag}]
      OBVIOUS
    <2>4. \A n \in names : map[Lower[n]] \in TagIds \/ \E m \in given : Lower[m] = Lower[n]
      <3> SUFFICES ASSUME NEW n \in names, Named(tags, n) # {}
                   PROVE  map[Lower[n]] \in TagIds
        BY <2>2
      <3>1. Lower[n] \in Names
        BY <1>1, LowerTypes
      <3>2. known(Lower[n]) # {}
        BY DEF Named
      <3> QED
        BY <3>1, <3>2
    <2> HIDE DEF map
    <2> DEFINE to == IF given = {} THEN "check_added" ELSE "names"
    <2>5. body[r].route = "update_tags"
      BY <1>1, BodyTypes DEF Shape, RouteShape, StepsOf, Routes
    <2>6. to \in StepsOf(body[r].route) /\ to \in Step /\ to # "unique"
      BY <2>5 DEF StepsOf, Step
    <2>7. /\ toInsert' \in [Requests -> SUBSET Names] /\ toInsert'[r] = given
          /\ found' \in [Requests -> [Names -> TagIds \cup {NoTag}]] /\ found'[r] = map
          /\ \A q \in Requests \ {r} : found'[q] = found[q] /\ toInsert'[q] = toInsert[q]
      BY <1>1, <2>1, <2>2, <2>3 DEF TypeOK
    <2>8. pc'[r] = to
      BY <1>1, <2>1 DEF Goto, TypeOK
    <2>9. WriteShape(r)'
      <3>1. added[r] = {}
        BY <1>1 DEF Shape, WriteShape
      <3> QED
        BY <1>1, <2>1, <2>5, <2>8, <3>1 DEF WriteShape, Writing, writeVars
    <2>10. FoundShape(r)'
      BY <1>1, <2>1, <2>4, <2>7, <2>8 DEF FoundShape, names
    <2> QED
      BY <1>1, <2>1, <2>6, <2>7, <2>9, <2>10, GoesOn
  <1> QED
    BY <1>2, <1>3

LEMMA InsertNameStep ==
  ASSUME NEW r \in Requests, LocalOK(r), InsertName(r)
  PROVE  Local(r)
  <1>1. /\ TypeOK /\ Shape(r) /\ pc[r] = "names" /\ page \in [Requests -> PageType]
        /\ UNCHANGED <<tags, objects, pairs, body, feasible, changed>>
    BY DEF LocalOK, TypeOK, PageType, InsertName
  <1>2. CASE Refuse(r, 400) /\ UNCHANGED <<lastTag, localVars>>
    BY <1>1, <1>2, RefusedStep DEF Statuses, tableVars, localVars
  <1>3. CASE ~ (Refuse(r, 400) /\ UNCHANGED <<lastTag, localVars>>)
    <2> DEFINE i == lastTag + 1
    <2>1. PICK n \in toInsert[r] :
            /\ \A q \in Requests \ {r} : Lower[n] \notin HeldNames(q)
            /\ Named(Seen(r), n) = {} /\ lastTag < MaxTag /\ lastTag' = i
            /\ rows' = [rows EXCEPT ![r][i] = [name |-> n, published |-> TRUE]]
            /\ found' = [found EXCEPT ![r][Lower[n]] = i]
            /\ toInsert' = [toInsert EXCEPT ![r] = @ \ {n}]
            /\ Goto(r, IF toInsert[r] = {n} THEN "check_added" ELSE "names")
            /\ UNCHANGED <<answer, page, added, removed>>
      BY <1>3 DEF InsertName
    <2> DEFINE w == [name |-> n, published |-> TRUE]
               to == IF toInsert[r] = {n} THEN "check_added" ELSE "names"
    <2>2. body[r].route = "update_tags"
      BY <1>1, BodyTypes DEF Shape, RouteShape, StepsOf, Routes
    <2>3. n \in Names /\ Lower[n] \in Names /\ toInsert[r] \in SUBSET Names
      BY <1>1, LowerTypes DEF TypeOK
    <2>4. i \in TagIds /\ i \in 0 .. MaxTag
      BY <1>1, <2>1, TagAssumption DEF TypeOK, TagIds
    <2>5. w \in TagRow
      BY <2>3 DEF TagRow
    <2> HIDE DEF w
    <2>6. /\ rows' \in [Requests -> [TagIds -> TagRow \cup {NoRow}]]
          /\ rows'[r] = [rows[r] EXCEPT ![i] = w]
          /\ \A q \in Requests \ {r} : rows'[q] = rows[q]
      BY <1>1, <2>1, <2>4, <2>5 DEF TypeOK, w
    <2>7. pc' \in [Requests -> Step] /\ pc'[r] = to /\ \A q \in Requests \ {r} : pc'[q] = pc[q]
      BY <1>1, <2>1 DEF Goto, TypeOK, Step
    <2>8. /\ found' \in [Requests -> [Names -> TagIds \cup {NoTag}]]
          /\ \A x \in Names : found'[r][x] = IF x = Lower[n] THEN i ELSE found[r][x]
          /\ toInsert' \in [Requests -> SUBSET Names] /\ toInsert'[r] = toInsert[r] \ {n}
          /\ \A q \in Requests \ {r} : found'[q] = found[q] /\ toInsert'[q] = toInsert[q]
      BY <1>1, <2>1, <2>3, <2>4 DEF TypeOK
    <2> HIDE DEF i
    <2>9. TypeOK'
      BY <1>1, <2>1, <2>4, <2>6, <2>7, <2>8 DEF TypeOK
    <2>10. Frame(r)
      BY <1>1, <2>1, <2>6, <2>7, <2>8 DEF Frame, Alone
    <2>11. RouteShape(r)'
      BY <1>1, <2>2, <2>7 DEF Shape, RouteShape, StepsOf
    <2>12. WriteShape(r)'
      <3>1. added[r] = {}
        BY <1>1 DEF Shape, WriteShape
      <3> QED
        BY <1>1, <2>1, <2>2, <2>7, <3>1 DEF WriteShape, Writing
    <2>13. FoundShape(r)'
      <3> SUFFICES ASSUME NEW m \in body[r].names
                   PROVE  \/ found'[r][Lower[m]] \in TagIds
                          \/ to = "names" /\ \E l \in toInsert[r] \ {n} : Lower[l] = Lower[m]
        BY <1>1, <2>7, <2>8 DEF FoundShape
      <3>1. Lower[m] \in Names
        BY <1>1, BodyTypes, LowerTypes
      <3>2. CASE Lower[m] = Lower[n]
        BY <2>4, <2>8, <3>1, <3>2
      <3>3. CASE Lower[m] # Lower[n]
        <4>1. \/ found[r][Lower[m]] \in TagIds
              \/ \E l \in toInsert[r] : Lower[l] = Lower[m]
          BY <1>1, <2>2 DEF Shape, FoundShape, Writing
        <4>2. CASE found[r][Lower[m]] \in TagIds
          BY <2>8, <3>1, <3>3, <4>2
        <4>3. CASE \E l \in toInsert[r] : Lower[l] = Lower[m]
          BY <3>3, <4>3
        <4> QED
          BY <4>1, <4>2, <4>3
      <3> QED
        BY <3>2, <3>3
    <2>14. Inserts(r, n)
      <3>1. pc[r] # "unique" /\ pc'[r] # "unique"
        BY <1>1, <2>7
      <3>2. \E p \in BOOLEAN : rows'[r] = [rows[r] EXCEPT ![lastTag + 1] = [name |-> n, published |-> p]]
        BY <2>6 DEF w, i
      <3> QED
        BY <1>1, <2>1, <2>3, <2>10, <3>1, <3>2 DEF Inserts, Frame, i
    <2> QED
      BY <2>3, <2>9, <2>10, <2>11, <2>12, <2>13, <2>14 DEF Local, Effect, Shape
  <1> QED
    BY <1>2, <1>3

LEMMA CheckStep ==
  ASSUME NEW r \in Requests, LocalOK(r), CheckAdded(r) \/ CheckRemoved(r)
  PROVE  Local(r)
  <1>1. /\ TypeOK /\ Shape(r) /\ pc[r] \in {"check_added", "check_removed"}
        /\ page \in [Requests -> PageType]
        /\ UNCHANGED <<tableVars, body, localVars, feasible, changed>>
    BY DEF LocalOK, TypeOK, PageType, CheckAdded, CheckRemoved
  <1>2. CASE Refuse(r, 403)
    BY <1>1, <1>2, RefusedStep DEF Statuses, localVars
  <1>3. CASE ~ Refuse(r, 403)
    <2>1. PICK to \in {"add", "remove"} :
            /\ Goto(r, to) /\ UNCHANGED <<answer, writeVars>>
            /\ to = "add" => pc[r] = "check_added"
      BY <1>3 DEF CheckAdded, CheckRemoved
    <2>2. body[r].route = "update_tags"
      BY <1>1, BodyTypes DEF Shape, RouteShape, StepsOf, Routes
    <2>3. to \in StepsOf(body[r].route) /\ to \in Step /\ to # "unique"
      BY <2>1, <2>2 DEF StepsOf, Step
    <2>4. pc'[r] = to
      BY <1>1, <2>1 DEF Goto, TypeOK
    <2>5. WriteShape(r)'
      <3>1. to = "add" => added[r] = {}
        BY <1>1, <2>1 DEF Shape, WriteShape
      <3> QED
        BY <1>1, <2>1, <2>2, <2>4, <3>1 DEF WriteShape, Writing, writeVars
    <2>6. FoundShape(r)'
      BY <1>1, <2>2, <2>4 DEF Shape, FoundShape, Writing, localVars
    <2> QED
      BY <1>1, <2>1, <2>3, <2>5, <2>6, GoesOn DEF localVars, TypeOK
  <1> QED
    BY <1>2, <1>3

\* What is added are pairs of objects and tags.
LEMMA PairsToAddTypes ==
  ASSUME NEW r \in Requests, LocalOK(r), pc[r] \in {"check_added", "add", "check_removed", "remove"}
  PROVE  PairsToAdd(r) \in SUBSET (Objects \X TagIds)
  <1>1. /\ TypeOK /\ Shape(r) /\ pc[r] \in Writing /\ pc[r] # "names"
        /\ body[r].objects \in SUBSET Objects /\ body[r].ids \in SUBSET TagIds
    BY BodyTypes DEF LocalOK, Writing
  <1>2. CASE body[r].route = "update_tags"
    <2>1. \A n \in body[r].names : found[r][Lower[n]] \in TagIds
      BY <1>1, <1>2 DEF Shape, FoundShape
    <2> QED
      BY <1>1, <1>2, <2>1 DEF PairsToAdd
  <1>3. CASE body[r].route # "update_tags"
    <2>1. TheTag(r) \in TagIds
      BY <1>1, <1>3, TheTagIs DEF Shape
    <2> QED
      BY <1>1, <1>3, <2>1 DEF PairsToAdd
  <1> QED
    BY <1>2, <1>3

LEMMA AddPairsStep ==
  ASSUME NEW r \in Requests, LocalOK(r), AddPairs(r)
  PROVE  Local(r)
  <1>1. /\ TypeOK /\ Shape(r) /\ pc[r] = "add" /\ page \in [Requests -> PageType]
        /\ UNCHANGED <<tableVars, body, localVars, feasible, changed>>
    BY DEF LocalOK, TypeOK, PageType, AddPairs
  <1>2. CASE Refuse(r, 400)
    BY <1>1, <1>2, RefusedStep DEF Statuses, localVars
  <1>3. CASE ~ Refuse(r, 400)
    <2> DEFINE new == PairsToAdd(r) \ pairs
               to == CASE body[r].route = "tags_add" -> "commit"
                       [] body[r].route = "tags_update" -> "remove"
                       [] OTHER -> "check_removed"
    <2>1. /\ added' = [added EXCEPT ![r] = new] /\ Goto(r, to)
          /\ UNCHANGED <<answer, rows, removed>>
      BY <1>3 DEF AddPairs
    <2>2. new \in SUBSET (Objects \X TagIds)
      BY <1>1, PairsToAddTypes
    <2> HIDE DEF new
    <2>3. body[r].route \in {"tags_add", "tags_update", "update_tags"}
      BY <1>1, BodyTypes DEF Shape, RouteShape, StepsOf, Routes
    <2>4. /\ to \in StepsOf(body[r].route) /\ to \in Step /\ to # "unique"
          /\ to \in {"commit", "remove", "check_removed"}
      BY <2>3 DEF StepsOf, Step
    <2> HIDE DEF to
    <2>5. /\ added' \in [Requests -> SUBSET (Objects \X TagIds)]
          /\ \A q \in Requests \ {r} : added'[q] = added[q]
      BY <1>1, <2>1, <2>2 DEF TypeOK
    <2>6. pc'[r] = to
      BY <1>1, <2>1 DEF Goto, TypeOK
    <2>7. WriteShape(r)' /\ FoundShape(r)'
      BY <1>1, <2>1, <2>4, <2>6 DEF Shape, WriteShape, FoundShape, Writing, localVars
    <2>8. removed' \in [Requests -> SUBSET (Objects \X TagIds)]
      BY <1>1, <2>1 DEF TypeOK
    <2> QED
      BY <1>1, <2>1, <2>4, <2>5, <2>7, <2>8, WritesPairs
  <1> QED
    BY <1>2, <1>3

LEMMA RemovePairsStep ==
  ASSUME NEW r \in Requests, LocalOK(r), RemovePairs(r)
  PROVE  Local(r)
  <1>1. /\ TypeOK /\ Shape(r) /\ pc[r] = "remove"
        /\ UNCHANGED <<tableVars, body, answer, localVars, rows, added, feasible, changed>>
        /\ removed' = [removed EXCEPT ![r] = PairsToRemove(r) \cap (pairs \cup added[r])]
        /\ Goto(r, "commit")
    BY DEF LocalOK, RemovePairs
  <1>2. removed' \in [Requests -> SUBSET (Objects \X TagIds)]
    BY <1>1 DEF TypeOK
  <1>3. body[r].route \in {"tags_update", "update_tags"}
    BY <1>1, BodyTypes DEF Shape, RouteShape, StepsOf, Routes
  <1>4. "commit" \in StepsOf(body[r].route) /\ "commit" \in Step
    BY <1>3 DEF StepsOf, Step
  <1>5. pc'[r] = "commit"
    BY <1>1 DEF Goto, TypeOK
  <1>6. WriteShape(r)' /\ FoundShape(r)'
    BY <1>1, <1>5 DEF Shape, WriteShape, FoundShape, Writing, localVars
  <1>7. added' \in [Requests -> SUBSET (Objects \X TagIds)] /\ \A q \in Requests \ {r} : added'[q] = added[q]
    BY <1>1 DEF TypeOK
  <1> QED
    BY <1>1, <1>2, <1>4, <1>6, <1>7, WritesPairs

LEMMA NoticeTypes ==
  ASSUME TypeOK, NEW others \in SUBSET Requests, NEW ts \in SUBSET TagIds,
         NEW os \in SUBSET Objects, NEW ps \in SUBSET (Objects \X TagIds), Notice(others, ts, os, ps)
  PROVE  changed' \in [Requests -> Changes]
  <1>1. ASSUME NEW c \in Changes
        PROVE  [tags |-> c.tags \cup ts, objects |-> c.objects \cup os, pairs |-> c.pairs \cup ps] \in Changes
    BY DEF Changes
  <1>2. changed \in [Requests -> Changes]
    BY DEF TypeOK
  <1> QED
    BY <1>1, <1>2 DEF Notice

LEMMA SeenTypes ==
  ASSUME TypeOK, NEW r \in Requests
  PROVE  Seen(r) \in [TagIds -> TagRow \cup {NoRow}]
  BY DEF TypeOK, Seen

\* The steps that end a transaction that has changed the tables.
LEMMA EndedShape ==
  ASSUME NEW r \in Requests, LocalOK(r), pc[r] # "new", NEW s \in Statuses, Refuse(r, s),
         UNCHANGED <<objects, lastTag, body, localVars, feasible>>,
         tags' \in [TagIds -> TagRow \cup {NoRow}],
         pairs' \in SUBSET (Objects \X TagIds),
         changed' \in [Requests -> Changes]
  PROVE  TypeOK' /\ Frame(r) /\ Shape(r)'
  <1>1. TypeOK /\ Shape(r)
    BY DEF LocalOK
  <1>2. TypeOK'
    BY <1>1, RefuseIs DEF TypeOK, localVars, Statuses
  <1>3. Frame(r)
    BY <1>1, RefuseIs DEF Frame, Alone, localVars
  <1>4. RouteShape(r)'
    BY <1>1, RefuseIs DEF Shape, RouteShape
  <1>5. WriteShape(r)'
    BY <1>1, RefuseIs DEF WriteShape, Blank, Writing
  <1>6. FoundShape(r)'
    BY <1>1, RefuseIs DEF FoundShape, Writing
  <1> QED
    BY <1>2, <1>3, <1>4, <1>5, <1>6 DEF Shape

LEMMA CommitStep ==
  ASSUME NEW r \in Requests, LocalOK(r), Commit(r)
  PROVE  Local(r)
  <1>1. /\ TypeOK /\ pc[r] = "commit" /\ tags' = Seen(r)
        /\ pairs' = (pairs \cup added[r]) \ removed[r]
        /\ Notice(Requests \ {r}, {t \in TagIds : rows[r][t] # NoRow}, {}, HeldPairs(r))
        /\ Refuse(r, 200) /\ UNCHANGED <<objects, lastTag, body, localVars, feasible>>
    BY DEF LocalOK, Commit
  <1>2. /\ pairs \in SUBSET (Objects \X TagIds) /\ added[r] \in SUBSET (Objects \X TagIds)
        /\ HeldPairs(r) \in SUBSET (Objects \X TagIds)
    BY <1>1 DEF TypeOK, HeldPairs
  <1>3. changed' \in [Requests -> Changes]
    BY <1>1, <1>2, NoticeTypes
  <1>4. pairs' \in SUBSET (Objects \X TagIds)
    BY <1>1, <1>2
  <1>5. tags' \in [TagIds -> TagRow \cup {NoRow}]
    BY <1>1, SeenTypes
  <1>6. TypeOK' /\ Frame(r) /\ Shape(r)'
    BY <1>1, <1>3, <1>4, <1>5, EndedShape DEF Statuses
  <1>7. rows'[r] = Blank /\ pc'[r] = "done"
    BY <1>1, RefuseIs DEF Statuses
  <1>8. Commits(r)
    BY <1>1, <1>6, <1>7 DEF Commits, Frame
  <1> QED
    BY <1>6, <1>8 DEF Local, Effect

LEMMA DeleteTagsStep ==
  ASSUME NEW r \in Requests, LocalOK(r), DeleteTags(r)
  PROVE  Local(r)
  <1> DEFINE gone == {t \in body[r].ids : tags[t] # NoRow}
             status == IF gone = {} THEN 404 ELSE 200
  <1>1. /\ TypeOK /\ Shape(r) /\ pc[r] = "delete" /\ ~ Blocked(r)
        /\ tags' = [t \in TagIds |-> IF t \in gone THEN NoRow ELSE tags[t]]
        /\ pairs' = {p \in pairs : p[2] \notin gone}
        /\ Notice(Requests \ {r}, gone, {}, {p \in pairs : p[2] \in gone})
        /\ Refuse(r, status)
        /\ UNCHANGED <<objects, lastTag, body, localVars, feasible>>
    BY DEF LocalOK, DeleteTags
  <1>2. /\ gone \in SUBSET TagIds /\ pairs \in SUBSET (Objects \X TagIds)
        /\ tags \in [TagIds -> TagRow \cup {NoRow}]
    BY <1>1, BodyTypes DEF TypeOK
  <1>3. status \in Statuses
    BY DEF Statuses
  <1>4. \A t \in gone, q \in Requests \ {r} : rows[q][t] = NoRow
    BY <1>1 DEF Blocked, WaitsFor
  <1> HIDE DEF gone, status
  <1>5. changed' \in [Requests -> Changes]
    <2> DEFINE ps == {p \in pairs : p[2] \in gone}
    <2>1. ps \in SUBSET (Objects \X TagIds) /\ Requests \ {r} \in SUBSET Requests
      BY <1>2
    <2>2. Notice(Requests \ {r}, gone, {}, ps)
      BY <1>1
    <2> HIDE DEF ps
    <2> QED
      BY <1>1, <1>2, <2>1, <2>2, NoticeTypes
  <1>6. pairs' \in SUBSET (Objects \X TagIds) /\ tags' \in [TagIds -> TagRow \cup {NoRow}]
    BY <1>1, <1>2
  <1>7. TypeOK' /\ Frame(r) /\ Shape(r)'
    BY <1>1, <1>3, <1>5, <1>6, EndedShape
  <1>8. rows'[r] = Blank /\ pc'[r] = "done"
    BY <1>1, <1>3, RefuseIs
  <1>9. rows[r] = Blank
    <2>1. \A t \in TagIds : rows[r][t] = NoRow
      BY <1>1 DEF Shape, WriteShape, Writing
    <2> QED
      BY <1>1, <2>1 DEF Blank, TypeOK
  <1>10. Deletes(r, gone)
    BY <1>1, <1>4, <1>7, <1>8, <1>9 DEF Deletes, Frame
  <1> QED
    BY <1>2, <1>7, <1>10 DEF Local, Effect

\* Every step of a request.
LEMMA RequestStep ==
  ASSUME NEW r \in Requests, LocalOK(r), Begin(r) \/ Work(r) \/ Fail(r)
  PROVE  Local(r)
  BY BeginStep, FailStep, ReadStep, InsertTagStep, LockTagStep, RenameTagStep, LookUpNamesStep,
     InsertNameStep, CheckStep, AddPairsStep, RemovePairsStep, CommitStep, DeleteTagsStep
  DEF Work

-----------------------------------------------------------------------------
(* The ends of pairs *)

EndsOK == PairsHaveEnds /\ AddedHaveEnds

\* Ends are kept by a step that takes no object, no tag a pair needs and no row, and adds
\* no pair.
LEMMA EndsAreKept ==
  ASSUME EndsOK, NEW r \in Requests,
         objects' = objects, pairs' \subseteq pairs,
         \A q \in Requests : added'[q] \subseteq added[q],
         \A p \in pairs' : tags'[p[2]] # NoRow,
         \A q \in Requests : \A p \in added'[q] : Seen(q)'[p[2]] # NoRow
  PROVE  EndsOK'
  BY DEF EndsOK, PairsHaveEnds, AddedHaveEnds

LEMMA RequestEnds ==
  ASSUME IInv, NEW r \in Requests, Begin(r) \/ Work(r) \/ Fail(r)
  PROVE  EndsOK'
  <1>1. /\ TypeOK /\ EndsOK /\ IdsAreTaken /\ LocalOK(r)
        /\ pairs \in SUBSET (Objects \X TagIds)
        /\ \A q \in Requests : added[q] \in SUBSET (Objects \X TagIds)
    BY DEF IInv, EndsOK, TypeOK, LocalOK, Shape
  <1>2. Frame(r) /\ TypeOK'
    BY <1>1, RequestStep DEF Local
  <1>3. \A q \in Requests \ {r} : rows'[q] = rows[q] /\ added'[q] = added[q]
    BY <1>2 DEF Frame, Alone
  <1>4. CASE UNCHANGED <<tags, objects, pairs>> /\ added'[r] \subseteq added[r]
             /\ \A t \in TagIds : rows[r][t] # NoRow /\ added'[r] # {} => rows'[r][t] # NoRow
    <2>1. ASSUME NEW q \in Requests, NEW p \in added'[q]
          PROVE  Seen(q)'[p[2]] # NoRow
      <3>1. p \in added[q] /\ p[2] \in TagIds /\ Seen(q)[p[2]] # NoRow
        BY <1>1, <1>3, <1>4, <2>1 DEF EndsOK, AddedHaveEnds
      <3>2. rows[q][p[2]] # NoRow => rows'[q][p[2]] # NoRow
        BY <1>3, <1>4, <2>1, <3>1
      <3> QED
        BY <1>4, <3>1, <3>2 DEF Seen
    <2>2. \A p \in pairs' : tags'[p[2]] # NoRow
      BY <1>1, <1>4 DEF EndsOK, PairsHaveEnds
    <2>3. \A q \in Requests : added'[q] \subseteq added[q]
      BY <1>3, <1>4
    <2> QED
      BY <1>1, <1>4, <2>1, <2>2, <2>3, EndsAreKept
  <1>5. CASE AddPairs(r)
    <2> DEFINE new == PairsToAdd(r) \ pairs
    <2>1. CASE Refuse(r, 400)
      <3>1. added'[r] = {}
        BY <1>1, <2>1, RefuseIs DEF Statuses
      <3> QED
        BY <1>4, <1>5, <3>1 DEF AddPairs, tableVars
    <2>2. CASE ~ Refuse(r, 400)
      <3>1. /\ added' = [added EXCEPT ![r] = new] /\ rows' = rows /\ UNCHANGED tableVars
            /\ \A p \in new : p[1] \in objects /\ Seen(r)[p[2]] # NoRow
        BY <1>5, <2>2 DEF AddPairs
      <3>2. \A q \in Requests : Seen(q)' = Seen(q)
        BY <3>1 DEF Seen, tableVars
      <3>3. added'[r] = new
        BY <1>1, <3>1 DEF TypeOK
      <3> HIDE DEF new
      <3>4. AddedHaveEnds'
        BY <1>1, <1>3, <3>1, <3>2, <3>3 DEF AddedHaveEnds, EndsOK, tableVars
      <3> QED
        BY <1>1, <3>1, <3>4 DEF EndsOK, PairsHaveEnds, tableVars
    <2> QED
      BY <2>1, <2>2
  <1>6. CASE Commit(r)
    <2>1. /\ tags' = Seen(r) /\ pairs' \subseteq pairs \cup added[r] /\ objects' = objects
          /\ Refuse(r, 200)
      BY <1>6 DEF Commit
    <2>2. added'[r] = {}
      BY <1>1, <2>1, RefuseIs DEF Statuses
    <2>3. \A t \in TagIds : tags[t] # NoRow => tags'[t] # NoRow
      BY <2>1 DEF Seen
    <2>4. PairsHaveEnds'
      <3> SUFFICES ASSUME NEW p \in pairs' PROVE p[1] \in objects /\ tags'[p[2]] # NoRow
        BY <2>1 DEF PairsHaveEnds
      <3>1. CASE p \in pairs
        <4>1. p[2] \in TagIds
          BY <1>1, <3>1
        <4> QED
          BY <1>1, <2>3, <3>1, <4>1 DEF EndsOK, PairsHaveEnds
      <3>2. CASE p \in added[r]
        BY <1>1, <2>1, <3>2 DEF EndsOK, AddedHaveEnds
      <3> QED
        BY <2>1, <3>1, <3>2
    <2>5. AddedHaveEnds'
      <3> SUFFICES ASSUME NEW q \in Requests \ {r}, NEW p \in added[q]
                   PROVE  p[1] \in objects /\ Seen(q)'[p[2]] # NoRow
        BY <1>3, <2>1, <2>2 DEF AddedHaveEnds
      <3>1. p[2] \in TagIds /\ p[1] \in objects /\ Seen(q)[p[2]] # NoRow
        BY <1>1 DEF EndsOK, AddedHaveEnds
      <3> QED
        BY <1>3, <2>3, <3>1 DEF Seen
    <2> QED
      BY <2>4, <2>5 DEF EndsOK
  <1>7. CASE DeleteTags(r)
    <2> DEFINE gone == {t \in body[r].ids : tags[t] # NoRow}
    <2>1. /\ tags' = [t \in TagIds |-> IF t \in gone THEN NoRow ELSE tags[t]]
          /\ pairs' = {p \in pairs : p[2] \notin gone} /\ objects' = objects
          /\ Refuse(r, IF gone = {} THEN 404 ELSE 200)
      BY <1>7 DEF DeleteTags
    <2>2. added'[r] = {}
      <3>1. (IF gone = {} THEN 404 ELSE 200) \in Statuses
        BY DEF Statuses
      <3> QED
        BY <1>1, <2>1, <3>1, RefuseIs
    <2>3. \A q \in Requests \ {r}, t \in gone : t \notin TagsOf(HeldPairs(q)) /\ rows[q][t] = NoRow
      BY <1>7 DEF DeleteTags, Blocked, WaitsFor
    <2> HIDE DEF gone
    <2>4. \A p \in pairs' : tags'[p[2]] # NoRow
      BY <1>1, <2>1 DEF EndsOK, PairsHaveEnds
    <2>5. ASSUME NEW q \in Requests, NEW p \in added'[q]
          PROVE  Seen(q)'[p[2]] # NoRow
      <3>1. q # r /\ p \in added[q]
        BY <1>3, <2>2, <2>5
      <3>2. p[2] \in TagIds /\ Seen(q)[p[2]] # NoRow /\ p[2] \in TagsOf(HeldPairs(q))
        BY <1>1, <3>1 DEF EndsOK, AddedHaveEnds, HeldPairs, TagsOf
      <3>3. p[2] \notin gone
        BY <2>3, <3>1, <3>2
      <3> QED
        BY <1>3, <2>1, <3>1, <3>2, <3>3 DEF Seen
    <2>6. \A q \in Requests : added'[q] \subseteq added[q]
      BY <1>3, <2>2
    <2> QED
      BY <1>1, <2>1, <2>4, <2>5, <2>6, EndsAreKept
  <1>8. CASE UNCHANGED <<tags, objects, pairs>> /\ \E s \in Statuses : Refuse(r, s)
    <2>1. added'[r] = {}
      BY <1>1, <1>8, RefuseIs
    <2> QED
      BY <1>4, <1>8, <2>1
  <1>9. CASE UNCHANGED <<tags, objects, pairs, rows, added>>
    BY <1>4, <1>9
  <1>10. CASE UNCHANGED <<tags, objects, pairs, added>> /\ pc[r] \in {"insert", "lock", "names"}
    <2>1. added[r] = {}
      BY <1>1, <1>10 DEF LocalOK, Shape, WriteShape
    <2> QED
      BY <1>4, <1>10, <2>1
  <1>11. CASE Begin(r) \/ Fail(r) \/ AbortDeadlocked(r)
    <2>1. CASE Begin(r)
      BY <1>9, <2>1 DEF Begin, tableVars, writeVars
    <2>2. CASE Fail(r) \/ AbortDeadlocked(r)
      BY <1>8, <2>2 DEF Fail, AbortDeadlocked, tableVars, Statuses
    <2> QED
      BY <1>11, <2>1, <2>2
  <1>12. CASE ReadPage(r) \/ CountPage(r) \/ ViewTags(r) \/ SearchTags(r)
    <2>1. UNCHANGED <<tags, objects, pairs>>
      BY <1>12 DEF ReadPage, CountPage, ViewTags, SearchTags, tableVars
    <2>2. (\E s \in Statuses : Refuse(r, s)) \/ UNCHANGED writeVars
      BY <1>12 DEF ReadPage, CountPage, ViewTags, SearchTags, Statuses
    <2> QED
      BY <1>8, <1>9, <2>1, <2>2 DEF writeVars
  <1>13. CASE InsertTag(r) \/ LockTag(r) \/ InsertName(r)
    <2>1. UNCHANGED <<tags, objects, pairs>> /\ pc[r] \in {"insert", "lock", "names"}
      BY <1>13 DEF InsertTag, LockTag, InsertName, tableVars
    <2>2. (\E s \in Statuses : Refuse(r, s)) \/ UNCHANGED added
      BY <1>13 DEF InsertTag, LockTag, InsertName, Statuses
    <2> QED
      BY <1>8, <1>10, <2>1, <2>2
  <1>14. CASE RenameTag(r) \/ CheckAdded(r) \/ CheckRemoved(r)
    <2>1. UNCHANGED <<tags, objects, pairs>>
      BY <1>14 DEF RenameTag, CheckAdded, CheckRemoved, tableVars
    <2>2. (\E s \in Statuses : Refuse(r, s)) \/ UNCHANGED writeVars
      BY <1>14 DEF RenameTag, CheckAdded, CheckRemoved, Statuses
    <2> QED
      BY <1>8, <1>9, <2>1, <2>2 DEF writeVars
  <1>15. CASE LookUpNames(r) \/ RemovePairs(r)
    <2>1. UNCHANGED <<tags, objects, pairs>>
      BY <1>15 DEF LookUpNames, RemovePairs, tableVars
    <2>2. (\E s \in Statuses : Refuse(r, s)) \/ UNCHANGED <<rows, added>>
      BY <1>15 DEF LookUpNames, RemovePairs, Statuses, writeVars
    <2> QED
      BY <1>8, <1>9, <2>1, <2>2
  <1> QED
    BY <1>5, <1>6, <1>7, <1>11, <1>12, <1>13, <1>14, <1>15 DEF Work

\* /objects/delete takes no object that an inserted pair needs.
LEMMA DeleteObjectEnds ==
  ASSUME IInv, NEW o \in Objects, DeleteObject(o)
  PROVE  EndsOK'
  <1>1. /\ \A q \in Requests : o \notin ObjectsOf(HeldPairs(q))
        /\ objects' = objects \ {o} /\ pairs' = {p \in pairs : p[1] # o}
        /\ UNCHANGED <<tags, rows, added>>
    BY DEF DeleteObject, writeVars
  <1>2. PairsHaveEnds'
    BY <1>1 DEF IInv, PairsHaveEnds
  <1>3. \A q \in Requests : Seen(q)' = Seen(q)
    BY <1>1 DEF Seen
  <1>4. \A q \in Requests : \A p \in added[q] : p[1] # o
    BY <1>1 DEF ObjectsOf, HeldPairs
  <1>5. AddedHaveEnds'
    BY <1>1, <1>3, <1>4 DEF IInv, AddedHaveEnds
  <1> QED
    BY <1>2, <1>5 DEF EndsOK

-----------------------------------------------------------------------------
(* Every step preserves the invariant *)

LEMMA InitHolds == Init => IInv
  <1> SUFFICES ASSUME Init PROVE IInv
    OBVIOUS
  <1>1. PICK k \in 0 .. MaxTag : FirstTags \in [1 .. k -> TagRow]
    BY FirstTagsAreUnique
  <1>2. /\ DOMAIN FirstTags = 1 .. k /\ DOMAIN FirstTags \subseteq TagIds
        /\ k \in Nat /\ MaxTag \in Nat /\ \A t \in 1 .. k : FirstTags[t] \in TagRow
    BY <1>1, TagAssumption DEF TagIds
  <1>3. lastTag = k
    <2>1. PICK j \in 0 .. MaxTag : DOMAIN FirstTags = 1 .. j /\ lastTag = j
      BY DEF Init
    <2>2. 1 .. j = 1 .. k
      BY <1>2, <2>1
    <2>3. j \in Nat
      BY <2>1
    <2>4. j = k
      BY <1>2, <2>2, <2>3
    <2> QED
      BY <2>1, <2>4
  <1>4. \A t \in TagIds : tags[t] = IF t \in 1 .. k THEN FirstTags[t] ELSE NoRow
    BY <1>2 DEF Init
  <1>5. /\ \A r \in Requests : pc[r] = "new" /\ added[r] = {}
        /\ \A r \in Requests, t \in TagIds : rows[r][t] = NoRow
    BY DEF Init
  <1>6. TypeOK
    <2>1. tags \in [TagIds -> TagRow \cup {NoRow}]
      BY <1>2 DEF Init
    <2>2. pairs \in SUBSET (Objects \X TagIds) /\ objects \in SUBSET Objects
      BY <1>2, FirstTagsAreUnique DEF Init
    <2>3. lastTag \in 0 .. MaxTag
      BY <1>3
    <2>4. body \in [Requests -> Body]
      <3>1. NoBody \in Body
        BY DEF NoBody, Body, Routes, Issuers
      <3> QED
        BY <3>1 DEF Init
    <2>5. pc \in [Requests -> Step]
      BY DEF Init, Step
    <2>6. page \in [Requests -> [ids : SUBSET TagIds, total : Nat]]
      BY DEF Init
    <2>7. changed \in [Requests -> Changes]
      BY DEF Init, Changes, Nothing
    <2>8. /\ answer \in [Requests -> {0, 200, 400, 401, 403, 404, 500}]
          /\ toInsert \in [Requests -> SUBSET Names]
          /\ found \in [Requests -> [Names -> TagIds \cup {NoTag}]]
          /\ rows \in [Requests -> [TagIds -> TagRow \cup {NoRow}]]
          /\ added \in [Requests -> SUBSET (Objects \X TagIds)]
          /\ removed \in [Requests -> SUBSET (Objects \X TagIds)]
          /\ feasible \in [Requests -> BOOLEAN]
      BY DEF Init
    <2> QED
      BY <2>1, <2>2, <2>3, <2>4, <2>5, <2>6, <2>7, <2>8 DEF TypeOK
  <1>7. \A r \in Requests : RouteShape(r) /\ WriteShape(r) /\ FoundShape(r)
    BY <1>5 DEF RouteShape, WriteShape, FoundShape, Writing
  <1>8. IdsAreTaken
    BY <1>2, <1>3, <1>4, <1>5, TagAssumption DEF IdsAreTaken
  <1>9. NamesAreUnique
    <2>1. \A s, t \in 1 .. k : Lower[FirstTags[s].name] = Lower[FirstTags[t].name] => s = t
      BY <1>2, FirstTagsAreUnique
    <2> QED
      BY <1>4, <2>1 DEF NamesAreUnique
  <1>10. NamesAreLocked
    <2>1. \A r \in Requests, t \in TagIds : Seen(r)[t] = tags[t]
      BY <1>5 DEF Seen
    <2>2. \A r \in Requests : SeenAreUnique(r)
      BY <1>9, <2>1 DEF SeenAreUnique, NamesAreUnique
    <2>3. \A r \in Requests : HeldNames(r) = {}
      BY <1>5, HeldNamesAre
    <2> QED
      BY <2>2, <2>3 DEF NamesAreLocked
  <1>11. PairsHaveEnds /\ AddedHaveEnds
    <2>1. AddedHaveEnds
      BY <1>5 DEF AddedHaveEnds
    <2>2. pairs = FirstPairs /\ objects = Objects /\ FirstPairs \subseteq Objects \X (1 .. k)
      BY <1>2, FirstTagsAreUnique DEF Init
    <2>3. \A t \in 1 .. k : tags[t] # NoRow
      BY <1>2, <1>4, TagAssumption
    <2> QED
      BY <2>1, <2>2, <2>3 DEF PairsHaveEnds
  <1> QED
    BY <1>6, <1>7, <1>8, <1>9, <1>10, <1>11 DEF IInv

LEMMA SameNames ==
  ASSUME NamesOK, UNCHANGED <<tags, lastTag, pc, rows>>
  PROVE  NamesOK'
  <1>1. \A q \in Requests : Seen(q)' = Seen(q)
    BY DEF Seen
  <1>2. \A q \in Requests : HeldNames(q)' = HeldNames(q)
    BY DEF HeldNames
  <1>3. NamesAreLocked'
    BY <1>1, <1>2 DEF NamesOK, NamesAreLocked, SeenAreUnique
  <1> QED
    BY <1>3 DEF NamesOK, IdsAreTaken, NamesAreUnique

LEMMA StepHolds == IInv /\ [Next]_vars => IInv'
  <1> SUFFICES ASSUME IInv, [Next]_vars PROVE IInv'
    OBVIOUS
  <1>1. ASSUME NEW r \in Requests, Begin(r) \/ Work(r) \/ Fail(r)
        PROVE  IInv'
    <2>1. LocalOK(r) /\ NamesOK /\ TypeOK /\ \A q \in Requests : Shape(q)
      BY DEF IInv, LocalOK, NamesOK, Shape
    <2>2. Local(r)
      BY <1>1, <2>1, RequestStep
    <2>3. NamesOK'
      BY <2>1, <2>2, EffectNames DEF Local
    <2>4. \A q \in Requests : Shape(q)'
      BY <2>1, <2>2, OthersKeepShape DEF Local
    <2>5. EndsOK'
      BY <1>1, RequestEnds
    <2> QED
      BY <2>2, <2>3, <2>4, <2>5 DEF IInv, Local, NamesOK, EndsOK, Shape
  <1>2. ASSUME NEW o \in Objects, DeleteObject(o)
        PROVE  IInv'
    <2>1. /\ UNCHANGED <<tags, lastTag, pc, body, answer, localVars, writeVars, feasible>>
          /\ objects' = objects \ {o} /\ pairs' = {p \in pairs : p[1] # o}
          /\ Notice(Requests, {}, {o}, {p \in pairs : p[1] = o})
      BY <1>2 DEF DeleteObject
    <2>2. changed' \in [Requests -> Changes]
      <3> DEFINE ps == {p \in pairs : p[1] = o}
      <3>1. ps \in SUBSET (Objects \X TagIds) /\ TypeOK /\ Notice(Requests, {}, {o}, ps)
        BY <2>1 DEF IInv, TypeOK
      <3> HIDE DEF ps
      <3> QED
        BY <3>1, NoticeTypes
    <2>3. TypeOK'
      BY <2>1, <2>2 DEF IInv, TypeOK, localVars, writeVars
    <2>4. \A q \in Requests : RouteShape(q)' /\ WriteShape(q)' /\ FoundShape(q)'
      BY <2>1 DEF IInv, RouteShape, WriteShape, FoundShape, localVars, writeVars
    <2>5. NamesOK'
      BY <2>1, SameNames DEF IInv, NamesOK, writeVars
    <2>6. EndsOK'
      BY <1>2, DeleteObjectEnds
    <2> QED
      BY <2>3, <2>4, <2>5, <2>6 DEF IInv, NamesOK, EndsOK
  <1>3. CASE UNCHANGED vars
    <2>1. /\ UNCHANGED <<tags, objects, pairs, lastTag, pc, body, answer, toInsert, found, page>>
          /\ UNCHANGED <<rows, added, removed, feasible, changed>>
      BY <1>3 DEF vars, tableVars, localVars, writeVars
    <2>2. TypeOK'
      BY <2>1 DEF IInv, TypeOK
    <2>3. \A q \in Requests : RouteShape(q)' /\ WriteShape(q)' /\ FoundShape(q)'
      BY <2>1 DEF IInv, RouteShape, WriteShape, FoundShape
    <2>4. NamesOK'
      BY <2>1, SameNames DEF IInv, NamesOK
    <2>5. PairsHaveEnds' /\ AddedHaveEnds'
      <3>1. \A q \in Requests : Seen(q)' = Seen(q)
        BY <2>1 DEF Seen
      <3> QED
        BY <2>1, <3>1 DEF IInv, PairsHaveEnds, AddedHaveEnds
    <2> QED
      BY <2>2, <2>3, <2>4, <2>5 DEF IInv, NamesOK
  <1> QED
    BY <1>1, <1>2, <1>3 DEF Next

-----------------------------------------------------------------------------
(* Why a request is refused: what it has found stays as it found it, unless another    *)
(* request changed it, and then `changed` says so.                                      *)

Tagging == {"check_added", "add", "check_removed", "remove", "commit"}
ByName(r) == body[r].route = "update_tags"

Unanswered(r) == pc[r] # "done" => answer[r] = 0
AdminsOnly(r) == Open(r) /\ body[r].route \in ModifyingRoutes => body[r].issuer = "admin"
StillFeasible(r) == Open(r) /\ feasible[r] /\ changed[r] = Nothing => Feasible(body[r])

\* The row an update has locked is the one its body names, with the name it gives.
OneRow(r) ==
    pc[r] = "unique" => \A t \in TagIds : rows[r][t] # NoRow => t \in body[r].ids /\ rows[r][t].name = TheName(r)

\* A name still to be inserted is nobody's, as far as the request can know.
StillNew(r) ==
    pc[r] = "names" => \A n \in toInsert[r] :
        /\ Named(tags, n) = {} \/ changed[r].tags # {}
        /\ \A t \in TagIds : rows[r][t] # NoRow => Lower[rows[r][t].name] # Lower[n]
        /\ \A m \in toInsert[r] : Lower[m] = Lower[n] => m = n

\* What was found for a name has that name.
FoundAreNamed(r) ==
    pc[r] \in Tagging \cup {"names"} /\ ByName(r) =>
        \A n \in body[r].names : \A t \in TagIds \ changed[r].tags :
            found[r][Lower[n]] = t => Seen(r)[t] # NoRow /\ Lower[Seen(r)[t].name] = Lower[n]

\* What a non-admin adds has been checked.
TagsAreChecked(r) ==
    pc[r] \in Tagging \ {"check_added"} /\ ByName(r) /\ body[r].issuer # "admin" =>
        \A t \in TagsOf(PairsToAdd(r)) \cap (TagIds \ changed[r].tags) :
            Seen(r)[t] # NoRow => Seen(r)[t].published

\* Every pair asked for is there, or will be.
PairsAreAdded(r) ==
    pc[r] \in Tagging /\ ByName(r) =>
        /\ added[r] \subseteq PairsToAdd(r)
        /\ pc[r] \in {"check_removed", "remove", "commit"} =>
              \A p \in PairsToAdd(r) : p \in added[r] \cup pairs \cup changed[r].pairs
        /\ pc[r] = "commit" => removed[r] \subseteq PairsToRemove(r)

PageIsCounted(r) ==
    pc[r] = "count" =>
        body[r].first + Cardinality(page[r].ids) <= Cardinality(Matching(body[r])) \/ changed[r].tags # {}

RefusalHasCause(r) == answer[r] \in {400, 404} /\ feasible[r] => changed[r] # Nothing
PageAddsUp(r) ==
    body[r].route = "page" /\ answer[r] = 200 =>
        body[r].first + Cardinality(page[r].ids) <= page[r].total \/ changed[r].tags # {}

Progress(r) ==
    /\ OneRow(r) /\ StillNew(r) /\ FoundAreNamed(r) /\ TagsAreChecked(r)
    /\ PairsAreAdded(r) /\ PageIsCounted(r)
Causes(r) ==
    /\ Unanswered(r) /\ AdminsOnly(r) /\ StillFeasible(r) /\ Progress(r)
    /\ RefusalHasCause(r) /\ PageAddsUp(r)

HInv == \A r \in Requests : Causes(r)

-----------------------------------------------------------------------------
(* A request that another one's step leaves alone *)

Same(q) ==
    /\ pc'[q] = pc[q] /\ body'[q] = body[q] /\ answer'[q] = answer[q] /\ toInsert'[q] = toInsert[q]
    /\ found'[q] = found[q] /\ page'[q] = page[q] /\ rows'[q] = rows[q] /\ added'[q] = added[q]
    /\ removed'[q] = removed[q] /\ feasible'[q] = feasible[q]

\* What changes is noticed.
Notices(q) ==
    IF Open(q)
    THEN /\ changed[q].tags \subseteq changed'[q].tags
         /\ changed[q].objects \subseteq changed'[q].objects
         /\ changed[q].pairs \subseteq changed'[q].pairs
         /\ \A t \in TagIds : tags'[t] # tags[t] => t \in changed'[q].tags
         /\ objects' # objects => changed'[q].objects # {}
         /\ pairs \ pairs' \subseteq changed'[q].pairs
    ELSE changed'[q] = changed[q]

\* Types of the history of a request.
LEMMA ChangesAre ==
  ASSUME TypeOK, NEW q \in Requests
  PROVE  /\ changed[q] = [tags |-> changed[q].tags, objects |-> changed[q].objects, pairs |-> changed[q].pairs]
         /\ changed[q] = Nothing <=> changed[q].tags = {} /\ changed[q].objects = {} /\ changed[q].pairs = {}
         /\ changed[q].tags \subseteq TagIds
  <1>1. changed[q] \in Changes
    BY DEF TypeOK
  <1> QED
    BY <1>1 DEF Changes, Nothing

\* With the same tags, the same tags have a name, and match.
LEMMA SameTags ==
  ASSUME tags' = tags
  PROVE  /\ \A n : Named(tags, n)' = Named(tags, n)
         /\ \A i : VisibleTags(i)' = VisibleTags(i)
         /\ \A b : Matching(b)' = Matching(b)
  BY DEF Named, VisibleTags, Matching

\* And the same number of them.
LEMMA SameMatching ==
  ASSUME tags' = tags, NEW q \in Requests, body'[q] = body[q]
  PROVE  Cardinality(Matching(body[q]))' = Cardinality(Matching(body[q]))
  <1>1. Matching(body[q])' = Matching(body[q])
    BY DEF Matching, VisibleTags
  <1> QED
    BY <1>1

\* Nothing it relies on changes behind its back.
LEMMA BystanderCauses ==
  ASSUME TypeOK, TypeOK', NEW q \in Requests, Causes(q), Same(q), Notices(q)
  PROVE  Causes(q)'
  <1>1. CASE ~ Open(q)
    <2>1. changed'[q] = changed[q] /\ ~ (Open(q))' /\ pc'[q] = pc[q] /\ pc[q] \in {"new", "done"}
      BY <1>1 DEF Notices, Open, Same
    <2>2. Progress(q)'
      BY <2>1 DEF Progress, OneRow, StillNew, FoundAreNamed, TagsAreChecked, PairsAreAdded, PageIsCounted, Tagging
    <2>3. Unanswered(q)' /\ AdminsOnly(q)' /\ StillFeasible(q)'
      BY <2>1 DEF Causes, Same, Unanswered, AdminsOnly, StillFeasible
    <2>4. RefusalHasCause(q)' /\ PageAddsUp(q)'
      BY <2>1 DEF Causes, Same, RefusalHasCause, PageAddsUp
    <2> QED
      BY <2>2, <2>3, <2>4 DEF Causes
  <1>2. CASE Open(q)
    <2>1. /\ changed[q].tags \subseteq changed'[q].tags
          /\ changed[q].objects \subseteq changed'[q].objects
          /\ changed[q].pairs \subseteq changed'[q].pairs
          /\ \A t \in TagIds : tags'[t] # tags[t] => t \in changed'[q].tags
          /\ objects' # objects => changed'[q].objects # {}
          /\ pairs \ pairs' \subseteq changed'[q].pairs
      BY <1>2 DEF Notices
    <2>2. changed'[q].tags = {} => tags' = tags /\ changed[q].tags = {}
      BY <2>1 DEF TypeOK
    <2>3. \A t \in TagIds : t \notin changed'[q].tags => Seen(q)'[t] = Seen(q)[t] /\ t \notin changed[q].tags
      BY <2>1 DEF Seen, Same
    <2>4. Unanswered(q)' /\ AdminsOnly(q)'
      BY <1>2 DEF Causes, Same, Unanswered, AdminsOnly, Open
    <2>5. StillFeasible(q)'
      <3> SUFFICES ASSUME feasible'[q], changed'[q] = Nothing
                   PROVE  Feasible(body[q])'
        BY DEF StillFeasible
      <3>1. changed'[q].tags = {} /\ changed'[q].objects = {} /\ changed'[q].pairs = {}
        BY DEF Nothing
      <3>2. changed[q] = Nothing
        BY <2>1, <3>1, ChangesAre
      <3>3. tags' = tags /\ objects' = objects
        BY <2>1, <2>2, <3>1
      <3>4. Feasible(body[q])
        BY <1>2, <3>2 DEF Causes, Same, StillFeasible
      <3> QED
        BY <3>3, <3>4, SameTags DEF Same, Feasible
    <2>6. OneRow(q)'
      <3>1. TheName(q)' = TheName(q)
        BY DEF Same, TheName
      <3> QED
        BY <3>1 DEF Causes, Progress, Same, OneRow
    <2>7. StillNew(q)'
      <3>1. \A n : Named(tags, n)' = Named(tags, n) \/ changed'[q].tags # {}
        BY <2>2, SameTags
      <3> QED
        BY <2>2, <3>1 DEF Causes, Progress, Same, StillNew
    <2>8. FoundAreNamed(q)'
      BY <2>3 DEF Causes, Progress, Same, FoundAreNamed, ByName
    <2>9. ByName(q) => PairsToAdd(q)' = PairsToAdd(q) /\ PairsToRemove(q)' = PairsToRemove(q)
      BY DEF Same, PairsToAdd, PairsToRemove, ByName
    <2>10. TagsAreChecked(q)'
      <3> SUFFICES ASSUME pc'[q] \in Tagging \ {"check_added"}, ByName(q)', body'[q].issuer # "admin",
                          NEW t \in TagsOf(PairsToAdd(q))', t \in TagIds \ changed'[q].tags,
                          Seen(q)'[t] # NoRow
                   PROVE  Seen(q)'[t].published
        BY DEF TagsAreChecked
      <3>1. ByName(q) /\ t \in TagsOf(PairsToAdd(q))
        BY <2>9 DEF ByName, Same, TagsOf
      <3> QED
        BY <2>3, <3>1 DEF Causes, Progress, TagsAreChecked, Same
    <2>11. PairsAreAdded(q)'
      <3> SUFFICES ASSUME pc'[q] \in Tagging, ByName(q)'
                   PROVE  PairsAreAdded(q)'
        BY DEF PairsAreAdded
      <3>1. ByName(q)
        BY DEF ByName, Same
      <3> QED
        BY <2>1, <2>9, <3>1 DEF Causes, Progress, Same, PairsAreAdded
    <2>12. PageIsCounted(q)'
      <3> SUFFICES ASSUME pc'[q] = "count", changed'[q].tags = {}
                   PROVE  body'[q].first + Cardinality(page'[q].ids) <= Cardinality(Matching(body[q]))'
        BY DEF PageIsCounted
      <3> QED
        BY <2>2, SameMatching DEF Causes, Progress, Same, PageIsCounted
    <2>13. RefusalHasCause(q)' /\ PageAddsUp(q)'
      <3>1. answer'[q] = 0
        BY <1>2 DEF Causes, Same, Unanswered, Open
      <3> QED
        BY <3>1 DEF RefusalHasCause, PageAddsUp
    <2> QED
      BY <2>4, <2>5, <2>6, <2>7, <2>8, <2>10, <2>11, <2>12, <2>13 DEF Causes, Progress
  <1> QED
    BY <1>1, <1>2

\* The request itself, when it ends or goes on without a change to a table.
LEMMA RefuseSame ==
  ASSUME TypeOK, NEW r \in Requests, NEW s, Refuse(r, s),
         UNCHANGED <<body, toInsert, found, feasible>>,
         \A q \in Requests \ {r} : page'[q] = page[q]
  PROVE  /\ \A q \in Requests \ {r} : Same(q)
         /\ pc'[r] = "done" /\ answer'[r] = s
  BY DEF TypeOK, Refuse, Goto, Same

LEMMA QuietNotices ==
  ASSUME UNCHANGED <<tags, objects, pairs, changed>>, NEW q
  PROVE  Notices(q)
  BY DEF Notices

LEMMA EndsWithCause ==
  ASSUME NEW r \in Requests, pc'[r] = "done", UNCHANGED <<body, feasible>>, changed'[r] = changed[r],
         answer'[r] \in {400, 404} /\ feasible[r] => changed[r] # Nothing,
         body[r].route = "page" /\ answer'[r] = 200 =>
             body[r].first + Cardinality(page'[r].ids) <= page'[r].total \/ changed[r].tags # {}
  PROVE  Causes(r)'
  <1>1. Progress(r)'
    BY DEF Progress, OneRow, StillNew, FoundAreNamed, TagsAreChecked, PairsAreAdded, PageIsCounted, Tagging
  <1>2. Unanswered(r)' /\ AdminsOnly(r)' /\ StillFeasible(r)'
    BY DEF Unanswered, AdminsOnly, StillFeasible, Open
  <1>3. RefusalHasCause(r)' /\ PageAddsUp(r)'
    BY DEF RefusalHasCause, PageAddsUp
  <1> QED
    BY <1>1, <1>2, <1>3 DEF Causes

LEMMA RefusedCause ==
  ASSUME TypeOK, TypeOK', HInv, NEW r \in Requests, NEW s, Refuse(r, s),
         UNCHANGED <<tags, objects, pairs, body, toInsert, found, feasible, changed>>,
         \A q \in Requests \ {r} : page'[q] = page[q],
         s \in {400, 404} /\ feasible[r] => changed[r] # Nothing,
         body[r].route = "page" /\ s = 200 =>
             body[r].first + Cardinality(page'[r].ids) <= page'[r].total \/ changed[r].tags # {}
  PROVE  HInv'
  <1>1. (\A q \in Requests \ {r} : Same(q)) /\ pc'[r] = "done" /\ answer'[r] = s
    BY RefuseSame
  <1>2. Causes(r)'
    BY <1>1, EndsWithCause
  <1>3. ASSUME NEW q \in Requests \ {r} PROVE Causes(q)'
    BY <1>1, QuietNotices, BystanderCauses DEF HInv
  <1> QED
    BY <1>2, <1>3 DEF HInv

LEMMA GoesCause ==
  ASSUME TypeOK, TypeOK', HInv, NEW r \in Requests, NEW to, Goto(r, to), to # "done", Open(r), to # "new",
         UNCHANGED <<tags, objects, pairs, body, answer, feasible, changed>>,
         \A q \in Requests \ {r} :
             /\ toInsert'[q] = toInsert[q] /\ found'[q] = found[q] /\ page'[q] = page[q]
             /\ rows'[q] = rows[q] /\ added'[q] = added[q] /\ removed'[q] = removed[q],
         Progress(r)'
  PROVE  HInv'
  <1>1. pc'[r] = to /\ \A q \in Requests \ {r} : Same(q)
    BY DEF TypeOK, Goto, Same
  <1>2. ASSUME NEW q \in Requests \ {r} PROVE Causes(q)'
    BY <1>1, QuietNotices, BystanderCauses DEF HInv
  <1>3. Causes(r)'
    <2>1. Causes(r) /\ pc[r] # "done"
      BY DEF HInv, Open
    <2>2. answer'[r] = 0 /\ Unanswered(r)' /\ AdminsOnly(r)'
      BY <2>1 DEF Causes, Unanswered, AdminsOnly
    <2>3. StillFeasible(r)'
      <3>1. feasible[r] /\ changed[r] = Nothing => Feasible(body[r])
        BY <2>1 DEF Causes, StillFeasible
      <3>2. Feasible(body[r])' = Feasible(body[r])
        BY SameTags DEF Feasible
      <3> QED
        BY <3>1, <3>2 DEF StillFeasible
    <2>4. RefusalHasCause(r)' /\ PageAddsUp(r)'
      BY <2>2 DEF RefusalHasCause, PageAddsUp
    <2> QED
      BY <2>2, <2>3, <2>4 DEF Causes
  <1> QED
    BY <1>2, <1>3 DEF HInv

\* Progress, step by step: what only the step at hand has to show.
LEMMA ProgressAt ==
  ASSUME NEW r \in Requests, TypeOK'
  PROVE  /\ pc'[r] \notin Tagging \cup {"unique", "names", "count"} => Progress(r)'
         /\ pc'[r] = "unique" /\ OneRow(r)' => Progress(r)'
         /\ pc'[r] = "count" /\ PageIsCounted(r)' => Progress(r)'
         /\ pc'[r] = "names" /\ StillNew(r)' /\ FoundAreNamed(r)' => Progress(r)'
         /\ pc'[r] \in Tagging /\ ByName(r)' /\ FoundAreNamed(r)' /\ TagsAreChecked(r)' /\ PairsAreAdded(r)'
               => Progress(r)'
         /\ pc'[r] \in Tagging /\ ~ ByName(r)' => Progress(r)'
  BY DEF Progress, OneRow, StillNew, FoundAreNamed, TagsAreChecked, PairsAreAdded, PageIsCounted, Tagging

-----------------------------------------------------------------------------
(* The actions, and why they refuse *)

\* What is known before a step, and the types after it.
Known == IInv /\ HInv /\ TypeOK'

\* What Known says of one request.
LEMMA KnownOf ==
  ASSUME Known, NEW r \in Requests
  PROVE  /\ TypeOK /\ TypeOK' /\ HInv /\ Shape(r) /\ Causes(r) /\ LocalOK(r)
         /\ body[r].route \in Routes
         /\ pc[r] # "new" => body[r] \in Bodies /\ (pc[r] = "done" \/ pc[r] \in StepsOf(body[r].route))
         /\ Open(r) /\ feasible[r] /\ changed[r] = Nothing => Feasible(body[r])
  <1>1. /\ TypeOK /\ TypeOK' /\ HInv /\ Shape(r) /\ Causes(r) /\ LocalOK(r)
    BY DEF Known, IInv, HInv, Shape, LocalOK
  <1> QED
    BY <1>1, BodyTypes DEF Shape, RouteShape, Causes, StillFeasible

\* An action that refuses for a state that a request which can be carried out never meets.
LEMMA BeginCause ==
  ASSUME Known, NEW r \in Requests, Begin(r)
  PROVE  HInv'
  <1>1. PICK b \in Bodies :
          /\ body' = [body EXCEPT ![r] = b]
          /\ feasible' = [feasible EXCEPT ![r] = Feasible(b)]
          /\ IF b.route \in ModifyingRoutes /\ b.issuer # "admin"
             THEN /\ Goto(r, "done")
                  /\ answer' = [answer EXCEPT ![r] = IF b.issuer = "anonymous" THEN 401 ELSE 403]
             ELSE Goto(r, FirstStep(b)) /\ UNCHANGED answer
    BY DEF Begin
  <1>2. /\ b \in Body /\ TypeOK /\ TypeOK' /\ pc[r] = "new" /\ answer[r] = 0
        /\ UNCHANGED <<tags, objects, pairs, toInsert, found, page, rows, added, removed, changed>>
    BY KnownOf, TagAssumption DEF Begin, Causes, Unanswered, tableVars, localVars, writeVars
  <1>3. body'[r] = b /\ feasible'[r] = Feasible(b)
    BY <1>1, <1>2 DEF TypeOK
  <1>4. ASSUME NEW q \in Requests \ {r} PROVE Causes(q)'
    <2>1. Same(q)
      <3>1. pc'[q] = pc[q] /\ answer'[q] = answer[q]
        BY <1>1, <1>2 DEF TypeOK, Goto
      <3> QED
        BY <1>1, <1>2, <3>1 DEF TypeOK, Same
    <2> QED
      BY <1>2, <2>1, QuietNotices, BystanderCauses, KnownOf
  <1>5. CASE b.route \in ModifyingRoutes /\ b.issuer # "admin"
    <2>1. pc'[r] = "done" /\ answer'[r] \in {401, 403}
      BY <1>1, <1>2, <1>5 DEF TypeOK, Goto
    <2>2. Progress(r)'
      BY <1>2, <2>1, ProgressAt DEF Tagging
    <2>3. Causes(r)'
      BY <2>1, <2>2 DEF Causes, Unanswered, AdminsOnly, StillFeasible, Open, RefusalHasCause, PageAddsUp
    <2> QED
      BY <1>4, <2>3 DEF HInv
  <1>6. CASE ~ (b.route \in ModifyingRoutes /\ b.issuer # "admin")
    <2>1. pc'[r] = FirstStep(b) /\ answer'[r] = 0
      BY <1>1, <1>2, <1>6 DEF TypeOK, Goto
    <2>2. FirstStep(b) \notin Tagging \cup {"unique", "names", "count"}
      BY <1>2 DEF FirstStep, Tagging, Body, Routes
    <2>3. Progress(r)'
      BY <1>2, <2>1, <2>2, ProgressAt
    <2>4. Unanswered(r)' /\ AdminsOnly(r)'
      BY <1>3, <1>6, <2>1 DEF Unanswered, AdminsOnly
    <2>5. StillFeasible(r)'
      <3>1. Feasible(b)' = Feasible(b)
        BY <1>2, SameTags DEF Feasible
      <3> QED
        BY <1>2, <1>3, SameTags DEF StillFeasible, Feasible
    <2>6. RefusalHasCause(r)' /\ PageAddsUp(r)'
      BY <2>1 DEF RefusalHasCause, PageAddsUp
    <2>7. Causes(r)'
      BY <2>3, <2>4, <2>5, <2>6 DEF Causes
    <2> QED
      BY <1>4, <2>7 DEF HInv
  <1> QED
    BY <1>5, <1>6

LEMMA FailCause ==
  ASSUME Known, NEW r \in Requests, Fail(r) \/ AbortDeadlocked(r)
  PROVE  HInv'
  <1>1. Refuse(r, 500) /\ UNCHANGED <<tags, objects, pairs, body, toInsert, found, page, feasible, changed>>
    BY DEF Fail, AbortDeadlocked, tableVars, localVars
  <1> QED
    BY <1>1, KnownOf, RefusedCause

\* The steps of a request about one tag: refused if the name is taken, or the tag gone.
LEMMA InsertTagCause ==
  ASSUME Known, NEW r \in Requests, InsertTag(r)
  PROVE  HInv'
  <1>1. /\ TypeOK /\ Shape(r) /\ pc[r] = "insert" /\ Open(r)
        /\ UNCHANGED <<tags, objects, pairs, body, toInsert, found, page, feasible, changed>>
    BY KnownOf DEF InsertTag, Open, localVars
  <1>2. body[r].route = "tags_add"
    BY <1>1, KnownOf DEF StepsOf, Routes
  <1>3. CASE Refuse(r, 400) /\ Named(tags, TheName(r)) # {}
    <2>1. body[r].names = {TheName(r)}
      BY <1>1, <1>2, TheNameIs DEF Shape
    <2>2. ~ Feasible(body[r])
      BY <1>2, <1>3, <2>1 DEF Feasible
    <2>3. feasible[r] => changed[r] # Nothing
      BY <1>1, <2>2, KnownOf
    <2> QED
      BY <1>1, <1>3, <2>3, KnownOf, RefusedCause
  <1>4. CASE Goto(r, "add") /\ UNCHANGED <<answer, added, removed>>
             /\ rows' = [rows EXCEPT ![r][lastTag + 1] = [name |-> TheName(r), published |-> body[r].published]]
    <2>1. \A q \in Requests \ {r} : rows'[q] = rows[q]
      BY <1>1, <1>4 DEF TypeOK
    <2>2. pc'[r] = "add" /\ ~ ByName(r)'
      BY <1>1, <1>2, <1>4 DEF TypeOK, Goto, ByName
    <2>3. Progress(r)'
      BY <2>2, KnownOf, ProgressAt DEF Tagging
    <2> QED
      BY <1>1, <1>4, <2>1, <2>3, KnownOf, GoesCause
  <1> QED
    BY <1>3, <1>4 DEF InsertTag

LEMMA LockTagCause ==
  ASSUME Known, NEW r \in Requests, LockTag(r)
  PROVE  HInv'
  <1>1. /\ TypeOK /\ Shape(r) /\ pc[r] = "lock" /\ Open(r)
        /\ UNCHANGED <<tags, objects, pairs, body, toInsert, found, page, feasible, changed>>
    BY KnownOf DEF LockTag, Open, localVars, tableVars
  <1>2. body[r].route = "tags_update"
    BY <1>1, KnownOf DEF StepsOf, Routes
  <1> DEFINE w == [name |-> TheName(r), published |-> body[r].published]
  <1>3. PICK t \in body[r].ids :
          IF tags[t] = NoRow THEN Refuse(r, 404)
          ELSE rows' = [rows EXCEPT ![r][t] = w] /\ Goto(r, "unique") /\ UNCHANGED <<answer, added, removed>>
    BY DEF LockTag
  <1>4. CASE tags[t] = NoRow
    <2>1. ~ Feasible(body[r])
      BY <1>2, <1>4 DEF Feasible
    <2>2. feasible[r] => changed[r] # Nothing
      BY <1>1, <2>1, KnownOf
    <2> QED
      BY <1>1, <1>3, <1>4, <2>2, KnownOf, RefusedCause
  <1>5. CASE tags[t] # NoRow
    <2>1. \A q \in Requests \ {r} : rows'[q] = rows[q]
      BY <1>1, <1>3, <1>5 DEF TypeOK
    <2>2. pc'[r] = "unique" /\ TheName(r)' = TheName(r)
      BY <1>1, <1>3, <1>5 DEF TypeOK, Goto, TheName
    <2>3. \A u \in TagIds : rows[r][u] = NoRow
      BY <1>1 DEF Shape, WriteShape, Writing
    <2>4. t \in TagIds /\ \A u \in TagIds : rows'[r][u] = IF u = t THEN w ELSE NoRow
      BY <1>1, <1>3, <1>5, <2>3, BodyTypes DEF TypeOK
    <2>5. OneRow(r)'
      BY <1>1, <2>2, <2>4 DEF OneRow
    <2>6. Progress(r)'
      BY <2>2, <2>5, KnownOf, ProgressAt
    <2> QED
      BY <1>1, <1>3, <1>5, <2>1, <2>6, KnownOf, GoesCause
  <1> QED
    BY <1>4, <1>5

LEMMA RenameTagCause ==
  ASSUME Known, NEW r \in Requests, RenameTag(r)
  PROVE  HInv'
  <1>1. /\ TypeOK /\ Shape(r) /\ pc[r] = "unique" /\ Open(r)
        /\ UNCHANGED <<tags, objects, pairs, body, toInsert, found, page, feasible, changed>>
    BY KnownOf DEF RenameTag, Open, localVars, tableVars
  <1>2. body[r].route = "tags_update"
    BY <1>1, KnownOf DEF StepsOf, Routes
  <1>3. CASE Refuse(r, 400) /\ Named(Seen(r), TheName(r)) # {TheTag(r)}
    <2> DEFINE t == TheTag(r)
               n == TheName(r)
    <2>1. body[r].names = {n} /\ n \in Names
      BY <1>1, <1>2, TheNameIs DEF Shape
    <2>2. t \in TagIds /\ \A u \in TagIds : rows[r][u] # NoRow <=> u = t
      BY <1>1, <1>2, TheTagIs DEF Shape, Writing
    <2>3. t \in body[r].ids /\ rows[r][t].name = n
      BY <1>1, <2>2, KnownOf DEF Causes, Progress, OneRow
    <2>4. body[r].ids = {t}
      <3>1. \E u \in TagIds : body[r].ids = {u}
        BY <1>1, <1>2, KnownOf, TagAssumption
      <3> QED
        BY <2>3, <3>1
    <2>5. \A u \in TagIds : Seen(r)[u] = IF u = t THEN rows[r][u] ELSE tags[u]
      BY <2>2 DEF Seen
    <2> HIDE DEF t, n
    <2>6. Feasible(body[r]) => Named(tags, n) \subseteq {t}
      BY <1>2, <2>1, <2>4 DEF Feasible
    <2>7. Named(tags, n) \subseteq {t} => Named(Seen(r), n) = {t}
      BY <2>2, <2>3, <2>5 DEF Named
    <2>8. feasible[r] => changed[r] # Nothing
      BY <1>1, <1>3, <2>6, <2>7, KnownOf DEF t, n
    <2> QED
      BY <1>1, <1>3, <2>8, KnownOf, RefusedCause
  <1>4. CASE Goto(r, "add") /\ UNCHANGED <<answer, writeVars>>
    <2>1. pc'[r] = "add" /\ ~ ByName(r)'
      BY <1>1, <1>2, <1>4 DEF TypeOK, Goto, ByName
    <2>2. Progress(r)'
      BY <2>1, KnownOf, ProgressAt DEF Tagging
    <2> QED
      BY <1>1, <1>4, <2>2, KnownOf, GoesCause DEF writeVars
  <1> QED
    BY <1>3, <1>4 DEF RenameTag

\* /objects/update_tags: the names it does not find are still to be inserted, the others
\* are found as they are.
LEMMA LookUpNamesCause ==
  ASSUME Known, NEW r \in Requests, LookUpNames(r)
  PROVE  HInv'
  <1> DEFINE names == body[r].names
             known(n) == {t \in TagIds : \E m \in names : Lower[m] = n /\ t \in Named(tags, m)}
             map == [n \in Names |-> IF known(n) = {} THEN NoTag ELSE CHOOSE t \in known(n) : TRUE]
  <1>1. /\ TypeOK /\ TypeOK' /\ Shape(r) /\ pc[r] = "lookup" /\ Open(r) /\ names \in SUBSET Names
        /\ UNCHANGED <<tags, objects, pairs, body, feasible, changed>>
    BY KnownOf, BodyTypes DEF LookUpNames, Open, tableVars
  <1>2. CASE (names # {} /\ body[r].issuer # "admin") \/ body[r].issuer = "anonymous"
    <2>1. PICK s \in {401, 403} : Refuse(r, s)
      BY <1>2 DEF LookUpNames
    <2>2. UNCHANGED localVars
      BY <1>2 DEF LookUpNames
    <2>3. s \notin {400, 404, 200}
      OBVIOUS
    <2> QED
      BY <1>1, <2>1, <2>2, <2>3, KnownOf, RefusedCause DEF localVars
  <1>3. CASE ~ ((names # {} /\ body[r].issuer # "admin") \/ body[r].issuer = "anonymous")
    <2>1. PICK given \in NewNames(names) :
            /\ toInsert' = [toInsert EXCEPT ![r] = given]
            /\ found' = [found EXCEPT ![r] = map]
            /\ Goto(r, IF given = {} THEN "check_added" ELSE "names")
            /\ UNCHANGED <<answer, page, writeVars>>
      BY <1>3 DEF LookUpNames
    <2> HIDE DEF names
    <2>2. \A n \in given : Named(tags, n) = {} /\ \A m \in given : Lower[m] = Lower[n] => m = n
      BY <2>1 DEF NewNames
    <2>3. toInsert'[r] = given /\ found'[r] = map
      BY <1>1, <2>1 DEF TypeOK
    <2>4. \A t \in TagIds : rows'[r][t] = NoRow /\ rows[r][t] = NoRow
      BY <1>1, <2>1 DEF Shape, WriteShape, Writing, writeVars
    <2>5. added'[r] = {}
      BY <1>1, <2>1 DEF Shape, WriteShape, writeVars
    <2>6. pc'[r] = (IF given = {} THEN "check_added" ELSE "names")
      BY <1>1, <2>1 DEF TypeOK, Goto
    <2>7. StillNew(r)'
      BY <1>1, <2>2, <2>3, <2>4, SameTags DEF StillNew
    <2>8. FoundAreNamed(r)'
      <3> SUFFICES ASSUME NEW n \in names, NEW t \in TagIds, map[Lower[n]] = t
                   PROVE  Seen(r)'[t] # NoRow /\ Lower[Seen(r)'[t].name] = Lower[n]
        BY <1>1, <2>3 DEF FoundAreNamed, names
      <3>1. Lower[n] \in Names /\ NoTag \notin TagIds
        BY <1>1, LowerTypes, TagAssumption
      <3>2. t \in known(Lower[n])
        BY <3>1
      <3>3. tags[t] # NoRow /\ Lower[tags[t].name] = Lower[n]
        BY <3>2 DEF Named
      <3>4. Seen(r)'[t] = tags[t]
        BY <1>1, <2>4 DEF Seen
      <3> QED
        BY <3>3, <3>4
    <2> HIDE DEF map
    <2>9. pc'[r] = "check_added" => TagsAreChecked(r)' /\ PairsAreAdded(r)'
      BY <2>5 DEF TagsAreChecked, PairsAreAdded
    <2>10. ByName(r)'
      BY <1>1, KnownOf DEF StepsOf, Routes, ByName
    <2>11. Progress(r)'
      BY <1>1, <2>6, <2>7, <2>8, <2>9, <2>10, ProgressAt DEF Tagging
    <2> DEFINE to == IF given = {} THEN "check_added" ELSE "names"
    <2>12. Goto(r, to) /\ to # "done" /\ to # "new"
      BY <2>1
    <2>13. \A q \in Requests \ {r} : toInsert'[q] = toInsert[q] /\ found'[q] = found[q]
      BY <1>1, <2>1 DEF TypeOK
    <2> HIDE DEF to
    <2> QED
      BY <1>1, <2>1, <2>11, <2>12, <2>13, KnownOf, GoesCause DEF writeVars
  <1> QED
    BY <1>2, <1>3

LEMMA InsertNameCause ==
  ASSUME Known, NEW r \in Requests, InsertName(r)
  PROVE  HInv'
  <1>1. /\ TypeOK /\ TypeOK' /\ Shape(r) /\ Causes(r) /\ pc[r] = "names" /\ Open(r) /\ toInsert[r] \in SUBSET Names
        /\ UNCHANGED <<tags, objects, pairs, body, feasible, changed>>
    BY KnownOf DEF InsertName, Open, TypeOK
  <1> DEFINE i == lastTag + 1
             to(n) == IF toInsert[r] = {n} THEN "check_added" ELSE "names"
  <1>2. PICK n \in toInsert[r] :
          IF Named(Seen(r), n) # {} THEN Refuse(r, 400) /\ UNCHANGED <<lastTag, localVars>>
          ELSE /\ lastTag < MaxTag
               /\ rows' = [rows EXCEPT ![r][i] = [name |-> n, published |-> TRUE]]
               /\ found' = [found EXCEPT ![r][Lower[n]] = i]
               /\ toInsert' = [toInsert EXCEPT ![r] = @ \ {n}]
               /\ Goto(r, to(n))
               /\ UNCHANGED <<answer, page, added, removed>>
    BY DEF InsertName
  <1>3. StillNew(r) /\ FoundAreNamed(r)
    BY <1>1 DEF Causes, Progress
  <1>4. CASE Named(Seen(r), n) # {}
    <2>1. PICK t \in TagIds : Seen(r)[t] # NoRow /\ Lower[Seen(r)[t].name] = Lower[n]
      BY <1>4 DEF Named
    <2>2. Named(tags, n) # {}
      <3>1. Seen(r)[t] = tags[t]
        BY <1>1, <1>3, <2>1 DEF Seen, StillNew
      <3> QED
        BY <2>1, <3>1 DEF Named
    <2>3. changed[r] # Nothing
      BY <1>1, <1>3, <2>2 DEF StillNew, Nothing
    <2> QED
      BY <1>1, <1>2, <1>4, <2>3, KnownOf, RefusedCause DEF localVars
  <1>5. CASE Named(Seen(r), n) = {}
    <2>1. /\ lastTag < MaxTag
          /\ rows' = [rows EXCEPT ![r][i] = [name |-> n, published |-> TRUE]]
          /\ found' = [found EXCEPT ![r][Lower[n]] = i]
          /\ toInsert' = [toInsert EXCEPT ![r] = @ \ {n}]
          /\ Goto(r, to(n)) /\ UNCHANGED <<answer, page, added, removed>>
      BY <1>2, <1>5
    <2>2. i \in TagIds /\ n \in Names
      BY <1>1, <2>1, TagAssumption DEF TypeOK, TagIds
    <2>3. tags[i] = NoRow /\ rows[r][i] = NoRow
      <3>1. IdsAreTaken /\ lastTag \in Nat /\ ~ (i <= lastTag)
        BY <1>1 DEF Known, IInv, TypeOK
      <3> QED
        BY <2>2, <3>1 DEF IdsAreTaken
    <2> HIDE DEF i
    <2>4. /\ rows'[r][i].name = n /\ rows'[r][i] # NoRow
          /\ \A t \in TagIds \ {i} : rows'[r][t] = rows[r][t]
      <3> DEFINE w == [name |-> n, published |-> TRUE]
      <3>1. w.name = n /\ w # NoRow
        <4>1. w \in TagRow
          BY <2>2 DEF TagRow
        <4> QED
          BY <4>1, TagAssumption
      <3>2. rows' = [rows EXCEPT ![r][i] = w]
        BY <2>1
      <3> HIDE DEF w
      <3>3. rows'[r][i] = w /\ \A t \in TagIds \ {i} : rows'[r][t] = rows[r][t]
        BY <1>1, <2>2, <3>2 DEF TypeOK
      <3> QED
        BY <3>1, <3>3
    <2>5. found'[r][Lower[n]] = i /\ \A m \in Names : Lower[m] # Lower[n] => found'[r][Lower[m]] = found[r][Lower[m]]
      BY <1>1, <2>1, <2>2, LowerTypes DEF TypeOK
    <2>6. toInsert'[r] = toInsert[r] \ {n} /\ pc'[r] = to(n)
      BY <1>1, <2>1 DEF TypeOK, Goto
    <2>7. StillNew(r)'
      <3> SUFFICES ASSUME NEW m \in toInsert[r], m # n
                   PROVE  /\ Named(tags, m)' = {} \/ changed'[r].tags # {}
                          /\ \A t \in TagIds : rows'[r][t] # NoRow => Lower[rows'[r][t].name] # Lower[m]
                          /\ \A k \in toInsert'[r] : Lower[k] = Lower[m] => k = m
        BY <2>6 DEF StillNew
      <3>1. Lower[m] # Lower[n]
        BY <1>1, <1>3 DEF StillNew
      <3> QED
        BY <1>1, <1>3, <2>4, <2>6, <3>1, SameTags DEF StillNew
    <2>8. FoundAreNamed(r)'
      <3> SUFFICES ASSUME ByName(r), NEW m \in body[r].names, NEW t \in TagIds \ changed[r].tags, found'[r][Lower[m]] = t
                   PROVE  Seen(r)'[t] # NoRow /\ Lower[Seen(r)'[t].name] = Lower[m]
        BY <1>1 DEF FoundAreNamed, ByName
      <3>1. m \in Names
        BY <1>1, BodyTypes
      <3>2. CASE Lower[m] = Lower[n]
        BY <2>2, <2>4, <2>5, <3>2 DEF Seen
      <3>3. CASE Lower[m] # Lower[n]
        <4>1. Seen(r)[t] # NoRow /\ Lower[Seen(r)[t].name] = Lower[m]
          BY <1>1, <1>3, <2>5, <3>1, <3>3 DEF FoundAreNamed
        <4>2. t # i
          BY <2>3, <4>1 DEF Seen
        <4>3. Seen(r)'[t] = Seen(r)[t]
          BY <1>1, <2>4, <4>2 DEF Seen
        <4> QED
          BY <4>1, <4>3
      <3> QED
        BY <3>2, <3>3
    <2>9. added'[r] = {}
      BY <1>1, <2>1 DEF Shape, WriteShape
    <2>10. pc'[r] = "check_added" => TagsAreChecked(r)' /\ PairsAreAdded(r)'
      BY <2>9 DEF TagsAreChecked, PairsAreAdded
    <2>11. ByName(r)'
      BY <1>1, KnownOf DEF StepsOf, Routes, ByName
    <2>12. Progress(r)'
      BY <1>1, <2>6, <2>7, <2>8, <2>10, <2>11, ProgressAt DEF Tagging
    <2>13. Goto(r, to(n)) /\ to(n) # "done" /\ to(n) # "new"
      BY <2>1
    <2>14. \A q \in Requests \ {r} : toInsert'[q] = toInsert[q] /\ found'[q] = found[q] /\ rows'[q] = rows[q]
      BY <1>1, <2>1 DEF TypeOK
    <2> HIDE DEF to
    <2> QED
      BY <1>1, <2>1, <2>12, <2>13, <2>14, KnownOf, GoesCause
  <1> QED
    BY <1>4, <1>5

\* The checks of /objects/update_tags, and its pairs.
LEMMA ToAddIs ==
  ASSUME NEW r \in Requests, ByName(r)
  PROVE  /\ PairsToAdd(r) = body[r].objects \X (body[r].ids \cup {found[r][Lower[n]] : n \in body[r].names})
         /\ PairsToRemove(r) = body[r].objects \X body[r].removedIds
         /\ body' = body /\ found' = found =>
               ByName(r)' /\ PairsToAdd(r)' = PairsToAdd(r) /\ PairsToRemove(r)' = PairsToRemove(r)
  BY DEF ByName, PairsToAdd, PairsToRemove

LEMMA CheckCause ==
  ASSUME Known, NEW r \in Requests, CheckAdded(r) \/ CheckRemoved(r)
  PROVE  HInv'
  <1>1. /\ TypeOK /\ TypeOK' /\ Shape(r) /\ Causes(r) /\ pc[r] \in {"check_added", "check_removed"} /\ Open(r)
        /\ UNCHANGED <<tags, objects, pairs, body, toInsert, found, page, feasible, changed>>
    BY KnownOf DEF CheckAdded, CheckRemoved, Open, tableVars, localVars
  <1>2. CASE Refuse(r, 403)
    BY <1>1, <1>2, KnownOf, RefusedCause
  <1>3. CASE ~ Refuse(r, 403)
    <2>1. ByName(r)
      BY <1>1, KnownOf DEF StepsOf, Routes, ByName
    <2>2. PICK to \in {"add", "remove"} :
            /\ Goto(r, to) /\ UNCHANGED <<answer, writeVars>>
            /\ pc[r] = "check_added" => to = "add" /\ MayTag(r, TagsOf(PairsToAdd(r)))
            /\ pc[r] = "check_removed" => to = "remove"
      BY <1>3 DEF CheckAdded, CheckRemoved
    <2>3. pc'[r] = to /\ rows'[r] = rows[r] /\ added'[r] = added[r]
      BY <1>1, <2>2 DEF TypeOK, Goto, writeVars
    <2>4. Seen(r)' = Seen(r)
      BY <1>1, <2>3 DEF Seen
    <2>5. FoundAreNamed(r)'
      BY <1>1, <2>1, <2>4 DEF FoundAreNamed, Causes, Progress, Tagging, ByName
    <2>6. TagsAreChecked(r)'
      <3>1. PairsToAdd(r)' = PairsToAdd(r) /\ TagsOf(PairsToAdd(r))' = TagsOf(PairsToAdd(r))
        BY <1>1, <2>1, ToAddIs DEF TagsOf
      <3>2. CASE pc[r] = "check_added"
        BY <1>1, <2>2, <2>4, <3>1, <3>2 DEF TagsAreChecked, MayTag
      <3>3. CASE pc[r] = "check_removed"
        BY <1>1, <2>1, <2>4, <3>1, <3>3 DEF TagsAreChecked, Causes, Progress, Tagging
      <3> QED
        BY <1>1, <3>2, <3>3
    <2>7. PairsAreAdded(r)'
      <3>1. PairsToAdd(r)' = PairsToAdd(r)
        BY <1>1, <2>1, ToAddIs
      <3>2. CASE pc[r] = "check_added"
        <4>1. added[r] = {}
          BY <1>1, <3>2 DEF Shape, WriteShape
        <4> QED
          BY <2>2, <2>3, <3>2, <4>1 DEF PairsAreAdded
      <3>3. CASE pc[r] = "check_removed"
        BY <1>1, <2>1, <2>2, <2>3, <3>1, <3>3 DEF PairsAreAdded, Causes, Progress, Tagging
      <3> QED
        BY <1>1, <3>2, <3>3
    <2>8. ByName(r)'
      BY <1>1, <2>1 DEF ByName
    <2>9. Progress(r)'
      BY <1>1, <2>3, <2>5, <2>6, <2>7, <2>8, ProgressAt DEF Tagging
    <2>10. to # "done" /\ to # "new"
      OBVIOUS
    <2> QED
      BY <1>1, <2>2, <2>9, <2>10, KnownOf, GoesCause DEF writeVars
  <1> QED
    BY <1>2, <1>3

\* Pairs are refused for an end that is not there: a request that could be carried out has
\* all its ends, those it found by name included, unless one was taken away.
LEMMA AddPairsCause ==
  ASSUME Known, NEW r \in Requests, AddPairs(r)
  PROVE  HInv'
  <1> DEFINE new == PairsToAdd(r) \ pairs
             to == CASE body[r].route = "tags_add" -> "commit"
                     [] body[r].route = "tags_update" -> "remove"
                     [] OTHER -> "check_removed"
  <1>1. /\ TypeOK /\ TypeOK' /\ Shape(r) /\ Causes(r) /\ pc[r] = "add" /\ Open(r)
        /\ UNCHANGED <<tags, objects, pairs, body, toInsert, found, page, feasible, changed>>
    BY KnownOf DEF AddPairs, Open, tableVars, localVars
  <1>2. body[r].route \in {"tags_add", "tags_update", "update_tags"}
    BY <1>1, KnownOf DEF StepsOf, Routes
  <1>3. CASE Refuse(r, 400) /\ \E p \in new : p[1] \notin objects \/ Seen(r)[p[2]] = NoRow
    <2>1. PICK p \in PairsToAdd(r) : p[1] \notin objects \/ Seen(r)[p[2]] = NoRow
      BY <1>3
    <2>2. ASSUME Feasible(body[r]), changed[r] = Nothing
          PROVE  FALSE
      <3>1. body[r].objects \subseteq objects /\ (ByName(r) => \A t \in body[r].ids : tags[t] # NoRow)
        BY <1>2, <2>2 DEF Feasible, ByName
      <3>2. CASE ~ ByName(r)
        <4>1. PairsToAdd(r) = body[r].objects \X {TheTag(r)}
          BY <3>2 DEF PairsToAdd, ByName
        <4>2. TheTag(r) \in TagIds /\ rows[r][TheTag(r)] # NoRow
          BY <1>1, <3>2, TheTagIs DEF Shape, Writing, ByName
        <4>3. Seen(r)[TheTag(r)] # NoRow
          BY <4>2 DEF Seen
        <4> QED
          BY <2>1, <3>1, <4>1, <4>3
      <3>3. CASE ByName(r)
        <4>1. p[1] \in objects /\ p[2] \in body[r].ids \cup {found[r][Lower[n]] : n \in body[r].names}
          BY <2>1, <3>1, <3>3, ToAddIs
        <4>2. CASE p[2] \in body[r].ids
          <5>1. p[2] \in TagIds /\ tags[p[2]] # NoRow
            BY <1>1, <3>1, <3>3, <4>2, BodyTypes
          <5>2. Seen(r)[p[2]] # NoRow
            BY <5>1 DEF Seen
          <5> QED
            BY <2>1, <4>1, <5>2
        <4>3. CASE p[2] \in {found[r][Lower[n]] : n \in body[r].names}
          <5>1. PICK n \in body[r].names : p[2] = found[r][Lower[n]]
            BY <4>3
          <5>2. found[r][Lower[n]] \in TagIds
            BY <1>1, <3>3 DEF Shape, FoundShape, Writing, ByName
          <5>3. found[r][Lower[n]] \in TagIds \ changed[r].tags
            BY <2>2, <5>2 DEF Nothing
          <5>4. Seen(r)[p[2]] # NoRow
            BY <1>1, <3>3, <5>1, <5>3 DEF Causes, Progress, FoundAreNamed, Tagging
          <5> QED
            BY <2>1, <4>1, <5>4
        <4> QED
          BY <4>1, <4>2, <4>3
      <3> QED
        BY <3>2, <3>3
    <2>3. feasible[r] => changed[r] # Nothing
      BY <1>1, <2>2, KnownOf
    <2> QED
      BY <1>1, <1>3, <2>3, KnownOf, RefusedCause
  <1>4. CASE added' = [added EXCEPT ![r] = new] /\ Goto(r, to) /\ UNCHANGED <<answer, rows, removed>>
    <2>1. added'[r] = new /\ \A q \in Requests \ {r} : added'[q] = added[q]
      BY <1>1, <1>4 DEF TypeOK
    <2> HIDE DEF new
    <2>2. pc'[r] = to /\ Seen(r)' = Seen(r)
      BY <1>1, <1>4 DEF TypeOK, Goto, Seen
    <2>3. ASSUME ~ ByName(r) PROVE Progress(r)'
      <3>1. pc'[r] \in Tagging /\ ~ ByName(r)'
        BY <1>1, <1>2, <2>2, <2>3 DEF Tagging, ByName
      <3> QED
        BY <3>1, KnownOf, ProgressAt
    <2>4. ASSUME ByName(r) PROVE Progress(r)'
      <3>1. pc'[r] = "check_removed" /\ ByName(r)'
        BY <1>1, <2>2, <2>4 DEF ByName
      <3>2. PairsToAdd(r)' = PairsToAdd(r) /\ TagsOf(PairsToAdd(r))' = TagsOf(PairsToAdd(r))
        BY <1>1, <2>4, ToAddIs DEF TagsOf
      <3>3. FoundAreNamed(r)'
        BY <1>1, <2>2, <2>4 DEF FoundAreNamed, Causes, Progress, Tagging, ByName
      <3>4. TagsAreChecked(r)'
        BY <1>1, <2>2, <2>4, <3>2 DEF TagsAreChecked, Causes, Progress, Tagging
      <3>5. PairsAreAdded(r)'
        BY <1>1, <2>1, <3>1, <3>2 DEF PairsAreAdded, new
      <3> QED
        BY <3>1, <3>3, <3>4, <3>5, KnownOf, ProgressAt DEF Tagging
    <2>5. Progress(r)'
      BY <2>3, <2>4
    <2>6. to # "done" /\ to # "new"
      BY <1>2
    <2> HIDE DEF to
    <2> QED
      BY <1>1, <1>4, <2>1, <2>5, <2>6, KnownOf, GoesCause
  <1> QED
    BY <1>3, <1>4 DEF AddPairs

LEMMA RemovePairsCause ==
  ASSUME Known, NEW r \in Requests, RemovePairs(r)
  PROVE  HInv'
  <1>1. /\ TypeOK /\ TypeOK' /\ Shape(r) /\ Causes(r) /\ pc[r] = "remove" /\ Open(r)
        /\ UNCHANGED <<tags, objects, pairs, body, answer, toInsert, found, page, rows, added, feasible, changed>>
        /\ removed' = [removed EXCEPT ![r] = PairsToRemove(r) \cap (pairs \cup added[r])]
        /\ Goto(r, "commit")
    BY KnownOf DEF RemovePairs, Open, tableVars, localVars
  <1>2. /\ pc'[r] = "commit" /\ Seen(r)' = Seen(r)
        /\ removed'[r] \subseteq PairsToRemove(r) /\ \A q \in Requests \ {r} : removed'[q] = removed[q]
    BY <1>1 DEF TypeOK, Goto, Seen
  <1>3. ASSUME ~ ByName(r) PROVE Progress(r)'
    BY <1>1, <1>2, <1>3, KnownOf, ProgressAt DEF ByName, Tagging
  <1>4. ASSUME ByName(r) PROVE Progress(r)'
    <2>1. /\ ByName(r)' /\ PairsToAdd(r)' = PairsToAdd(r) /\ PairsToRemove(r)' = PairsToRemove(r)
          /\ TagsOf(PairsToAdd(r))' = TagsOf(PairsToAdd(r))
      BY <1>1, <1>4, ToAddIs DEF TagsOf
    <2>2. FoundAreNamed(r)'
      BY <1>1, <1>2, <1>4 DEF FoundAreNamed, Causes, Progress, Tagging, ByName
    <2>3. TagsAreChecked(r)'
      BY <1>1, <1>2, <1>4, <2>1 DEF TagsAreChecked, Causes, Progress, Tagging
    <2>4. PairsAreAdded(r)'
      BY <1>1, <1>2, <1>4, <2>1 DEF PairsAreAdded, Causes, Progress, Tagging
    <2> QED
      BY <1>2, <2>1, <2>2, <2>3, <2>4, KnownOf, ProgressAt DEF Tagging
  <1>5. Progress(r)'
    BY <1>3, <1>4
  <1> QED
    BY <1>1, <1>2, <1>5, KnownOf, GoesCause

\* What changes the tables is noticed by the others.
LEMMA NoticeIs ==
  ASSUME TypeOK, NEW others \in SUBSET Requests, NEW ts, NEW os, NEW ps, Notice(others, ts, os, ps), NEW q \in Requests
  PROVE  /\ q \notin others \/ ~ Open(q) => changed'[q] = changed[q]
         /\ q \in others /\ Open(q) =>
               changed'[q].tags = changed[q].tags \cup ts /\ changed'[q].objects = changed[q].objects \cup os
               /\ changed'[q].pairs = changed[q].pairs \cup ps
  BY DEF Notice

LEMMA NoticesIf ==
  ASSUME TypeOK, NEW others \in SUBSET Requests, NEW ts, NEW os, NEW ps, Notice(others, ts, os, ps), NEW q \in others,
         \A t \in TagIds : tags'[t] # tags[t] => t \in ts,
         objects' # objects => os # {},
         pairs \ pairs' \subseteq ps
  PROVE  Notices(q)
  <1>1. q \in Requests
    OBVIOUS
  <1>2. CASE ~ Open(q)
    BY <1>1, <1>2, NoticeIs DEF Notices
  <1>3. CASE Open(q)
    <2>1. changed'[q].tags = changed[q].tags \cup ts /\ changed'[q].objects = changed[q].objects \cup os
          /\ changed'[q].pairs = changed[q].pairs \cup ps
      BY <1>1, <1>3 DEF Notice
    <2> QED
      BY <1>3, <2>1 DEF Notices
  <1> QED
    BY <1>2, <1>3

\* The end of a transaction that has changed the tables.
LEMMA EndedCause ==
  ASSUME Known, NEW r \in Requests, NEW s, Refuse(r, s), UNCHANGED <<body, toInsert, found, page, feasible>>,
         s \in {400, 404} /\ feasible[r] => changed[r] # Nothing,
         body[r].route # "page", changed'[r] = changed[r],
         \A q \in Requests \ {r} : Notices(q)
  PROVE  HInv'
  <1>1. TypeOK /\ TypeOK' /\ HInv
    BY KnownOf
  <1>2. (\A q \in Requests \ {r} : Same(q)) /\ pc'[r] = "done" /\ answer'[r] = s
    BY <1>1, RefuseSame
  <1>3. Causes(r)'
    BY <1>2, EndsWithCause
  <1>4. ASSUME NEW q \in Requests \ {r} PROVE Causes(q)'
    BY <1>1, <1>2, BystanderCauses DEF HInv
  <1> QED
    BY <1>3, <1>4 DEF HInv

LEMMA CommitCause ==
  ASSUME Known, NEW r \in Requests, Commit(r)
  PROVE  HInv'
  <1> DEFINE ts == {t \in TagIds : rows[r][t] # NoRow}
  <1>1. /\ TypeOK /\ pc[r] = "commit" /\ tags' = Seen(r)
        /\ pairs' = (pairs \cup added[r]) \ removed[r]
        /\ Notice(Requests \ {r}, ts, {}, HeldPairs(r))
        /\ Refuse(r, 200) /\ UNCHANGED <<objects, body, toInsert, found, page, feasible>>
    BY KnownOf DEF Commit, localVars
  <1>2. body[r].route # "page"
    BY <1>1, KnownOf DEF StepsOf, Routes
  <1>3. \A t \in TagIds : tags'[t] # tags[t] => t \in ts
    BY <1>1 DEF Seen
  <1>4. pairs \ pairs' \subseteq HeldPairs(r)
    BY <1>1 DEF HeldPairs
  <1> HIDE DEF ts
  <1>5. changed'[r] = changed[r] /\ \A q \in Requests \ {r} : Notices(q)
    <2>1. Requests \ {r} \in SUBSET Requests
      OBVIOUS
    <2> QED
      BY <1>1, <1>3, <1>4, <2>1, NoticeIs, NoticesIf
  <1> QED
    BY <1>1, <1>2, <1>5, EndedCause

LEMMA DeleteTagsCause ==
  ASSUME Known, NEW r \in Requests, DeleteTags(r)
  PROVE  HInv'
  <1> DEFINE gone == {t \in body[r].ids : tags[t] # NoRow}
             status == IF gone = {} THEN 404 ELSE 200
             ps == {p \in pairs : p[2] \in gone}
  <1>1. /\ TypeOK /\ pc[r] = "delete" /\ Open(r)
        /\ tags' = [t \in TagIds |-> IF t \in gone THEN NoRow ELSE tags[t]]
        /\ pairs' = {p \in pairs : p[2] \notin gone}
        /\ Notice(Requests \ {r}, gone, {}, ps)
        /\ Refuse(r, status) /\ UNCHANGED <<objects, body, toInsert, found, page, feasible>>
    BY KnownOf DEF DeleteTags, localVars, Open
  <1>2. body[r].route = "tags_delete"
    BY <1>1, KnownOf DEF StepsOf, Routes
  <1>3. status \in {400, 404} /\ feasible[r] => changed[r] # Nothing
    <2>1. gone = {} => ~ Feasible(body[r])
      BY <1>2 DEF Feasible
    <2> QED
      BY <1>1, <2>1, KnownOf
  <1>4. \A t \in TagIds : tags'[t] # tags[t] => t \in gone
    BY <1>1
  <1>5. pairs \ pairs' \subseteq ps
    BY <1>1
  <1> HIDE DEF gone, status, ps
  <1>6. changed'[r] = changed[r] /\ \A q \in Requests \ {r} : Notices(q)
    <2>1. Requests \ {r} \in SUBSET Requests
      OBVIOUS
    <2> QED
      BY <1>1, <1>4, <1>5, <2>1, NoticeIs, NoticesIf
  <1> QED
    BY <1>1, <1>2, <1>3, <1>6, EndedCause

LEMMA DeleteObjectCause ==
  ASSUME Known, NEW o \in Objects, DeleteObject(o)
  PROVE  HInv'
  <1> DEFINE ps == {p \in pairs : p[1] = o}
  <1>1. /\ UNCHANGED <<tags, pc, body, answer, toInsert, found, page, rows, added, removed, feasible>>
        /\ pairs' = {p \in pairs : p[1] # o} /\ Notice(Requests, {}, {o}, ps)
    BY DEF DeleteObject, localVars, writeVars
  <1>2. pairs \ pairs' \subseteq ps
    BY <1>1
  <1> HIDE DEF ps
  <1> SUFFICES ASSUME NEW q \in Requests PROVE Causes(q)'
    BY DEF HInv
  <1>3. Same(q)
    BY <1>1 DEF Same
  <1>4. Notices(q)
    <2>1. TypeOK /\ Requests \in SUBSET Requests
      BY DEF Known, IInv
    <2> QED
      BY <1>1, <1>2, <2>1, NoticesIf
  <1> QED
    BY <1>3, <1>4, KnownOf, BystanderCauses

\* Reads: not found, if nothing matches.
LEMMA ReadCause ==
  ASSUME Known, NEW r \in Requests, ReadPage(r) \/ ViewTags(r) \/ SearchTags(r)
  PROVE  HInv'
  <1>1. /\ TypeOK /\ TypeOK' /\ pc[r] \in {"page", "view", "search"} /\ Open(r)
        /\ UNCHANGED <<tags, objects, pairs, body, toInsert, found, feasible, changed>>
        /\ body[r].route = pc[r]
    BY KnownOf DEF ReadPage, ViewTags, SearchTags, Open, tableVars, StepsOf, Routes
  <1>2. \A q \in Requests \ {r} : page'[q] = page[q]
    BY <1>1 DEF ReadPage, ViewTags, SearchTags, TypeOK
  <1>3. CASE Refuse(r, 200) /\ pc[r] # "page"
    BY <1>1, <1>2, <1>3, KnownOf, RefusedCause
  <1>4. CASE Refuse(r, 404) /\ ~ Feasible(body[r])
    BY <1>1, <1>2, <1>4, KnownOf, RefusedCause
  <1>5. CASE ViewTags(r)
    <2> DEFINE ids == body[r].ids \cap VisibleTags(body[r].issuer)
    <2>1. page'[r].ids = ids /\ pc[r] = "view" /\ Refuse(r, IF page'[r].ids = {} THEN 404 ELSE 200)
      BY <1>1, <1>5 DEF ViewTags, TypeOK
    <2>2. ids = {} => ~ Feasible(body[r])
      BY <1>1, <2>1 DEF Feasible
    <2> QED
      BY <1>3, <1>4, <2>1, <2>2
  <1>6. CASE SearchTags(r)
    <2>1. Matching(body[r]) \ body[r].ids = {} => ~ Feasible(body[r])
      BY <1>1, <1>6 DEF Feasible, SearchTags
    <2> QED
      BY <1>3, <1>4, <1>6, <2>1 DEF SearchTags
  <1>7. CASE ReadPage(r)
    <2> DEFINE b == body[r]
               n == Cardinality(Matching(b))
    <2>1. n \in Nat /\ b.route = "page" /\ b.first \in Nat /\ b.limit \in Nat /\ b.limit > 0
      <3>1. b \in Bodies /\ b.route = "page"
        BY <1>1, <1>7, KnownOf DEF ReadPage
      <3> QED
        BY <3>1, MatchingTypes, TagAssumption DEF Body
    <2>2. PICK ids \in PagesOf(b) :
            IF ids = {} THEN Refuse(r, 404) /\ UNCHANGED page
            ELSE /\ page' = [page EXCEPT ![r].ids = ids]
                 /\ Goto(r, "count") /\ UNCHANGED <<answer, writeVars>>
      BY <1>7 DEF ReadPage
    <2>3. Cardinality(ids) = IF n <= b.first THEN 0 ELSE IF n - b.first < b.limit THEN n - b.first ELSE b.limit
      BY <2>2 DEF PagesOf, PageSize
    <2>4. IsFiniteSet(ids) /\ Cardinality(ids) \in Nat /\ (Cardinality(ids) = 0 <=> ids = {})
      <3>1. IsFiniteSet(Matching(b)) /\ ids \in SUBSET Matching(b)
        BY <2>2, MatchingTypes DEF PagesOf
      <3>2. IsFiniteSet(ids)
        BY <3>1, FS_Subset
      <3> QED
        BY <3>2, FS_CardinalityType, FS_EmptySet
    <2>5. Feasible(b) => n > b.first
      BY <2>1 DEF Feasible
    <2> HIDE DEF n
    <2>6. CASE ids = {}
      <3>1. ~ (n > b.first)
        BY <2>1, <2>3, <2>4, <2>6
      <3> QED
        BY <1>4, <2>2, <2>5, <2>6, <3>1
    <2>7. CASE ids # {}
      <3>1. b.first + Cardinality(ids) <= n
        BY <2>1, <2>3, <2>4, <2>7
      <3>2. page'[r].ids = ids /\ pc'[r] = "count"
        BY <1>1, <2>2, <2>7 DEF TypeOK, Goto
      <3>3. PageIsCounted(r)'
        BY <1>1, <3>1, <3>2, SameMatching DEF PageIsCounted, n
      <3>4. Progress(r)'
        BY <3>2, <3>3, KnownOf, ProgressAt
      <3> QED
        BY <1>1, <1>2, <2>2, <2>7, <3>4, KnownOf, GoesCause DEF writeVars
    <2> QED
      BY <2>6, <2>7
  <1> QED
    BY <1>5, <1>6, <1>7

\* The number is of the tags that match now: as many as matched before, if the tags are
\* still the same.
LEMMA CountPageCause ==
  ASSUME Known, NEW r \in Requests, CountPage(r)
  PROVE  HInv'
  <1> DEFINE c == Cardinality(Matching(body[r]))
  <1>1. /\ TypeOK /\ TypeOK' /\ Causes(r) /\ pc[r] = "count" /\ Open(r) /\ Refuse(r, 200)
        /\ UNCHANGED <<tags, objects, pairs, body, toInsert, found, feasible, changed>>
        /\ page' = [page EXCEPT ![r].total = c]
    BY KnownOf DEF CountPage, Open, tableVars
  <1>2. /\ page'[r].ids = page[r].ids /\ page'[r].total = c
        /\ \A q \in Requests \ {r} : page'[q] = page[q]
    BY <1>1 DEF TypeOK
  <1>3. body[r].first + Cardinality(page[r].ids) <= c \/ changed[r].tags # {}
    BY <1>1 DEF Causes, Progress, PageIsCounted
  <1> HIDE DEF c
  <1>4. body[r].first + Cardinality(page'[r].ids) <= page'[r].total \/ changed[r].tags # {}
    BY <1>2, <1>3
  <1> QED
    BY <1>1, <1>2, <1>4, KnownOf, RefusedCause

LEMMA WorkCause ==
  ASSUME Known, NEW r \in Requests, Begin(r) \/ Work(r) \/ Fail(r)
  PROVE  HInv'
  BY BeginCause, FailCause, InsertTagCause, LockTagCause, RenameTagCause, LookUpNamesCause, InsertNameCause,
     CheckCause, AddPairsCause, RemovePairsCause, CommitCause, DeleteTagsCause, ReadCause, CountPageCause
  DEF Work

LEMMA HInit == Init => HInv
  <1> SUFFICES ASSUME Init, NEW r \in Requests PROVE Causes(r)
    BY DEF HInv
  <1>1. pc[r] = "new" /\ answer[r] = 0
    BY DEF Init
  <1>2. Progress(r)
    BY <1>1 DEF Progress, OneRow, StillNew, FoundAreNamed, TagsAreChecked, PairsAreAdded, PageIsCounted, Tagging
  <1> QED
    BY <1>1, <1>2 DEF Causes, Unanswered, AdminsOnly, StillFeasible, RefusalHasCause, PageAddsUp, Open

LEMMA HStep == IInv /\ HInv /\ [Next]_vars => HInv'
  <1> SUFFICES ASSUME IInv, HInv, [Next]_vars PROVE HInv'
    OBVIOUS
  <1>1. TypeOK'
    BY StepHolds DEF IInv
  <1>2. CASE UNCHANGED vars
    <2> SUFFICES ASSUME NEW q \in Requests PROVE Causes(q)'
      BY DEF HInv
    <2>1. Same(q) /\ Notices(q)
      BY <1>2 DEF Same, Notices, vars, tableVars, localVars, writeVars
    <2> QED
      BY <1>1, <2>1, BystanderCauses DEF IInv, HInv
  <1>3. CASE Next
    BY <1>1, <1>3, WorkCause, DeleteObjectCause DEF Next, Known
  <1> QED
    BY <1>2, <1>3

\* A request that goes from its commit to its end with the answer 200 has committed.
LEMMA CommitsOnly ==
  ASSUME IInv, Next, NEW r \in Requests, pc[r] = "commit", pc'[r] = "done", answer'[r] = 200
  PROVE  Commit(r)
  <1>1. TypeOK
    BY DEF IInv
  <1>2. ASSUME NEW o \in Objects, DeleteObject(o)
        PROVE  FALSE
    BY <1>2 DEF DeleteObject
  <1>3. ASSUME NEW q \in Requests, Begin(q) \/ Work(q) \/ Fail(q)
        PROVE  Commit(r)
    <2>1. CASE q # r
      <3>1. LocalOK(q)
        BY DEF IInv, LocalOK, Shape
      <3>2. pc'[r] = pc[r]
        BY <1>3, <2>1, <3>1, RequestStep DEF Local, Frame, Alone
      <3> QED
        BY <3>2
    <2>2. CASE q = r
      <3>1. ~ Begin(r) /\ (Work(r) => Commit(r) \/ AbortDeadlocked(r))
        BY DEF Begin, Work, InsertTag, LockTag, RenameTag, LookUpNames, InsertName, CheckAdded, AddPairs,
               CheckRemoved, RemovePairs, DeleteTags, ReadPage, CountPage, ViewTags, SearchTags
      <3>2. Refuse(r, 500) => FALSE
        <4>1. Refuse(r, 500) => answer'[r] = 500
          BY <1>1 DEF Refuse, TypeOK
        <4> QED
          BY <4>1
      <3> QED
        BY <1>3, <2>2, <3>1, <3>2 DEF AbortDeadlocked, Fail
    <2> QED
      BY <2>1, <2>2
  <1> QED
    BY <1>2, <1>3 DEF Next

-----------------------------------------------------------------------------
(* Theorems *)

\* The strengthening that every step preserves.  (The whole of Tags.)
THEOREM InductiveInvariant == Spec => []IInv
  <1> QED
    BY InitHolds, StepHolds, PTL DEF Spec

\* Every variable has its type.  (The whole of Tags.)
THEOREM TypeCorrect == Spec => []TypeOK
  <1>1. IInv => TypeOK
    BY DEF IInv
  <1> QED
    BY <1>1, InductiveInvariant, PTL

\* No two tags ever have names that differ in case only, whatever requests add, rename and
\* look up names at the same time.  (add_tag, update_tag, add_tags_by_name.)
THEOREM UniqueNames == Spec => []NamesAreUnique
  <1>1. IInv => NamesAreUnique
    BY DEF IInv
  <1> QED
    BY <1>1, InductiveInvariant, PTL

\* No pair of objects_tags outlives its tag or its object.  (add_objects_tags,
\* delete_tags, /objects/delete.)
THEOREM PairsKeepEnds == Spec => []PairsHaveEnds
  <1>1. IInv => PairsHaveEnds
    BY DEF IInv
  <1> QED
    BY <1>1, InductiveInvariant, PTL

\* Whatever a request has found out, it keeps, or another request's change of it is
\* recorded: the strengthening the next four theorems rest on.  (The whole of Tags.)
THEOREM HistoryInvariant == Spec => [](IInv /\ HInv)
  <1>1. Init => IInv /\ HInv
    BY InitHolds, HInit
  <1>2. IInv /\ HInv /\ [Next]_vars => (IInv /\ HInv)'
    BY StepHolds, HStep
  <1> QED
    BY <1>1, <1>2, PTL DEF Spec

\* A request that could be carried out when it arrived is answered 400 or 404 only if
\* another one changed something meanwhile.  (add_tag, update_tag, add_tags_by_name,
\* add_objects_tags, delete_tags and the reads of tags.)
THEOREM RefusalsAreCaused == Spec => []RefusalsHaveCause
  <1>1. HInv => RefusalsHaveCause
    BY DEF HInv, Causes, RefusalHasCause, RefusalsHaveCause
  <1> QED
    BY <1>1, HistoryInvariant, PTL

\* The number of a page leaves room for it and for the pages before it, unless tags changed between the two
\* statements.  (get_page_tag_ids_data.)
THEOREM PagesAreCounted == Spec => []PagesAddUp
  <1>1. HInv => PagesAddUp
    BY DEF HInv, Causes, PageAddsUp, PagesAddUp
  <1> QED
    BY <1>1, HistoryInvariant, PTL

\* What /objects/update_tags adds by name is, when it commits, there and so named, unless
\* it removed it too or another request changed it.  (add_tags_by_name, add_objects_tags.)
THEOREM NamesAreKept == Spec => TagsAreAsNamed
  <1> DEFINE Step1(r) ==
        pc[r] = "commit" /\ pc'[r] = "done" /\ answer'[r] = 200 /\ body[r].route = "update_tags" =>
          \A n \in body[r].names, o \in body[r].objects :
              LET t == found[r][Lower[n]] IN
              \/ t \in body[r].removedIds
              \/ t \in changed[r].tags \/ <<o, t>> \in changed[r].pairs
              \/ <<o, t>> \in pairs' /\ tags'[t] # NoRow /\ Lower[tags'[t].name] = Lower[n]
  <1>1. IInv /\ HInv /\ [Next]_vars => [\A r \in Requests : Step1(r)]_vars
    <2> SUFFICES ASSUME IInv, HInv, Next, NEW r \in Requests, pc[r] = "commit", pc'[r] = "done", answer'[r] = 200,
                        body[r].route = "update_tags", NEW n \in body[r].names, NEW o \in body[r].objects
                 PROVE  \/ found[r][Lower[n]] \in body[r].removedIds
                        \/ found[r][Lower[n]] \in changed[r].tags
                        \/ <<o, found[r][Lower[n]]>> \in changed[r].pairs
                        \/ /\ <<o, found[r][Lower[n]]>> \in pairs'
                           /\ tags'[found[r][Lower[n]]] # NoRow
                           /\ Lower[tags'[found[r][Lower[n]]].name] = Lower[n]
      OBVIOUS
    <2> DEFINE t == found[r][Lower[n]]
    <2>1. tags' = Seen(r) /\ pairs' = (pairs \cup added[r]) \ removed[r]
      BY CommitsOnly DEF Commit
    <2>2. t \in TagIds
      BY DEF IInv, FoundShape, Writing
    <2>3. Causes(r) /\ ByName(r)
      BY DEF HInv, ByName
    <2>4. <<o, t>> \in PairsToAdd(r)
      BY <2>3, ToAddIs
    <2>5. <<o, t>> \in added[r] \cup pairs \cup changed[r].pairs
      BY <2>3, <2>4 DEF Causes, Progress, PairsAreAdded, Tagging
    <2>6. <<o, t>> \in removed[r] => t \in body[r].removedIds
      <3>1. removed[r] \subseteq body[r].objects \X body[r].removedIds
        BY <2>3, ToAddIs DEF Causes, Progress, PairsAreAdded, Tagging
      <3> QED
        BY <3>1
    <2>7. t \in changed[r].tags \/ (Seen(r)[t] # NoRow /\ Lower[Seen(r)[t].name] = Lower[n])
      BY <2>2, <2>3 DEF Causes, Progress, FoundAreNamed, Tagging
    <2> HIDE DEF t
    <2>8. \/ t \in body[r].removedIds \/ t \in changed[r].tags \/ <<o, t>> \in changed[r].pairs
          \/ <<o, t>> \in pairs' /\ tags'[t] # NoRow /\ Lower[tags'[t].name] = Lower[n]
      BY <2>1, <2>5, <2>6, <2>7
    <2> QED
      BY <2>8 DEF t
  <1> DEFINE Steps1 == \A r \in Requests : Step1(r)
  <1>2. IInv /\ HInv /\ [Next]_vars => [Steps1]_vars
    BY <1>1
  <1> HIDE DEF Steps1
  <1>3. Spec => [][Steps1]_vars
    BY <1>2, HistoryInvariant, PTL DEF Spec
  <1> QED
    BY <1>3 DEF Steps1, TagsAreAsNamed

\* A tag a non-admin adds to an object was published when it was checked: it is not at the
\* commit only if another request changed the tag in between.
\* (authorize_objects_tagging, add_objects_tags.)
THEOREM UnpublishedTagsAreKept == Spec => UnpublishedTagsAreForAdmins
  <1> DEFINE Steps2 == \A r \in Requests :
        pc[r] = "commit" /\ pc'[r] = "done" /\ answer'[r] = 200 /\ body[r].issuer # "admin" =>
          \A t \in TagsOf(added[r]) : t \in changed[r].tags \/ tags'[t].published
  <1>1. IInv /\ HInv /\ [Next]_vars => [Steps2]_vars
    <2> SUFFICES ASSUME IInv, HInv, Next, NEW r \in Requests, pc[r] = "commit", pc'[r] = "done", answer'[r] = 200,
                        body[r].issuer # "admin", NEW t \in TagsOf(added[r]), t \notin changed[r].tags
                 PROVE  tags'[t].published
      OBVIOUS
    <2>1. tags' = Seen(r)
      BY CommitsOnly DEF Commit
    <2>2. Causes(r) /\ Open(r) /\ TypeOK /\ RouteShape(r)
      BY DEF HInv, IInv, Open
    <2>3. ByName(r)
      <3>1. body[r].route \in Routes /\ body[r].route \notin ModifyingRoutes
        BY <2>2, BodyTypes DEF Causes, AdminsOnly
      <3> QED
        BY <2>2, <3>1 DEF RouteShape, StepsOf, Routes, ModifyingRoutes, ByName
    <2>4. PICK p \in added[r] : p[2] = t
      BY DEF TagsOf
    <2>5. t \in TagIds
      BY <2>2, <2>4 DEF TypeOK
    <2>6. Seen(r)[t] # NoRow
      BY <2>4 DEF IInv, AddedHaveEnds
    <2>7. t \in TagsOf(PairsToAdd(r))
      BY <2>2, <2>3, <2>4 DEF TagsOf, Causes, Progress, PairsAreAdded, Tagging
    <2>8. Seen(r)[t].published
      BY <2>2, <2>3, <2>5, <2>6, <2>7 DEF Causes, Progress, TagsAreChecked, Tagging
    <2> QED
      BY <2>1, <2>8
  <1> HIDE DEF Steps2
  <1>2. Spec => [][Steps2]_vars
    BY <1>1, HistoryInvariant, PTL DEF Spec
  <1> QED
    BY <1>2 DEF Steps2, UnpublishedTagsAreForAdmins

=================================================================================
