------------------------------- MODULE ReadsProofs -------------------------------
(***************************************************************************)
(* Proofs about Reads, for every set of objects and links, every setting   *)
(* of the depth, every query and any number of transactions of others.     *)
(***************************************************************************)
EXTENDS Reads, FiniteSetTheorems, WellFoundedInduction, TLAPS

-----------------------------------------------------------------------------
(* The inductive invariant *)

\* Which query each step of the request belongs to.
QueryShape ==
    /\ pc # "new" => query \in Queries
    /\ pc \in {"root", "descend"} => query.route = "hierarchy"
    /\ pc = "ids" => query.route # "hierarchy"
    /\ pc = "count" => query.route \in {"page", "global"}
    /\ pc = "count" /\ page = {} => query.route = "global"

\* What the query asks for now lies between the two histories.
WantedIsBracketed ==
    pc # "new" => alwaysRows \subseteq Wanted(query) /\ Wanted(query) \subseteq everRows

\* The page, once it is read, is bracketed.
PageIsBracketed ==
    /\ page \subseteq everRows
    /\ PageSize(query, Cardinality(alwaysRows)) <= Cardinality(page)
    /\ Cardinality(page) <= PageSize(query, Cardinality(everRows))

CountedPageIsBracketed == pc = "count" => PageIsBracketed

\* The hierarchy so far lies in every set of objects that holds the root and is closed
\* under the links seen at some moment.
HierarchyIsReachable ==
    \A S \in SUBSET Objects :
      query.root \in S /\ (\A l \in everLinks : l[1] \in S => l[2] \in S) => Found \subseteq S

\* The links that were there throughout lead from the composites that were read to
\* objects of the hierarchy.
HierarchyIsClosed ==
    \A l \in alwaysLinks : l[1] \in composite \ parents => l[2] \in Found

\* The root is in the hierarchy as soon as it is known to be a composite.
RootIsFound ==
    \/ pc = "descend"
    \/ pc = "done" /\ query.route = "hierarchy" /\ answer = 200
    => query.root \in composite

\* Nothing is found before the root.
NothingFoundYet == pc \in {"new", "root"} => Found = {} /\ parents = {}

\* The loop goes one level deeper for each statement, as deep as the setting lets it.
DepthIsBounded ==
    /\ depth <= MaxDepth
    /\ pc = "descend" => depth < MaxDepth
    /\ pc \notin {"descend", "done"} => depth = 1

\* The hierarchy so far holds what was within its depth throughout, and only what was
\* within it at some moments.
HierarchyIsAnswered == pc = "done" /\ query.route = "hierarchy" /\ answer = 200
LevelsAreBracketed ==
    pc = "descend" \/ HierarchyIsAnswered =>
      /\ Within(alwaysLinks, query.root, depth - 1) \subseteq Found
      /\ Found \subseteq Within(everLinks, query.root, depth - 1)
      /\ <<query.root, 1>> \in everRows

\* The loop ends for one of two reasons, and a hierarchy is refused for one of two.
SearchIsOver == HierarchyIsAnswered => parents = {} \/ depth = MaxDepth
RefusalsAreRight ==
    pc = "done" /\ query.route = "hierarchy" =>
      /\ answer \in {200, 400, 404}
      /\ answer = 404 => <<query.root, 1>> \notin alwaysRows
      /\ answer = 400 => query.root \in Leaves

LevelsInv == DepthIsBounded /\ LevelsAreBracketed /\ SearchIsOver /\ RefusalsAreRight

IInv ==
    /\ TypeOK
    /\ QueryShape
    /\ WantedIsBracketed
    /\ CountedPageIsBracketed
    /\ PagesAreBracketed
    /\ HierarchyIsReachable
    /\ HierarchyIsClosed
    /\ RootIsFound
    /\ NothingFoundYet

-----------------------------------------------------------------------------
(* Lemmas about the operators *)

\* A query has a route, a root among the objects and numbers for its page.
LEMMA QueryType ==
  ASSUME NEW q \in Queries
  PROVE  q.root \in Objects /\ q.first \in Nat /\ q.limit \in Nat /\ q.limit > 0
  BY ReadsAssumption DEF Query

\* So has the query there is before one is made, if there is an object at all.
LEMMA NoQueryNumbers == NoQuery.first \in Nat /\ NoQuery.limit \in Nat /\ NoQuery.route = "page"
  BY DEF NoQuery

\* The query of a reachable state has a route.
LEMMA RouteOfQuery ==
  ASSUME TypeOK
  PROVE  query.route \in Routes
  BY ReadsAssumption, NoQueryNumbers DEF TypeOK, Query, Routes

\* More rows never make a smaller page.
LEMMA PageSizeGrows ==
  ASSUME NEW q \in Queries, NEW m \in Nat, NEW n \in Nat, m <= n
  PROVE  PageSize(q, m) \in Nat /\ PageSize(q, m) <= PageSize(q, n)
  BY QueryType DEF PageSize

\* Sets of rows are finite, and a smaller one has no more rows.
LEMMA RowsAreFinite ==
  ASSUME NEW S \in SUBSET Rows, NEW T \in SUBSET S
  PROVE  /\ IsFiniteSet(S) /\ Cardinality(S) \in Nat
         /\ IsFiniteSet(T) /\ Cardinality(T) \in Nat /\ Cardinality(T) <= Cardinality(S)
  <1>1. IsFiniteSet(1 .. MaxRows) /\ IsFiniteSet(Items)
    BY ReadsAssumption, FS_Interval
  <1>2. IsFiniteSet(Rows)
    BY <1>1, FS_Product DEF Rows
  <1>3. IsFiniteSet(S) /\ IsFiniteSet(T)
    BY <1>2, FS_Subset
  <1> QED
    BY <1>3, FS_Subset, FS_CardinalityType

\* The one row of an object is a row.
LEMMA OneRowOfEach ==
  ASSUME NEW S \in SUBSET Objects
  PROVE  OneRow(S) \in SUBSET Rows
  BY ReadsAssumption DEF OneRow, Rows, Items

\* What a query asks for are rows, of an index or of a table.
LEMMA WantedAreRows ==
  ASSUME objects \in SUBSET Objects, matching \in SUBSET Objects, NEW q, q.route \in Routes
  PROVE  Wanted(q) \in SUBSET Rows
  <1>1. /\ OneRow(objects \cap {q.root}) \in SUBSET Rows
        /\ OneRow(matching) \in SUBSET Rows
        /\ OneRow(matching \ q.excluded) \in SUBSET Rows
    BY OneRowOfEach
  <1>2. Candidates(q) \in SUBSET Rows
    BY <1>1 DEF Candidates, Routes
  <1> QED
    BY <1>2 DEF Wanted

-----------------------------------------------------------------------------
(* What is within reach *)

\* A set of natural numbers has a least one: the order is well-founded.
LEMMA LeastNatural ==
  ASSUME NEW T \in SUBSET Nat, T # {}
  PROVE  \E m \in T : \A n \in T : m <= n
  <1> DEFINE R == OpToRel(<, Nat)
  <1>1. IsWellFoundedOn(R, Nat)
    BY NatLessThanWellFounded
  <1>2. \A a, b \in Nat : a < b => <<a, b>> \in R
    BY DEF OpToRel
  <1> HIDE DEF R
  <1>3. \E m \in T : \A n \in T : ~(<<n, m>> \in R)
    BY <1>1, WFMin
  <1>4. PICK m \in T : \A n \in T : ~(<<n, m>> \in R)
    BY <1>3
  <1>5. ASSUME NEW n \in T
        PROVE  m <= n
    <2>1. ~ (n < m)
      BY <1>2, <1>4
    <2>2. n \in Nat /\ m \in Nat
      OBVIOUS
    <2> QED
      BY <2>1, <2>2
  <1> QED
    BY <1>4, <1>5

\* Induction, on a set of numbers.
LEMMA AllNaturals ==
  ASSUME NEW T, 0 \in T, \A n \in Nat : n \in T => n + 1 \in T
  PROVE  \A n \in Nat : n \in T
  <1> SUFFICES ASSUME NEW k \in Nat, k \notin T PROVE FALSE
    OBVIOUS
  <1> DEFINE U == {n \in Nat : n \notin T}
  <1>1. U \in SUBSET Nat /\ U # {}
    OBVIOUS
  <1> HIDE DEF U
  <1>2. PICK m \in U : \A n \in U : m <= n
    BY <1>1, LeastNatural
  <1> USE DEF U
  <1>3. m \in Nat /\ m # 0 /\ m \notin T
    BY <1>2
  <1>4. m - 1 \in Nat /\ (m - 1) + 1 = m
    BY <1>3
  <1>5. m - 1 \in T
    BY <1>2, <1>4
  <1> QED
    BY <1>3, <1>4, <1>5

\* f has what is within k links of o, for every k up to n.
IsReach(ls, o, n, f) == f = [k \in 0 .. n |-> IF k = 0 THEN {o} ELSE Further(ls, f[k - 1])]

LEMMA ReachExists ==
  ASSUME NEW ls, NEW o, NEW n \in Nat
  PROVE  \E f : IsReach(ls, o, n, f)
  <1> DEFINE T == {m \in Nat : \E f : IsReach(ls, o, m, f)}
  <1>1. 0 \in T
    <2> DEFINE f == [k \in 0 .. 0 |-> {o}]
    <2>1. f = [k \in 0 .. 0 |-> IF k = 0 THEN {o} ELSE Further(ls, f[k - 1])]
      OBVIOUS
    <2>2. IsReach(ls, o, 0, f)
      BY <2>1 DEF IsReach
    <2> QED
      BY <2>2
  <1>2. ASSUME NEW m \in Nat, m \in T
        PROVE  m + 1 \in T
    <2>1. PICK f : IsReach(ls, o, m, f)
      BY <1>2
    <2> DEFINE g == [k \in 0 .. m + 1 |-> IF k = 0 THEN {o} ELSE Further(ls, f[k - 1])]
    <2>2. \A k \in 0 .. m : f[k] = IF k = 0 THEN {o} ELSE Further(ls, f[k - 1])
      BY <2>1 DEF IsReach
    <2>3. \A k \in 0 .. m + 1 : g[k] = IF k = 0 THEN {o} ELSE Further(ls, f[k - 1])
      OBVIOUS
    <2>4. ASSUME NEW k \in 0 .. m + 1, k # 0
          PROVE  g[k - 1] = f[k - 1]
      <3>1. k - 1 \in 0 .. m /\ k - 1 \in 0 .. m + 1
        BY <2>4
      <3> HIDE DEF g
      <3> QED
        BY <2>2, <2>3, <3>1
    <2>5. g = [k \in 0 .. m + 1 |-> IF k = 0 THEN {o} ELSE Further(ls, g[k - 1])]
      BY <2>4
    <2>6. IsReach(ls, o, m + 1, g)
      BY <2>5 DEF IsReach
    <2> QED
      BY <2>6
  <1> HIDE DEF T
  <1>3. n \in T
    BY <1>1, <1>2, AllNaturals
  <1> QED
    BY <1>3 DEF T

\* All such functions agree.
LEMMA ReachIsUnique ==
  ASSUME NEW ls, NEW o, NEW m \in Nat, NEW n \in Nat, NEW f, NEW g, IsReach(ls, o, m, f), IsReach(ls, o, n, g)
  PROVE  \A k \in Nat : k <= m /\ k <= n => f[k] = g[k]
  <1> DEFINE T == {k \in Nat : k <= m /\ k <= n => f[k] = g[k]}
  <1>1. /\ \A k \in 0 .. m : f[k] = IF k = 0 THEN {o} ELSE Further(ls, f[k - 1])
        /\ \A k \in 0 .. n : g[k] = IF k = 0 THEN {o} ELSE Further(ls, g[k - 1])
    BY DEF IsReach
  <1>2. 0 \in T
    BY <1>1
  <1>3. ASSUME NEW k \in Nat, k \in T
        PROVE  k + 1 \in T
    <2>1. CASE k + 1 <= m /\ k + 1 <= n
      <3>1. f[k] = g[k] /\ k + 1 \in 0 .. m /\ k + 1 \in 0 .. n /\ k + 1 # 0 /\ (k + 1) - 1 = k
        BY <1>3, <2>1
      <3> QED
        BY <1>1, <3>1
    <2> QED
      BY <2>1
  <1> HIDE DEF T
  <1>4. \A k \in Nat : k \in T
    BY <1>2, <1>3, AllNaturals
  <1> QED
    BY <1>4 DEF T

LEMMA WithinIsReached ==
  ASSUME NEW ls, NEW o, NEW n \in Nat
  PROVE  \E f : IsReach(ls, o, n, f) /\ Within(ls, o, n) = f[n]
  <1> DEFINE reach == CHOOSE f : f = [k \in 0 .. n |-> IF k = 0 THEN {o} ELSE Further(ls, f[k - 1])]
  <1>1. PICK f : IsReach(ls, o, n, f)
    BY ReachExists
  <1>2. f = [k \in 0 .. n |-> IF k = 0 THEN {o} ELSE Further(ls, f[k - 1])]
    BY <1>1 DEF IsReach
  <1>5. reach = [k \in 0 .. n |-> IF k = 0 THEN {o} ELSE Further(ls, reach[k - 1])]
    BY <1>2
  <1>3. Within(ls, o, n) = reach[n]
    BY DEF Within
  <1> HIDE DEF reach
  <1>4. IsReach(ls, o, n, reach)
    BY <1>5 DEF IsReach
  <1> QED
    BY <1>3, <1>4

\* What Within computes.
LEMMA WithinStep ==
  ASSUME NEW ls, NEW o, NEW n \in Nat
  PROVE  Within(ls, o, 0) = {o} /\ Within(ls, o, n + 1) = Further(ls, Within(ls, o, n))
  <1>1. PICK f : IsReach(ls, o, n, f) /\ Within(ls, o, n) = f[n]
    BY WithinIsReached
  <1>2. PICK g : IsReach(ls, o, n + 1, g) /\ Within(ls, o, n + 1) = g[n + 1]
    BY WithinIsReached
  <1>3. PICK h : IsReach(ls, o, 0, h) /\ Within(ls, o, 0) = h[0]
    BY WithinIsReached
  <1>4. h[0] = {o}
    BY <1>3 DEF IsReach
  <1>5. g[n + 1] = Further(ls, g[n])
    <2>1. n + 1 \in 0 .. n + 1 /\ n + 1 # 0 /\ (n + 1) - 1 = n
      OBVIOUS
    <2>2. \A k \in 0 .. n + 1 : g[k] = IF k = 0 THEN {o} ELSE Further(ls, g[k - 1])
      BY <1>2 DEF IsReach
    <2> QED
      BY <2>1, <2>2
  <1>6. g[n] = f[n]
    BY <1>1, <1>2, ReachIsUnique
  <1> QED
    BY <1>1, <1>2, <1>3, <1>4, <1>5, <1>6

\* It grows with the links and with the distance, and stays in a set closed under the links.
LEMMA WithinGrows ==
  ASSUME NEW ls, NEW ms, ls \subseteq ms, NEW o, NEW n \in Nat
  PROVE  Within(ls, o, n) \subseteq Within(ms, o, n)
  <1> DEFINE T == {k \in Nat : Within(ls, o, k) \subseteq Within(ms, o, k)}
  <1>1. 0 \in T
    BY WithinStep
  <1>2. ASSUME NEW k \in Nat, k \in T
        PROVE  k + 1 \in T
    <2>1. Within(ls, o, k + 1) = Further(ls, Within(ls, o, k)) /\ Within(ms, o, k + 1) = Further(ms, Within(ms, o, k))
      BY WithinStep
    <2>2. Further(ls, Within(ls, o, k)) \subseteq Further(ms, Within(ms, o, k))
      BY <1>2 DEF Further
    <2> QED
      BY <2>1, <2>2
  <1> HIDE DEF T
  <1>3. n \in T
    BY <1>1, <1>2, AllNaturals
  <1> QED
    BY <1>3 DEF T

LEMMA WithinFurther ==
  ASSUME NEW ls, NEW o, NEW m \in Nat, NEW n \in Nat, m <= n
  PROVE  Within(ls, o, m) \subseteq Within(ls, o, n)
  <1> DEFINE T == {k \in Nat : m <= k => Within(ls, o, m) \subseteq Within(ls, o, k)}
  <1>1. 0 \in T
    <2>1. m <= 0 => m = 0
      OBVIOUS
    <2> QED
      BY <2>1
  <1>2. ASSUME NEW k \in Nat, k \in T
        PROVE  k + 1 \in T
    <2>1. Within(ls, o, k) \subseteq Within(ls, o, k + 1)
      BY WithinStep DEF Further
    <2>2. m <= k + 1 => m <= k \/ m = k + 1
      OBVIOUS
    <2> QED
      BY <1>2, <2>1, <2>2
  <1> HIDE DEF T
  <1>3. n \in T
    BY <1>1, <1>2, AllNaturals
  <1> QED
    BY <1>3 DEF T

LEMMA WithinStays ==
  ASSUME NEW ls, NEW o, NEW S, o \in S, \A l \in ls : l[1] \in S => l[2] \in S, NEW n \in Nat
  PROVE  Within(ls, o, n) \subseteq S
  <1> DEFINE T == {k \in Nat : Within(ls, o, k) \subseteq S}
  <1>1. 0 \in T
    BY WithinStep
  <1>2. ASSUME NEW k \in Nat, k \in T
        PROVE  k + 1 \in T
    BY <1>2, WithinStep DEF Further
  <1> HIDE DEF T
  <1>3. n \in T
    BY <1>1, <1>2, AllNaturals
  <1> QED
    BY <1>3 DEF T

-----------------------------------------------------------------------------
(* Type correctness *)

\* The initial states have the types.
LEMMA InitTypeOK == Init => TypeOK
  BY ReadsAssumption DEF Init, TypeOK, Items

\* Every step of the request keeps them.
LEMMA RequestTypeOK ==
  ASSUME TypeOK, Start \/ Read
  PROVE  TypeOK'
  <1> USE DEF TypeOK, storeVars, hierarchyVars, pageVars, historyVars, Answer
  <1>1. CASE Start
    <2>1. PICK q \in Queries : Start!2!(q)
      BY <1>1 DEF Start
    <2>2. Wanted(q) \in SUBSET Rows
      BY WantedAreRows, ReadsAssumption DEF Query
    <2> QED
      BY <1>1, <2>1, <2>2 DEF Start
  <1>2. CASE ReadRoot
    BY <1>2, ReadsAssumption DEF ReadRoot, MoreToRead, Objects
  <1>3. CASE Descend
    <2> DEFINE new == {l[2] : l \in {k \in links : k[1] \in parents}}
    <2>1. new \in SUBSET Objects
      BY ReadsAssumption
    <2>2. /\ parents' \in SUBSET composite' /\ composite' \in SUBSET Composites
          /\ nonComposite' \in SUBSET Leaves
      BY <1>3, <2>1 DEF Descend, NextParents, Objects
    <2> QED
      BY <1>3, <2>2 DEF Descend
  <1>4. CASE ReadIds
    <2>1. page' \in SUBSET Rows
      BY <1>4, WantedAreRows, RouteOfQuery DEF ReadIds, PagesOf
    <2> QED
      BY <1>4, <2>1 DEF ReadIds
  <1>5. CASE Count
    <2>1. total' \in Nat
      BY <1>5, WantedAreRows, RouteOfQuery, RowsAreFinite DEF Count, Counted
    <2> QED
      BY <1>5, <2>1 DEF Count
  <1> QED
    BY <1>1, <1>2, <1>3, <1>4, <1>5 DEF Read

\* What the steps of others leave the committed tables like.
StoreTyped ==
    /\ objects \in SUBSET Objects /\ unused \in SUBSET Objects /\ objects \cap unused = {}
    /\ links \in SUBSET {l \in Links : {l[1], l[2]} \subseteq objects}
    /\ hidden \in SUBSET Items /\ matching \in SUBSET objects
    /\ indexed \in [Items -> 0 .. MaxRows] /\ \A o \in Objects \ objects : indexed[o] = 0

LEMMA ChangeStoreTyped ==
  ASSUME TypeOK, Change
  PROVE  StoreTyped'
  <1> USE DEF TypeOK, StoreTyped
  <1>1. ASSUME NEW o \in Objects, AddObject(o) PROVE StoreTyped'
    <2>1. PICK ls \in SUBSET {l \in Links : l[2] = o /\ l[1] \in objects} : links' = links \cup ls
      BY <1>1 DEF AddObject
    <2> QED
      BY <1>1, <2>1 DEF AddObject
  <1>2. ASSUME NEW o \in Objects, DeleteObject(o) PROVE StoreTyped'
    <2>1. /\ objects' = objects \ {o} /\ unused' = unused /\ links' = LinksWithout(o)
          /\ matching' = matching \ {o} /\ hidden' = hidden /\ indexed' = [indexed EXCEPT ![o] = 0]
      BY <1>2 DEF DeleteObject
    <2>2. links' \in SUBSET {l \in Links : {l[1], l[2]} \subseteq objects'}
      BY <2>1 DEF LinksWithout
    <2>3. indexed' \in [Items -> 0 .. MaxRows] /\ \A x \in Objects \ objects' : indexed'[x] = 0
      <3>1. 0 \in 0 .. MaxRows /\ o \in Items
        BY ReadsAssumption DEF Items
      <3>2. indexed' \in [Items -> 0 .. MaxRows] /\ indexed'[o] = 0
        BY <2>1, <3>1
      <3>3. ASSUME NEW x \in Objects \ objects', x # o PROVE indexed'[x] = 0
        BY <2>1, <3>3 DEF Items
      <3> QED
        BY <3>2, <3>3
    <2> QED
      BY <2>1, <2>2, <2>3
  <1>3. ASSUME NEW c \in Composites, Relink(c) PROVE StoreTyped'
    <2>1. PICK ls \in SUBSET {l \in Links : l[1] = c /\ l[2] \in objects} :
            links' = ls \cup {l \in links : l[1] # c}
      BY <1>3 DEF Relink
    <2> QED
      BY <1>3, <2>1 DEF Relink
  <1>4. ASSUME NEW i \in Items, ChangeItem(i) PROVE StoreTyped'
    <2>1. matching' \in SUBSET objects
      BY <1>4, ReadsAssumption DEF ChangeItem
    <2> QED
      BY <1>4, <2>1 DEF ChangeItem
  <1>5. ASSUME NEW i \in Items, Reindex(i) PROVE StoreTyped'
    <2>1. PICK n \in 0 .. MaxRows : indexed' = [indexed EXCEPT ![i] = n]
      BY <1>5 DEF Reindex
    <2>2. \A o \in Objects \ objects : o # i
      BY <1>5, ReadsAssumption DEF Reindex
    <2> QED
      BY <1>5, <2>1, <2>2 DEF Reindex, Items
  <1> QED
    BY <1>1, <1>2, <1>3, <1>4, <1>5 DEF Change

\* Every step of others is a commit.
LEMMA ChangeCommits == Change => Commits
  BY DEF Change, AddObject, DeleteObject, Relink, ChangeItem, Reindex

\* And keeps the types.
LEMMA ChangeTypeOK ==
  ASSUME TypeOK, Change
  PROVE  TypeOK'
  <1>1. StoreTyped' /\ Commits
    BY ChangeStoreTyped, ChangeCommits
  <1>2. Wanted(query)' \in SUBSET Rows
    <2>1. query'.route \in Routes
      BY <1>1, RouteOfQuery DEF Commits
    <2>2. objects' \in SUBSET Objects /\ matching' \in SUBSET Objects
      BY <1>1 DEF StoreTyped
    <2>3. /\ OneRow(objects' \cap {query'.root}) \in SUBSET Rows
          /\ OneRow(matching') \in SUBSET Rows
          /\ OneRow(matching' \ query'.excluded) \in SUBSET Rows
      BY <2>2, OneRowOfEach
    <2>4. Candidates(query)' \in SUBSET Rows
      BY <2>1, <2>3 DEF Candidates, Routes, OneRow
    <2> QED
      BY <2>4 DEF Wanted
  <1> QED
    BY <1>1, <1>2, ReadsAssumption DEF StoreTyped, Commits, TypeOK, hierarchyVars, pageVars

-----------------------------------------------------------------------------
(* The steps of the request *)

\* The request starts with histories that are exact.
LEMMA StartIInv ==
  ASSUME IInv, Start
  PROVE  IInv'
  <1> USE DEF storeVars, hierarchyVars, pageVars
  <1>1. PICK q \in Queries : Start!2!(q)
    BY DEF Start
  <1>2. TypeOK'
    BY RequestTypeOK DEF IInv
  <1>3. QueryShape'
    BY <1>1, QueryType DEF Start, QueryShape
  <1>4. WantedIsBracketed'
    <2>1. Wanted(query)' = Wanted(q)
      BY <1>1 DEF Start, Wanted, Candidates, OneRow, Visible
    <2> QED
      BY <1>1, <2>1 DEF WantedIsBracketed
  <1>5. pc' \in {"root", "ids"} /\ Found' = {} /\ parents' = {} /\ composite' = {}
    BY <1>1 DEF Start, IInv, NothingFoundYet, Found
  <1>6. CountedPageIsBracketed' /\ PagesAreBracketed' /\ RootIsFound' /\ NothingFoundYet'
    BY <1>5 DEF CountedPageIsBracketed, PagesAreBracketed, RootIsFound, NothingFoundYet
  <1>7. HierarchyIsReachable' /\ HierarchyIsClosed'
    BY <1>5 DEF HierarchyIsReachable, HierarchyIsClosed
  <1> QED
    BY <1>2, <1>3, <1>4, <1>6, <1>7 DEF IInv

\* The statements of a hierarchy.
LEMMA HierarchyIInv ==
  ASSUME IInv, ReadRoot \/ Descend
  PROVE  IInv'
  <1> USE DEF storeVars, hierarchyVars, pageVars, historyVars, Answer
  <1>1. TypeOK' /\ query' = query /\ query.route = "hierarchy" /\ query \in Queries
    BY RequestTypeOK DEF IInv, QueryShape, Read, ReadRoot, Descend
  <1>2. pc' \in {"descend", "done"}
    BY DEF ReadRoot, Descend
  <1>3. QueryShape'
    BY <1>1, <1>2 DEF IInv, QueryShape
  <1>4. WantedIsBracketed'
    <2>1. UNCHANGED <<pc = "new", query, alwaysRows, everRows, objects, hidden, matching, indexed>>
      BY DEF ReadRoot, Descend
    <2>2. Wanted(query)' = Wanted(query)
      BY <2>1 DEF Wanted, Candidates, OneRow, Visible
    <2> QED
      BY <2>1, <2>2 DEF IInv, WantedIsBracketed
  <1>5. CountedPageIsBracketed' /\ PagesAreBracketed' /\ NothingFoundYet'
    BY <1>1, <1>2 DEF CountedPageIsBracketed, PagesAreBracketed, NothingFoundYet
  <1>6. HierarchyIsReachable' /\ HierarchyIsClosed' /\ RootIsFound'
    <2>1. CASE ReadRoot /\ composite' = composite
      BY <2>1, <1>1 DEF IInv, ReadRoot, NothingFoundYet, Found, HierarchyIsReachable, HierarchyIsClosed, RootIsFound
    <2>2. CASE ReadRoot /\ composite' # composite
      <3>1. composite' = {query.root} /\ parents' = {query.root} /\ nonComposite' = nonComposite
        BY <2>2 DEF ReadRoot
      <3>2. nonComposite = {}
        BY <2>2 DEF IInv, NothingFoundYet, Found, ReadRoot
      <3> QED
        BY <1>1, <3>1, <3>2 DEF Found, HierarchyIsReachable, HierarchyIsClosed, RootIsFound
    <2>3. CASE Descend
      <3> DEFINE new == {l[2] : l \in {k \in links : k[1] \in parents}}
      <3>1. /\ nonComposite' = nonComposite \cup (new \ Composites)
            /\ parents' = (new \cap Composites) \ composite
            /\ composite' = composite \cup parents'
            /\ UNCHANGED <<links, alwaysLinks, everLinks>>
        BY <2>3 DEF Descend, NextParents
      <3>2. Found' = Found \cup new
        BY <3>1 DEF Found
      <3>3. alwaysLinks \subseteq links /\ links \subseteq everLinks /\ parents \subseteq composite
        BY DEF IInv, TypeOK
      <3>4. HierarchyIsReachable'
        <4> SUFFICES ASSUME NEW S \in SUBSET Objects, query.root \in S,
                            \A l \in everLinks : l[1] \in S => l[2] \in S
                     PROVE  Found' \subseteq S
          BY <1>1, <3>1 DEF HierarchyIsReachable
        <4>1. Found \subseteq S
          BY DEF IInv, HierarchyIsReachable
        <4>2. new \subseteq S
          BY <3>3, <4>1 DEF Found
        <4> QED
          BY <3>2, <4>1, <4>2
      <3>5. HierarchyIsClosed'
        <4> SUFFICES ASSUME NEW l \in alwaysLinks, l[1] \in composite' \ parents'
                     PROVE  l[2] \in Found'
          BY <3>1 DEF HierarchyIsClosed
        <4>1. l[1] \in composite
          BY <3>1
        <4>2. CASE l[1] \in parents
          BY <3>2, <3>3, <4>2
        <4>3. CASE l[1] \notin parents
          BY <3>2, <4>1, <4>3 DEF IInv, HierarchyIsClosed
        <4> QED
          BY <4>2, <4>3
      <3>6. RootIsFound'
        BY <2>3, <1>1, <3>1 DEF IInv, RootIsFound, Descend
      <3> QED
        BY <3>4, <3>5, <3>6
    <2> QED
      BY <2>1, <2>2, <2>3
  <1> QED
    BY <1>1, <1>3, <1>4, <1>5, <1>6 DEF IInv

\* Of the sets a page may be, each is bracketed by the histories.
LEMMA PagesBracketed ==
  ASSUME IInv, pc # "new", NEW p \in PagesOf(query, Wanted(query))
  PROVE  /\ p \subseteq everRows
         /\ PageSize(query, Cardinality(alwaysRows)) <= Cardinality(p)
         /\ Cardinality(p) <= PageSize(query, Cardinality(everRows))
  <1>1. query \in Queries /\ alwaysRows \subseteq Wanted(query) /\ Wanted(query) \subseteq everRows
    BY DEF IInv, QueryShape, WantedIsBracketed
  <1>2. everRows \in SUBSET Rows
    BY DEF IInv, TypeOK
  <1>3. /\ Cardinality(alwaysRows) \in Nat /\ Cardinality(Wanted(query)) \in Nat
        /\ Cardinality(everRows) \in Nat
        /\ Cardinality(alwaysRows) <= Cardinality(Wanted(query))
        /\ Cardinality(Wanted(query)) <= Cardinality(everRows)
    BY <1>1, <1>2, RowsAreFinite
  <1>4. p \subseteq Wanted(query) /\ Cardinality(p) = PageSize(query, Cardinality(Wanted(query)))
    BY DEF PagesOf
  <1> QED
    BY <1>1, <1>3, <1>4, PageSizeGrows

\* The statements of a page and of a search.
LEMMA PageIInv ==
  ASSUME IInv, ReadIds \/ Count
  PROVE  IInv'
  <1> USE DEF storeVars, hierarchyVars, pageVars, historyVars, Answer
  <1>1. TypeOK' /\ query' = query /\ query.route # "hierarchy" /\ query \in Queries
    BY RequestTypeOK DEF IInv, QueryShape, Read, ReadIds, Count
  <1>2. WantedIsBracketed'
    <2>1. UNCHANGED <<pc = "new", query, alwaysRows, everRows, objects, hidden, matching, indexed>>
      BY DEF ReadIds, Count
    <2>2. Wanted(query)' = Wanted(query)
      BY <2>1 DEF Wanted, Candidates, OneRow, Visible
    <2> QED
      BY <2>1, <2>2 DEF IInv, WantedIsBracketed
  <1>3. HierarchyIsReachable' /\ HierarchyIsClosed'
    BY DEF IInv, HierarchyIsReachable, HierarchyIsClosed, Found, ReadIds, Count
  <1>4. RootIsFound' /\ NothingFoundYet'
    BY <1>1 DEF RootIsFound, NothingFoundYet, ReadIds, Count
  <1>5. CASE ReadIds
    <2>1. PageIsBracketed'
      BY <1>1, <1>5, PagesBracketed DEF ReadIds, PageIsBracketed, PageSize
    <2>2. QueryShape'
      BY <1>1, <1>5, ReadsAssumption DEF ReadIds, QueryShape, Query, Routes
    <2>3. CountedPageIsBracketed'
      BY <2>1 DEF CountedPageIsBracketed
    <2>4. pc' = "done" => /\ answer' \in {200, 404} /\ (answer' = 404 <=> page' = {})
                          /\ answer' = 200 => query.route = "search"
      BY <1>5 DEF ReadIds
    <2>5. PagesAreBracketed'
      BY <1>1, <2>1, <2>4 DEF PagesAreBracketed, PageIsBracketed
    <2> QED
      BY <1>1, <1>2, <1>3, <1>4, <2>2, <2>3, <2>5 DEF IInv
  <1>6. CASE Count
    <2>1. PageIsBracketed'
      BY <1>6 DEF IInv, Count, CountedPageIsBracketed, PageIsBracketed, PageSize
    <2>2. QueryShape' /\ CountedPageIsBracketed'
      BY <1>1, <1>6 DEF Count, QueryShape, CountedPageIsBracketed
    <2>3. Cardinality(alwaysRows) <= total' /\ total' <= Cardinality(everRows)
      <3>1. alwaysRows \subseteq Wanted(query) /\ Wanted(query) \subseteq everRows
        BY <1>6 DEF IInv, WantedIsBracketed, Count
      <3>2. everRows \in SUBSET Rows
        BY DEF IInv, TypeOK
      <3> QED
        BY <1>6, <3>1, <3>2, RowsAreFinite DEF Count, Counted
    <2>4. answer' = 404 <=> page' = {}
      BY <1>6 DEF Count
    <2>5. PagesAreBracketed'
      BY <1>6, <2>1, <2>3, <2>4 DEF PagesAreBracketed, PageIsBracketed, Count
    <2> QED
      BY <1>1, <1>2, <1>3, <1>4, <2>2, <2>5 DEF IInv
  <1> QED
    BY <1>5, <1>6

-----------------------------------------------------------------------------
(* The steps of others *)

\* Whatever others commit, the brackets only widen.
LEMMA ChangeIInv ==
  ASSUME IInv, Change
  PROVE  IInv'
  <1> USE DEF hierarchyVars, pageVars
  <1>1. TypeOK /\ TypeOK'
    BY ChangeTypeOK DEF IInv
  <1>2. Commits
    BY ChangeCommits
  <1>3. UNCHANGED <<pc, query, answer, depth, parents, composite, nonComposite, page, total>>
    BY <1>2 DEF Commits
  <1>4. QueryShape' /\ RootIsFound' /\ NothingFoundYet'
    BY <1>3 DEF IInv, QueryShape, RootIsFound, NothingFoundYet, Found
  <1>5. pc # "new" => /\ alwaysRows' \subseteq alwaysRows /\ alwaysRows' \subseteq Wanted(query)'
                      /\ everRows \subseteq everRows' /\ Wanted(query)' \subseteq everRows'
    BY <1>2 DEF Commits
  <1>6. WantedIsBracketed'
    BY <1>3, <1>5 DEF WantedIsBracketed
  <1>7. ASSUME pc # "new"
        PROVE  /\ Cardinality(alwaysRows) \in Nat /\ Cardinality(alwaysRows') \in Nat
               /\ Cardinality(everRows) \in Nat /\ Cardinality(everRows') \in Nat
               /\ Cardinality(alwaysRows') <= Cardinality(alwaysRows)
               /\ Cardinality(everRows) <= Cardinality(everRows')
    <2>1. alwaysRows \in SUBSET Rows /\ everRows' \in SUBSET Rows
      BY <1>1 DEF TypeOK
    <2> QED
      BY <1>5, <1>7, <2>1, RowsAreFinite
  <1>8. pc # "new" => Cardinality(page) \in Nat /\ query \in Queries
    <2>1. page \in SUBSET Rows
      BY <1>1 DEF TypeOK
    <2> QED
      BY <2>1, RowsAreFinite DEF IInv, QueryShape
  <1>9. pc # "new" /\ PageIsBracketed => PageIsBracketed'
    <2> SUFFICES ASSUME pc # "new", PageIsBracketed PROVE PageIsBracketed'
      OBVIOUS
    <2>1. PageSize(query, Cardinality(alwaysRows')) \in Nat
          /\ PageSize(query, Cardinality(alwaysRows)) \in Nat
          /\ PageSize(query, Cardinality(everRows)) \in Nat
          /\ PageSize(query, Cardinality(everRows')) \in Nat
          /\ PageSize(query, Cardinality(alwaysRows')) <= PageSize(query, Cardinality(alwaysRows))
          /\ PageSize(query, Cardinality(everRows)) <= PageSize(query, Cardinality(everRows'))
      BY <1>7, <1>8, PageSizeGrows
    <2>2. page' = page /\ query' = query
      BY <1>3
    <2>3. page' \subseteq everRows'
      BY <1>5, <2>2 DEF PageIsBracketed
    <2>4. PageSize(query, Cardinality(alwaysRows))' = PageSize(query, Cardinality(alwaysRows'))
          /\ PageSize(query, Cardinality(everRows))' = PageSize(query, Cardinality(everRows'))
      BY <2>2 DEF PageSize
    <2> QED
      BY <1>8, <2>1, <2>2, <2>3, <2>4 DEF PageIsBracketed
  <1>10. CountedPageIsBracketed'
    BY <1>3, <1>9 DEF IInv, CountedPageIsBracketed
  <1>11. PagesAreBracketed'
    <2> SUFFICES ASSUME pc = "done", query.route # "hierarchy"
                 PROVE  PagesAreBracketed'
      BY <1>3 DEF PagesAreBracketed
    <2>1. PagesAreBracketed /\ PageIsBracketed
      BY DEF IInv, PagesAreBracketed, PageIsBracketed
    <2>2. PageIsBracketed'
      BY <1>9, <2>1
    <2>3. total \in Nat
      BY <1>1 DEF TypeOK
    <2>4. query.route \in {"page", "global"} /\ answer = 200 =>
            Cardinality(alwaysRows') <= total /\ total <= Cardinality(everRows')
      BY <1>7, <2>1, <2>3 DEF PagesAreBracketed
    <2>5. answer = 404 <=> page = {}
      BY <2>1 DEF PagesAreBracketed
    <2> QED
      BY <1>3, <2>2, <2>4, <2>5 DEF PagesAreBracketed, PageIsBracketed
  <1>12. HierarchyIsReachable'
    <2>1. everLinks \subseteq everLinks'
      BY <1>2 DEF Commits
    <2> QED
      BY <1>3, <2>1 DEF IInv, HierarchyIsReachable, Found
  <1>13. HierarchyIsClosed'
    <2>1. alwaysLinks' \subseteq alwaysLinks
      BY <1>2 DEF Commits
    <2> QED
      BY <1>3, <2>1 DEF IInv, HierarchyIsClosed, Found
  <1> QED
    BY <1>1, <1>4, <1>6, <1>10, <1>11, <1>12, <1>13 DEF IInv

-----------------------------------------------------------------------------
(* The theorems *)

\* The invariant holds at the start, when nothing was asked.
LEMMA InitIInv == Init => IInv
  <1> SUFFICES ASSUME Init PROVE IInv
    OBVIOUS
  <1>1. TypeOK
    BY InitTypeOK
  <1>2. pc = "new" /\ composite = {} /\ nonComposite = {} /\ parents = {}
    BY DEF Init
  <1> QED
    BY <1>1, <1>2
       DEF IInv, QueryShape, WantedIsBracketed, CountedPageIsBracketed, PagesAreBracketed,
           HierarchyIsReachable, HierarchyIsClosed, RootIsFound, NothingFoundYet, Found

\* Steps that change nothing keep it.
LEMMA StutterIInv == IInv /\ UNCHANGED vars => IInv'
  <1> SUFFICES ASSUME IInv, UNCHANGED vars PROVE IInv'
    OBVIOUS
  <1> USE DEF vars, storeVars, hierarchyVars, pageVars, historyVars
  <1>1. TypeOK'
    BY DEF IInv, TypeOK
  <1>2. (QueryShape /\ RootIsFound /\ NothingFoundYet)'
    BY DEF IInv, QueryShape, RootIsFound, NothingFoundYet, Found
  <1>3. WantedIsBracketed'
    BY DEF IInv, WantedIsBracketed, Wanted, Candidates, OneRow, Visible
  <1>4. CountedPageIsBracketed'
    BY DEF IInv, CountedPageIsBracketed, PageIsBracketed, PageSize
  <1>5. PagesAreBracketed'
    BY DEF IInv, PagesAreBracketed, PageSize
  <1>6. (HierarchyIsReachable /\ HierarchyIsClosed)'
    BY DEF IInv, HierarchyIsReachable, HierarchyIsClosed, Found
  <1> QED
    BY <1>1, <1>2, <1>3, <1>4, <1>5, <1>6 DEF IInv

\* The invariant of every behaviour of a reading request among the transactions of others.
THEOREM InductiveInvariant == Spec => []IInv
  <1>1. Init => IInv
    BY InitIInv
  <1>2. IInv /\ [Next]_vars => IInv'
    BY StartIInv, HierarchyIInv, PageIInv, ChangeIInv, StutterIInv DEF Next, Read, Finished
  <1> QED
    BY <1>1, <1>2, PTL DEF Spec

\* Every variable keeps its type.
THEOREM TypeCorrect == Spec => []TypeOK
  <1>1. IInv => TypeOK
    BY DEF IInv
  <1> QED
    BY <1>1, InductiveInvariant, PTL

\* A page, its size and its total are bracketed, however many transactions commit between
\* its statements.
THEOREM PagesHold == Spec => []PagesAreBracketed
  <1>1. IInv => PagesAreBracketed
    BY DEF IInv
  <1> QED
    BY <1>1, InductiveInvariant, PTL

\* What a hierarchy holds was connected to its root: it lies in every set of objects that
\* holds the root and is closed under the links that existed during the request.  A
\* hierarchy that is answered holds its root, and if the search ended because no composite
\* was left to read, everything that links which were there throughout lead to.
THEOREM HierarchyIsSound ==
  Spec => [](/\ HierarchyIsReachable /\ RootIsFound
             /\ parents = {} => \A l \in alwaysLinks : l[1] \in composite => l[2] \in Found)
  <1>1. IInv => /\ HierarchyIsReachable /\ RootIsFound
                /\ parents = {} => \A l \in alwaysLinks : l[1] \in composite => l[2] \in Found
    BY DEF IInv, HierarchyIsClosed
  <1> QED
    BY <1>1, InductiveInvariant, PTL

-----------------------------------------------------------------------------
(* The levels of a hierarchy *)

\* A statement adds what the links of this moment lead to, one link further.
LEMMA DescendFinds ==
  ASSUME IInv, Descend
  PROVE  /\ Further(alwaysLinks, Found) \subseteq Found'
         /\ Found' \subseteq Further(everLinks, Found)
  <1> DEFINE new == {l[2] : l \in {k \in links : k[1] \in parents}}
  <1>1. /\ nonComposite' = nonComposite \cup (new \ Composites)
        /\ composite' = composite \cup ((new \cap Composites) \ composite)
    BY DEF Descend, NextParents
  <1>2. Found' = Found \cup new
    BY <1>1 DEF Found
  <1>3. /\ alwaysLinks \subseteq links /\ links \subseteq everLinks /\ parents \subseteq composite
        /\ alwaysLinks \subseteq Links /\ nonComposite \subseteq Leaves
    BY DEF IInv, TypeOK
  <1>4. ASSUME NEW l \in alwaysLinks, l[1] \in Found
        PROVE  l[2] \in Found'
    <2>1. l[1] \in composite
      BY <1>3, <1>4, ReadsAssumption DEF Found
    <2>2. CASE l[1] \in parents
      BY <1>2, <1>3, <2>2
    <2>3. CASE l[1] \notin parents
      BY <1>2, <2>1, <2>3 DEF IInv, HierarchyIsClosed
    <2> QED
      BY <2>2, <2>3
  <1>5. new \subseteq Further(everLinks, Found)
    BY <1>3 DEF Further, Found
  <1> QED
    BY <1>2, <1>4, <1>5 DEF Further

LEMMA DescendLevels ==
  ASSUME IInv, LevelsInv, Descend
  PROVE  LevelsInv'
  <1> USE DEF Answer
  <1>1. /\ pc = "descend" /\ depth' = depth + 1 /\ UNCHANGED <<storeVars, query, pageVars, historyVars>>
        /\ IF MoreToRead(parents', depth') THEN UNCHANGED <<pc, answer>> ELSE pc' = "done" /\ answer' = 200
    BY DEF Descend
  <1>2. depth \in Nat \ {0} /\ MaxDepth \in Nat /\ depth < MaxDepth
    BY <1>1, ReadsAssumption DEF IInv, TypeOK, LevelsInv, DepthIsBounded
  <1>3. DepthIsBounded' /\ SearchIsOver' /\ RefusalsAreRight'
    BY <1>1, <1>2 DEF DepthIsBounded, SearchIsOver, RefusalsAreRight, HierarchyIsAnswered, MoreToRead
  <1>4. /\ Within(alwaysLinks, query.root, depth - 1) \subseteq Found
        /\ Found \subseteq Within(everLinks, query.root, depth - 1)
        /\ <<query.root, 1>> \in everRows
    BY <1>1 DEF LevelsInv, LevelsAreBracketed
  <1>5. /\ Within(alwaysLinks, query.root, depth) = Further(alwaysLinks, Within(alwaysLinks, query.root, depth - 1))
        /\ Within(everLinks, query.root, depth) = Further(everLinks, Within(everLinks, query.root, depth - 1))
    <2>1. depth - 1 \in Nat /\ (depth - 1) + 1 = depth
      BY <1>2
    <2> QED
      BY <2>1, WithinStep
  <1>6. /\ Further(alwaysLinks, Within(alwaysLinks, query.root, depth - 1)) \subseteq Further(alwaysLinks, Found)
        /\ Further(everLinks, Found) \subseteq Further(everLinks, Within(everLinks, query.root, depth - 1))
    BY <1>4 DEF Further
  <1>7. /\ Within(alwaysLinks, query.root, depth) \subseteq Found'
        /\ Found' \subseteq Within(everLinks, query.root, depth)
    BY <1>5, <1>6, DescendFinds
  <1>8. depth' - 1 = depth /\ query' = query /\ alwaysLinks' = alwaysLinks /\ everLinks' = everLinks /\ everRows' = everRows
    BY <1>1, <1>2 DEF historyVars
  <1>9. LevelsAreBracketed'
    BY <1>4, <1>7, <1>8 DEF LevelsAreBracketed
  <1> QED
    BY <1>3, <1>9 DEF LevelsInv

LEMMA RootLevels ==
  ASSUME IInv, LevelsInv, ReadRoot
  PROVE  LevelsInv'
  <1> USE DEF Answer
  <1>1. /\ pc = "root" /\ query.route = "hierarchy" /\ query \in Queries
        /\ UNCHANGED <<storeVars, query, pageVars, historyVars>>
    BY DEF ReadRoot, IInv, QueryShape
  <1>2. /\ composite = {} /\ nonComposite = {} /\ depth = 1 /\ MaxDepth \in Nat /\ MaxDepth >= 1
        /\ alwaysRows \subseteq Wanted(query) /\ Wanted(query) \subseteq everRows
    BY <1>1, ReadsAssumption DEF IInv, NothingFoundYet, Found, WantedIsBracketed, LevelsInv, DepthIsBounded
  <1>3. depth' = depth /\ alwaysRows' = alwaysRows /\ everRows' = everRows /\ query' = query
        /\ alwaysLinks' = alwaysLinks /\ everLinks' = everLinks
    BY DEF ReadRoot, hierarchyVars, historyVars
  <1>4. CASE <<query.root, 1>> \notin Wanted(query)
    BY <1>1, <1>2, <1>3, <1>4
       DEF ReadRoot, LevelsInv, DepthIsBounded, LevelsAreBracketed, SearchIsOver, RefusalsAreRight, HierarchyIsAnswered
  <1>5. CASE <<query.root, 1>> \in Wanted(query) /\ query.root \notin Composites
    <2>1. query.root \in Leaves
      BY <1>1, <1>5, QueryType DEF Objects
    <2> QED
      BY <1>1, <1>2, <1>3, <1>5, <2>1
         DEF ReadRoot, LevelsInv, DepthIsBounded, LevelsAreBracketed, SearchIsOver, RefusalsAreRight, HierarchyIsAnswered
  <1>6. CASE <<query.root, 1>> \in Wanted(query) /\ query.root \in Composites
    <2>1. /\ parents' = {query.root} /\ composite' = {query.root} /\ nonComposite' = nonComposite
          /\ IF MoreToRead(parents', depth) THEN pc' = "descend" /\ answer' = answer ELSE pc' = "done" /\ answer' = 200
      BY <1>6 DEF ReadRoot
    <2>2. Found' = {query.root}
      BY <1>2, <2>1 DEF Found
    <2>3. \A ls : Within(ls, query.root, 0) = {query.root}
      BY WithinStep
    <2>4. LevelsAreBracketed'
      <3>1. depth' - 1 = 0
        BY <1>2, <1>3
      <3> QED
        BY <1>2, <1>3, <1>6, <2>2, <2>3, <3>1 DEF LevelsAreBracketed
    <2> QED
      BY <1>1, <1>2, <1>3, <2>1, <2>4
         DEF LevelsInv, DepthIsBounded, SearchIsOver, RefusalsAreRight, HierarchyIsAnswered, MoreToRead
  <1> QED
    BY <1>4, <1>5, <1>6

\* Others widen the brackets.
LEMMA ChangeLevels ==
  ASSUME IInv, LevelsInv, Change
  PROVE  LevelsInv'
  <1>1. Commits
    BY ChangeCommits
  <1>2. /\ UNCHANGED <<pc, query, answer, depth, parents, composite, nonComposite>>
        /\ alwaysLinks' \subseteq alwaysLinks /\ everLinks \subseteq everLinks'
        /\ alwaysRows' \subseteq alwaysRows /\ everRows \subseteq everRows'
    BY <1>1 DEF Commits, hierarchyVars
  <1>3. Found' = Found /\ depth - 1 \in Nat
    BY <1>2 DEF Found, IInv, TypeOK
  <1>4. /\ Within(alwaysLinks', query.root, depth - 1) \subseteq Within(alwaysLinks, query.root, depth - 1)
        /\ Within(everLinks, query.root, depth - 1) \subseteq Within(everLinks', query.root, depth - 1)
    BY <1>2, <1>3, WithinGrows
  <1>5. LevelsAreBracketed'
    BY <1>2, <1>3, <1>4 DEF LevelsInv, LevelsAreBracketed, HierarchyIsAnswered
  <1> QED
    BY <1>2, <1>5 DEF LevelsInv, DepthIsBounded, SearchIsOver, RefusalsAreRight, HierarchyIsAnswered

LEMMA LevelsHold == IInv /\ LevelsInv /\ [Next]_vars => LevelsInv'
  <1> SUFFICES ASSUME IInv, LevelsInv, [Next]_vars PROVE LevelsInv'
    OBVIOUS
  <1> USE DEF storeVars, hierarchyVars, pageVars, historyVars, Answer
  <1>1. CASE Start
    BY <1>1 DEF Start, LevelsInv, DepthIsBounded, LevelsAreBracketed, SearchIsOver, RefusalsAreRight, HierarchyIsAnswered
  <1>2. CASE ReadIds \/ Count
    <2>1. query' = query /\ query.route # "hierarchy" /\ pc' \in {"count", "done"} /\ depth' = depth /\ depth = 1
      BY <1>2 DEF ReadIds, Count, IInv, QueryShape, LevelsInv, DepthIsBounded
    <2> QED
      BY <2>1 DEF LevelsInv, DepthIsBounded, LevelsAreBracketed, SearchIsOver, RefusalsAreRight, HierarchyIsAnswered
  <1>3. CASE UNCHANGED vars
    BY <1>3 DEF vars, LevelsInv, DepthIsBounded, LevelsAreBracketed, SearchIsOver, RefusalsAreRight, HierarchyIsAnswered, Found
  <1> QED
    BY <1>1, <1>2, <1>3, RootLevels, DescendLevels, ChangeLevels DEF Next, Read, Finished

\* A hierarchy that is answered holds every object that was within the depth of the setting
\* throughout the request, and only objects that were at some moments; one that is refused
\* was not visible at some moment, or is no composite (view_composite_hierarchy).
THEOREM HierarchyHolds == Spec => []HierarchyIsBracketed
  <1>1. Init => LevelsInv
    BY ReadsAssumption DEF Init, LevelsInv, DepthIsBounded, LevelsAreBracketed, SearchIsOver, RefusalsAreRight, HierarchyIsAnswered
  <1>2. Spec => []LevelsInv
    BY <1>1, LevelsHold, InductiveInvariant, PTL DEF Spec
  <1>3. ASSUME IInv, LevelsInv, HierarchyIsAnswered
        PROVE  /\ Within(alwaysLinks, query.root, MaxDepth - 1) \subseteq Found
               /\ Found \subseteq Within(everLinks, query.root, MaxDepth - 1)
               /\ <<query.root, 1>> \in everRows
    <2>1. /\ depth - 1 \in Nat /\ MaxDepth - 1 \in Nat /\ depth - 1 <= MaxDepth - 1
      BY <1>3, ReadsAssumption DEF IInv, TypeOK, LevelsInv, DepthIsBounded
    <2>2. /\ Within(alwaysLinks, query.root, depth - 1) \subseteq Found
          /\ Found \subseteq Within(everLinks, query.root, depth - 1)
          /\ <<query.root, 1>> \in everRows
      BY <1>3 DEF LevelsInv, LevelsAreBracketed
    <2>3. Within(everLinks, query.root, depth - 1) \subseteq Within(everLinks, query.root, MaxDepth - 1)
      BY <2>1, WithinFurther
    <2>4. Within(alwaysLinks, query.root, MaxDepth - 1) \subseteq Found
      <3>1. CASE depth = MaxDepth
        BY <2>2, <3>1
      <3>2. CASE parents = {}
        <4>1. query.root \in Found
          BY <1>3 DEF IInv, RootIsFound, HierarchyIsAnswered, Found
        <4>2. ASSUME NEW l \in alwaysLinks, l[1] \in Found
              PROVE  l[2] \in Found
          <5>1. l[1] \in composite
            BY <1>3, <4>2, ReadsAssumption DEF IInv, TypeOK, Found
          <5> QED
            BY <1>3, <3>2, <4>2, <5>1 DEF IInv, HierarchyIsClosed
        <4> QED
          BY <2>1, <4>1, <4>2, WithinStays
      <3> QED
        BY <1>3, <3>1, <3>2 DEF LevelsInv, SearchIsOver
    <2> QED
      BY <2>2, <2>3, <2>4
  <1>4. IInv /\ LevelsInv => HierarchyIsBracketed
    BY <1>3 DEF HierarchyIsBracketed, HierarchyIsAnswered, LevelsInv, RefusalsAreRight
  <1> QED
    BY <1>2, <1>4, InductiveInvariant, PTL

=================================================================================
