--------------------------- MODULE SearchablesProofs ---------------------------
(***************************************************************************)
(* Proofs about Searchables, for every set of tags, objects, requests and  *)
(* jobs, every batch size and every bound.                                 *)
(***************************************************************************)
EXTENDS Searchables, TLAPS

\* Every request and every job may act as a writer of the index.
LEMMA WhoWrites == Requests \subseteq Writers /\ Jobs \subseteq Writers
  BY DEF Writers

-----------------------------------------------------------------------------
(* Type correctness *)

\* The initial state is well typed.
LEMMA InitTypeOK == Init => TypeOK
  <1> SUFFICES ASSUME Init PROVE TypeOK
    OBVIOUS
  <1> USE DEF Init
  <1>1. PICK I \in SUBSET Stored : rows = {StoredRow(i) : i \in I} /\ suspect = Stored \ I
    OBVIOUS
  <1>2. \A i \in I : StoredRow(i) \in Row
    BY StoredAreItems DEF StoredRow, Row
  <1>3. rows \in SUBSET Row /\ suspect \in SUBSET Items
    BY <1>1, <1>2, StoredAreItems
  <1>4. ItemTypes
    BY <1>3 DEF ItemTypes, Versions, NoVersions
  <1>5. RequestTypes
    BY DEF RequestTypes
  <1>6. WriterTypes
    BY DEF WriterTypes, Versions, NoVersions
  <1>7. HistoryTypes
    BY <1>3 DEF HistoryTypes
  <1> QED
    BY <1>4, <1>5, <1>6, <1>7 DEF TypeOK

\* The row a writer inserts for an item is a row.
LEMMA NewRowType ==
  ASSUME WriterTypes, NEW w \in Writers, NEW i \in Items
  PROVE  NewRow(w, i) \in Row
  <1>1. attr[w][i] \in Nat /\ data[w][i] \in Nat /\ stamp[w] \in Nat
    BY DEF WriterTypes, Versions
  <1> QED
    BY <1>1 DEF NewRow, Row

\* Requests preserve the types.
LEMMA RequestTypeOK ==
  ASSUME TypeOK, NEW r \in Requests,
         \/ BeginRequest(r)
         \/ \E S, M, T, D \in SUBSET Items : Write(r, S, M, T, D)
         \/ RequestStep(r) \/ RollbackRequest(r)
  PROVE  TypeOK'
  <1> USE DEF TypeOK
  <1>1. CASE BeginRequest(r)
    <2> USE <1>1 DEF BeginRequest
    <2>1. ItemTypes'
      BY DEF ItemTypes, itemVars, Versions
    <2>2. RequestTypes'
      BY DEF ItemTypes, RequestTypes
    <2>3. WriterTypes' /\ HistoryTypes'
      BY DEF WriterTypes, HistoryTypes, writerVars, batchVars, historyVars, Versions
    <2> QED
      BY <2>1, <2>2, <2>3
  <1>2. ASSUME NEW S \in SUBSET Items, NEW M \in SUBSET Items,
               NEW T \in SUBSET Items, NEW D \in SUBSET Items, Write(r, S, M, T, D)
        PROVE  TypeOK'
    <2> USE <1>2 DEF Write
    <2>1. ItemTypes'
      BY DEF ItemTypes, itemVars, Versions
    <2>2. RequestTypes'
      BY DEF RequestTypes, CollectedIds
    <2>3. WriterTypes' /\ HistoryTypes'
      BY DEF WriterTypes, HistoryTypes, writerVars, batchVars, historyVars, Versions
    <2> QED
      BY <2>1, <2>2, <2>3
  <1>3. CASE CommitRequest(r)
    <2> USE <1>3 DEF CommitRequest
    <2>1. ItemTypes'
      BY DEF ItemTypes, RequestTypes, Versions
    <2>2. RequestTypes'
      BY DEF RequestTypes
    <2>3. WriterTypes'
      BY WhoWrites DEF RequestTypes, WriterTypes, batchVars, DispatchedIds, Versions
    <2>4. HistoryTypes'
      BY DEF HistoryTypes, historyVars
    <2> QED
      BY <2>1, <2>2, <2>3, <2>4
  <1>4. CASE RollbackRequest(r)
    <2> USE <1>4 DEF RollbackRequest
    <2>1. ItemTypes'
      BY DEF ItemTypes, itemVars, Versions
    <2>2. RequestTypes'
      BY DEF RequestTypes
    <2>3. WriterTypes' /\ HistoryTypes'
      BY WhoWrites DEF WriterTypes, HistoryTypes, batchVars, historyVars, Versions
    <2> QED
      BY <2>1, <2>2, <2>3
  <1>5. ASSUME NEW i \in Items, Cascade(r, i)
        PROVE  TypeOK'
    <2> USE <1>5 DEF Cascade
    <2>1. ItemTypes'
      BY DEF ItemTypes, itemVars, Versions
    <2>2. RequestTypes'
      BY DEF RequestTypes
    <2>3. WriterTypes' /\ HistoryTypes'
      BY DEF WriterTypes, HistoryTypes, writerVars, batchVars, historyVars, Versions
    <2> QED
      BY <2>1, <2>2, <2>3
  <1> QED
    BY <1>1, <1>2, <1>3, <1>4, <1>5 DEF RequestStep

\* Job runs choosing their ids preserve the types.
LEMMA JobTypeOK ==
  ASSUME TypeOK, NEW j \in Jobs,
         \/ \E mode \in {"select_full", "select_missing"} : SelectTags(j, mode)
         \/ SelectObjects(j)
  PROVE  TypeOK'
  <1> USE DEF TypeOK
  <1>1. \A mode, S : S \subseteq Items => Selected(mode, S) \subseteq Items
    BY DEF Selected, Missing, Present
  <1>2. ItemTypes' /\ RequestTypes' /\ HistoryTypes'
    BY DEF SelectTags, SelectObjects, ItemTypes, RequestTypes, HistoryTypes, itemVars,
           requestVars, historyVars, Versions
  <1>3. WriterTypes'
    <2>1. \A mode : Selected(mode, Tags) \subseteq Items /\ Selected(mode, Objects) \subseteq Items
      BY <1>1 DEF Items
    <2>2. j \in Writers
      BY WhoWrites
    <2>3. UNCHANGED <<batch, found, attr, data, stamp, victims, taken>>
      BY DEF SelectTags, SelectObjects, batchVars
    <2>4. /\ todo' \in [Writers -> SUBSET Items]
          /\ pc' \in [Writers -> InTransaction \cup
                                 {"idle", "select_full", "select_missing", "queued", "done"}]
      BY <2>1, <2>2 DEF SelectTags, SelectObjects, WriterTypes
    <2> QED
      BY <2>3, <2>4 DEF WriterTypes
  <1> QED
    BY <1>2, <1>3

\* Writers preserve the types.
LEMMA WriterTypeOK ==
  ASSUME TypeOK, NEW w \in Writers, WriterStep(w)
  PROVE  TypeOK'
  <1> USE DEF TypeOK, InTransaction
  <1>1. ASSUME NEW B \in SUBSET todo[w], StartBatch(w, B)
        PROVE  TypeOK'
    <2> USE <1>1 DEF StartBatch
    <2>1. ItemTypes' /\ RequestTypes' /\ HistoryTypes'
      BY DEF ItemTypes, RequestTypes, HistoryTypes, itemVars, requestVars, historyVars, Versions
    <2>2. BatchStamp(w, B) \in Nat
      BY DEF BatchStamp, ItemTypes, RequestTypes
    <2>3. WriterTypes'
      BY <2>2 DEF WriterTypes, Remaining, Versions
    <2> QED
      BY <2>1, <2>3
  <1>2. CASE ReadAttributes(w)
    <2> USE <1>2 DEF ReadAttributes, Present
    <2>1. ItemTypes' /\ RequestTypes' /\ HistoryTypes'
      BY DEF ItemTypes, RequestTypes, WriterTypes, HistoryTypes, itemVars, requestVars, Versions
    <2>2. WriterTypes'
      BY DEF ItemTypes, WriterTypes, Versions
    <2> QED
      BY <2>1, <2>2
  <1>3. CASE ReadData(w)
    <2> USE <1>3 DEF ReadData
    <2>1. ItemTypes' /\ RequestTypes' /\ HistoryTypes'
      BY DEF ItemTypes, RequestTypes, HistoryTypes, itemVars, requestVars, historyVars, Versions
    <2>2. WriterTypes'
      BY DEF ItemTypes, WriterTypes, Versions
    <2> QED
      BY <2>1, <2>2
  <1>4. CASE DeleteSnapshot(w) \/ DeleteRows(w)
    <2> USE <1>4 DEF DeleteSnapshot, DeleteRows
    <2>1. ItemTypes' /\ RequestTypes' /\ HistoryTypes'
      BY DEF ItemTypes, RequestTypes, HistoryTypes, itemVars, requestVars, historyVars, Versions
    <2>2. WriterTypes'
      BY DEF ItemTypes, WriterTypes, DeletedRows, RowsOf, Versions
    <2> QED
      BY <2>1, <2>2
  <1>8. ASSUME NEW row \in rows, TakeRow(w, row)
        PROVE  TypeOK'
    <2> USE <1>8 DEF TakeRow
    <2>1. ItemTypes' /\ RequestTypes' /\ HistoryTypes'
      BY DEF ItemTypes, RequestTypes, HistoryTypes, itemVars, requestVars, historyVars, Versions
    <2>2. row \in Row
      BY DEF ItemTypes
    <2>3. WriterTypes'
      BY <2>2 DEF WriterTypes, Versions
    <2> QED
      BY <2>1, <2>3
  <1>5. CASE InsertAndCommit(w)
    <2> USE <1>5 DEF InsertAndCommit
    <2>1. ItemTypes'
      <3>1. \A i \in found[w] : NewRow(w, i) \in Row
        BY NewRowType DEF WriterTypes
      <3> QED
        BY <3>1 DEF ItemTypes, itemVars, Versions
    <2>2. RequestTypes' /\ HistoryTypes'
      BY DEF RequestTypes, WriterTypes, HistoryTypes, requestVars
    <2>3. WriterTypes'
      BY DEF WriterTypes, EndBatch, Versions, NoVersions
    <2> QED
      BY <2>1, <2>2, <2>3
  <1>6. CASE FinishWriter(w)
    <2> USE <1>6 DEF FinishWriter
    <2>1. ItemTypes' /\ RequestTypes' /\ HistoryTypes'
      BY DEF ItemTypes, RequestTypes, HistoryTypes, itemVars, requestVars, historyVars, Versions
    <2>2. WriterTypes'
      BY DEF WriterTypes, batchVars, Versions
    <2> QED
      BY <2>1, <2>2
  <1>7. CASE ForeignKeyViolation(w)
    <2> USE <1>7 DEF ForeignKeyViolation, Lose, RowsReleased
    <2>1. ItemTypes' /\ RequestTypes'
      BY DEF ItemTypes, RequestTypes, itemVars, requestVars, Versions
    <2>2. WriterTypes'
      BY DEF WriterTypes, Versions, NoVersions
    <2>3. HistoryTypes'
      BY DEF WriterTypes, HistoryTypes, Outstanding
    <2> QED
      BY <2>1, <2>2, <2>3
  <1> QED
    BY <1>1, <1>2, <1>3, <1>4, <1>5, <1>6, <1>7, <1>8 DEF WriterStep

\* Failures preserve the types.
LEMMA FailureTypeOK ==
  ASSUME TypeOK, Crash \/ \E w \in Writers : AbortDeadlocked(w) \/ DatabaseError(w)
  PROVE  TypeOK'
  <1> USE DEF TypeOK
  <1>1. ASSUME NEW W \in SUBSET Writers, Lose(W)
        PROVE  WriterTypes' /\ disturbed' \in [Writers -> SUBSET Items] /\ suspect' \in SUBSET Items
    <2> USE <1>1 DEF Lose, RowsReleased
    <2>1. WriterTypes'
      BY DEF WriterTypes, Versions, NoVersions
    <2>2. disturbed' \in [Writers -> SUBSET Items] /\ suspect' \in SUBSET Items
      BY DEF WriterTypes, HistoryTypes, Outstanding
    <2> QED
      BY <2>1, <2>2
  <1>2. CASE Crash
    <2> USE <1>2 DEF Crash
    <2>1. {r \in Requests : pc[r] \notin {"idle", "done"}} \in SUBSET Writers
      BY WhoWrites
    <2>2. WriterTypes' /\ HistoryTypes'
      BY <1>1, <2>1 DEF HistoryTypes
    <2>3. ItemTypes' /\ RequestTypes'
      BY DEF ItemTypes, RequestTypes, itemVars, Versions
    <2> QED
      BY <2>2, <2>3
  <1>3. ASSUME NEW w \in Writers, DatabaseError(w)
        PROVE  TypeOK'
    <2> USE <1>3 DEF DatabaseError
    <2>1. WriterTypes' /\ HistoryTypes'
      BY <1>1 DEF HistoryTypes
    <2>2. ItemTypes' /\ RequestTypes'
      BY DEF ItemTypes, RequestTypes, itemVars, requestVars, Versions
    <2> QED
      BY <2>1, <2>2
  <1>4. ASSUME NEW w \in Writers, AbortDeadlocked(w)
        PROVE  TypeOK'
    <2>1. CASE w \in Requests /\ RollbackRequest(w)
      BY <2>1, RequestTypeOK
    <2>2. CASE Lose({w}) /\ UNCHANGED <<clock, itemVars, rows, requestVars, faults>>
      <3>1. WriterTypes' /\ HistoryTypes'
        BY <1>1, <2>2 DEF HistoryTypes
      <3>2. ItemTypes' /\ RequestTypes'
        BY <2>2 DEF ItemTypes, RequestTypes, itemVars, requestVars, Versions
      <3> QED
        BY <3>1, <3>2
    <2> QED
      BY <1>4, <2>1, <2>2 DEF AbortDeadlocked
  <1> QED
    BY <1>2, <1>3, <1>4

\* Every step preserves the types.
LEMMA NextTypeOK == TypeOK /\ [Next]_vars => TypeOK'
  <1> SUFFICES ASSUME TypeOK, [Next]_vars
               PROVE  TypeOK'
    OBVIOUS
  <1>1. CASE Tick \/ UNCHANGED vars
    <2> USE <1>1 DEF Tick, vars, TypeOK
    <2>1. ItemTypes' /\ RequestTypes'
      BY DEF ItemTypes, RequestTypes, itemVars, requestVars, Versions
    <2>2. WriterTypes' /\ HistoryTypes'
      BY DEF WriterTypes, HistoryTypes, writerVars, batchVars, historyVars, Versions
    <2> QED
      BY <2>1, <2>2
  <1> QED
    BY <1>1, RequestTypeOK, JobTypeOK, WriterTypeOK, FailureTypeOK DEF Next

-----------------------------------------------------------------------------
(* The inductive invariant *)

\* The initial state satisfies the inductive invariant: what the index holds is
\* exact, and no writer has started.
LEMMA InitIInv == Init => IInv
  <1> SUFFICES ASSUME Init PROVE IInv
    OBVIOUS
  <1>1. TypeOK
    BY InitTypeOK
  <1>2. WriterShape /\ RequestShape /\ IdsAreBorn /\ OverlapIsNoted
    BY WhoWrites DEF Init, WriterShape, RequestShape, IdsAreBorn, OverlapIsNoted, Outstanding,
       InTransaction
  <1>3. VictimsCover /\ StaleReadIsRepeated
    BY DEF Init, VictimsCover, StaleReadIsRepeated
  <1>4. PICK I \in SUBSET Stored : rows = {StoredRow(i) : i \in I} /\ suspect = Stored \ I
    BY DEF Init
  <1>5. Present = Stored /\ \A i \in Items : version[i] = 0
    BY StoredAreItems DEF Init, Present, NoVersions
  <1>6. \A i \in Items : RowsOf({i}) = IF i \in I THEN {StoredRow(i)} ELSE {}
    BY <1>4 DEF RowsOf, StoredRow
  <1>7. RowsHaveItems
    BY <1>4, <1>5 DEF RowsHaveItems, StoredRow
  <1>8. QuietIndexIsExact
    BY <1>4, <1>5, <1>6, StoredAreItems DEF QuietIndexIsExact, Exact, StoredRow
  <1>9. DuplicatesAreSuspect
    BY <1>6 DEF DuplicatesAreSuspect
  <1> QED
    BY <1>1, <1>2, <1>3, <1>7, <1>8, <1>9 DEF IInv

\* A step that leaves the committed tables, the writers and the history alone
\* preserves what the invariant says of them.
LEMMA ContentFrame ==
  ASSUME IInv, UNCHANGED <<itemVars, rows, writerVars, historyVars>>
  PROVE  /\ WriterShape' /\ IdsAreBorn' /\ OverlapIsNoted' /\ VictimsCover'
         /\ StaleReadIsRepeated' /\ RowsHaveItems' /\ QuietIndexIsExact'
         /\ DuplicatesAreSuspect'
  <1> USE DEF itemVars, writerVars, batchVars, historyVars
  <1>1. WriterShape' /\ IdsAreBorn' /\ OverlapIsNoted'
    BY DEF IInv, WriterShape, IdsAreBorn, OverlapIsNoted, Outstanding
  <1>2. VictimsCover' /\ StaleReadIsRepeated'
    BY DEF IInv, VictimsCover, StaleReadIsRepeated, Current, Unread, RowsOf, Present
  <1>3. RowsHaveItems' /\ QuietIndexIsExact' /\ DuplicatesAreSuspect'
    BY DEF IInv, RowsHaveItems, QuietIndexIsExact, DuplicatesAreSuspect, Exact, Busy,
       Outstanding, RowsOf, Present
  <1> QED
    BY <1>1, <1>2, <1>3

\* Time passes.
LEMMA TickIInv == IInv /\ (Tick \/ UNCHANGED vars) => IInv'
  <1> SUFFICES ASSUME IInv, Tick \/ UNCHANGED vars PROVE IInv'
    OBVIOUS
  <1>1. TypeOK'
    BY NextTypeOK DEF IInv, Next
  <1>2. RequestShape'
    BY DEF IInv, Tick, vars, RequestShape, requestVars, writerVars, itemVars, Present
  <1>3. UNCHANGED <<itemVars, rows, writerVars, historyVars>>
    BY DEF Tick, vars
  <1> QED
    BY <1>1, <1>2, <1>3, ContentFrame DEF IInv

\* A request arrives.
LEMMA BeginIInv ==
  ASSUME IInv, NEW r \in Requests, BeginRequest(r)
  PROVE  IInv'
  <1>1. TypeOK'
    BY NextTypeOK DEF IInv, Next
  <1>2. RequestShape'
    BY DEF IInv, BeginRequest, TypeOK, RequestTypes, RequestShape, writerVars, itemVars, Present
  <1>3. UNCHANGED <<itemVars, rows, writerVars, historyVars>>
    BY DEF BeginRequest
  <1> QED
    BY <1>1, <1>2, <1>3, ContentFrame DEF IInv

\* A handler writes: nothing of it is visible yet, and what it writes no other
\* open transaction deletes.
LEMMA WriteIInv ==
  ASSUME IInv, NEW r \in Requests,
         NEW S \in SUBSET Items, NEW M \in SUBSET Items,
         NEW T \in SUBSET Items, NEW D \in SUBSET Items, Write(r, S, M, T, D)
  PROVE  IInv'
  <1>1. TypeOK'
    BY NextTypeOK DEF IInv, Next
  <1>2. RequestShape'
    <2> USE DEF IInv, TypeOK, RequestTypes, RequestShape, Write, itemVars, writerVars
    <2>1. (S \cup M) \cap D = {}
      BY KindsAreDisjoint DEF HandlerWrites, TagsAddOrUpdate, TagsDelete, ObjectsUpsert, ObjectsUpdateTags,
         ObjectsDelete
    <2>2. \A q \in Requests : q # r => /\ (S \cup M) \cap deletes[q] = {}
                                       /\ D \cap collected[q] = {}
      BY DEF Unlocked
    <2>3. ASSUME NEW p \in Requests
          PROVE  \A q \in Requests : collected'[p] \cap deletes'[q] = {}
      BY <2>1, <2>2 DEF CollectedIds
    <2>4. ASSUME NEW p \in Requests
          PROVE  /\ reqPc'[p] # "done" => pc'[p] = "idle"
                 /\ edits'[p] \subseteq collected'[p]
                 /\ cascaded'[p] \subseteq deletes'[p]
                 /\ reqPc'[p] \notin {"cascading", "written"} => cascaded'[p] = {}
                 /\ \A i \in edits'[p] : life'[i] # "deleted"
                 /\ collected'[p] \ edits'[p] \subseteq Present'
      BY DEF CollectedIds, Present
    <2> QED
      BY <2>3, <2>4
  <1>3. UNCHANGED <<itemVars, rows, writerVars, historyVars>>
    BY DEF Write
  <1> QED
    BY <1>1, <1>2, <1>3, ContentFrame DEF IInv

\* A deletion reaches the index rows of one item.
LEMMA CascadeIInv ==
  ASSUME IInv, NEW r \in Requests, NEW i \in Items, Cascade(r, i)
  PROVE  IInv'
  <1>1. TypeOK'
    BY NextTypeOK DEF IInv, Next, RequestStep
  <1>2. RequestShape'
    BY DEF IInv, TypeOK, RequestTypes, RequestShape, Cascade, itemVars, writerVars, Present
  <1>3. UNCHANGED <<itemVars, rows, writerVars, historyVars>>
    BY DEF Cascade
  <1> QED
    BY <1>1, <1>2, <1>3, ContentFrame DEF IInv

\* A request fails: what it would have written vanishes with its ids.
LEMMA RollbackIInv ==
  ASSUME IInv, NEW r \in Requests, RollbackRequest(r)
  PROVE  IInv'
  <1> USE DEF RollbackRequest, batchVars, historyVars, itemVars
  <1>1. TypeOK'
    BY NextTypeOK DEF IInv, Next, RequestStep
  <1>2. pc[r] = "idle" /\ todo[r] = {} /\ batch[r] = {} /\ r \in Writers
    BY WhoWrites DEF IInv, RequestShape, WriterShape, InTransaction
  <1>3. RequestShape'
    BY <1>2 DEF IInv, TypeOK, RequestTypes, WriterTypes, RequestShape, Present
  <1>4. \A w \in Writers : w # r => pc'[w] = pc[w]
    BY DEF IInv, TypeOK, WriterTypes
  <1>5. pc'[r] = "done" /\ found[r] = {}
    BY <1>2 DEF IInv, TypeOK, WriterTypes, WriterShape
  <1>6. WriterShape' /\ IdsAreBorn' /\ OverlapIsNoted'
    BY <1>2, <1>4, <1>5 DEF IInv, WriterShape, IdsAreBorn, OverlapIsNoted, Outstanding, InTransaction
  <1>7. VictimsCover' /\ RowsHaveItems' /\ DuplicatesAreSuspect'
    BY <1>2, <1>4, <1>5 DEF IInv, VictimsCover, RowsHaveItems, DuplicatesAreSuspect, RowsOf, Present
  <1>8. \A i \in Items : Unread(i) => Unread(i)'
    BY <1>2, <1>4 DEF Unread
  <1>9. StaleReadIsRepeated'
    BY <1>4, <1>5, <1>8 DEF IInv, StaleReadIsRepeated, Current, Present
  <1>10. QuietIndexIsExact'
    BY DEF IInv, QuietIndexIsExact, Exact, Busy, Outstanding, RowsOf, Present
  <1> QED
    BY <1>1, <1>3, <1>6, <1>7, <1>9, <1>10 DEF IInv

\* A request commits: every item it changed goes to its task.
LEMMA CommitIInv ==
  ASSUME IInv, NEW r \in Requests, CommitRequest(r)
  PROVE  IInv'
  <1> USE DEF CommitRequest, DispatchedIds, batchVars, historyVars
  <1>1. TypeOK'
    BY NextTypeOK DEF IInv, Next, RequestStep
  <1>2. pc[r] = "idle" /\ todo[r] = {} /\ batch[r] = {} /\ found[r] = {} /\ r \in Writers
    BY WhoWrites DEF IInv, RequestShape, WriterShape, InTransaction
  <1>3. \A w \in Writers : w # r => pc'[w] = pc[w] /\ todo'[w] = todo[w]
    BY DEF IInv, TypeOK, WriterTypes
  <1>4. /\ pc'[r] \in {"queued", "done"}
        /\ todo'[r] = collected[r]
        /\ pc'[r] = "done" => collected[r] = {}
    BY <1>2 DEF IInv, TypeOK, WriterTypes
  <1>5. /\ edits[r] \cap deletes[r] = {}
        /\ edits[r] \subseteq collected[r]
        /\ collected[r] \cap deletes[r] = {}
    BY DEF IInv, RequestShape
  <1>6. \A i \in Items :
          /\ life'[i] = IF i \in edits[r] THEN "present"
                        ELSE IF i \in deletes[r] THEN "deleted" ELSE life[i]
          /\ version'[i] = IF i \in edits[r] THEN version[i] + 1 ELSE version[i]
    BY DEF IInv, TypeOK, ItemTypes
  <1>7. \A i \in Items : /\ life[i] = "deleted" => life'[i] = "deleted"
                         /\ life[i] # "unborn" => life'[i] # "unborn"
    BY <1>6 DEF IInv, RequestShape
  <1>8. \A i \in edits[r] : Unread(i)'
    BY <1>2, <1>4, <1>5 DEF Unread
  <1>9. \A i \in Items : Unread(i) => Unread(i)'
    BY <1>2, <1>3 DEF Unread
  <1>10. WriterShape'
    BY <1>2, <1>3, <1>4 DEF IInv, WriterShape, InTransaction
  <1>11. RequestShape'
    <2> USE DEF IInv, TypeOK, RequestTypes, RequestShape
    <2>1. ASSUME NEW p \in Requests
          PROVE  /\ reqPc'[p] # "done" => pc'[p] = "idle"
                 /\ edits'[p] \subseteq collected'[p]
                 /\ cascaded'[p] \subseteq deletes'[p]
                 /\ reqPc'[p] \notin {"cascading", "written"} => cascaded'[p] = {}
                 /\ \A q \in Requests : collected'[p] \cap deletes'[q] = {}
      BY WhoWrites, <1>3
    <2>2. ASSUME NEW p \in Requests, NEW i \in edits'[p]
          PROVE  life'[i] # "deleted"
      BY <1>6
    <2>3. ASSUME NEW p \in Requests
          PROVE  collected'[p] \ edits'[p] \subseteq Present'
      BY <1>6 DEF Present
    <2> QED
      BY <2>1, <2>2, <2>3
  <1>12. IdsAreBorn'
    <2>1. \A i \in collected[r] : i \in Items /\ life'[i] # "unborn"
      BY <1>6 DEF IInv, TypeOK, RequestTypes, RequestShape, Present
    <2>2. \A w \in Writers : \A i \in batch[w] : i \in Items
      BY DEF IInv, TypeOK, WriterTypes
    <2>3. \A w \in Writers : \A i \in todo[w] : i \in Items
      BY DEF IInv, TypeOK, WriterTypes
    <2> QED
      BY <1>2, <1>3, <1>4, <1>7, <2>1, <2>2, <2>3 DEF IInv, IdsAreBorn, Outstanding, InTransaction
  <1>13. OverlapIsNoted'
    BY DEF IInv, OverlapIsNoted
  <1>14. VictimsCover'
    BY <1>2, <1>3, <1>4 DEF IInv, VictimsCover, RowsOf
  <1>15. StaleReadIsRepeated'
    <2> SUFFICES ASSUME NEW w \in Writers, NEW i \in (found[w] \ disturbed[w]) \cap Present',
                        ~ Unread(i)'
                 PROVE  Current(w, i)'
      BY DEF StaleReadIsRepeated
    <2>1. i \in Items /\ i \notin edits[r] /\ ~ Unread(i)
      BY <1>8, <1>9 DEF Present
    <2>2. i \in Present /\ version'[i] = version[i]
      BY <1>6, <2>1 DEF Present
    <2>3. Current(w, i)
      BY <2>1, <2>2 DEF IInv, StaleReadIsRepeated
    <2> QED
      BY <1>2, <1>3, <2>2, <2>3 DEF Current
  <1>16. RowsHaveItems'
    <2> SUFFICES ASSUME NEW row \in rows, row \notin RowsOf(deletes[r])
                 PROVE  row.item \in Present'
      BY DEF RowsHaveItems
    <2>1. row.item \in Present /\ row.item \notin deletes[r]
      BY DEF IInv, RowsHaveItems, RowsOf
    <2> QED
      BY <1>6, <2>1 DEF Present
  <1>17. QuietIndexIsExact'
    <2> SUFFICES ASSUME NEW i \in Present', i \notin suspect, ~ Busy(i)'
                 PROVE  Exact(i)'
      BY DEF QuietIndexIsExact
    <2>1. i \in Items /\ i \notin collected[r]
      BY <1>2, <1>4 DEF Busy, Outstanding, Present
    <2>2. i \in Present /\ i \notin deletes[r] /\ version'[i] = version[i]
      BY <1>5, <1>6, <2>1 DEF Present
    <2>3. ~ Busy(i)
      BY <1>2, <1>3 DEF Busy, Outstanding
    <2>4. Exact(i)
      BY <2>2, <2>3 DEF IInv, QuietIndexIsExact
    <2>5. RowsOf({i})' = RowsOf({i})
      BY <2>2 DEF RowsOf
    <2> QED
      BY <2>2, <2>4, <2>5 DEF Exact
  <1>18. DuplicatesAreSuspect'
    BY DEF IInv, DuplicatesAreSuspect, RowsOf
  <1> QED
    BY <1>1, <1>10, <1>11, <1>12, <1>13, <1>14, <1>15, <1>16, <1>17, <1>18 DEF IInv

\* The job chooses its ids among the existing ones.
LEMMA JobIInv ==
  ASSUME IInv, NEW j \in Jobs,
         \/ \E mode \in {"select_full", "select_missing"} : SelectTags(j, mode)
         \/ SelectObjects(j)
  PROVE  IInv'
  <1> USE DEF SelectTags, SelectObjects, batchVars, historyVars, itemVars, requestVars
  <1>1. TypeOK'
    BY NextTypeOK DEF IInv, Next
  <1>2. \A mode, S : Selected(mode, S) \subseteq Present
    BY DEF Selected, Missing
  <1>3. j \in Writers /\ j \notin Requests
    BY WhoWrites, WritersAreDisjoint
  <1>4. batch[j] = {} /\ found[j] = {} /\ pc[j] \notin InTransaction
    BY <1>3 DEF IInv, WriterShape, InTransaction
  <1>5. \A w \in Writers : w # j => pc'[w] = pc[w] /\ todo'[w] = todo[w]
    BY DEF IInv, TypeOK, WriterTypes
  <1>6. /\ pc'[j] \in {"select_full", "select_missing", "queued"}
        /\ todo[j] \subseteq todo'[j]
        /\ todo'[j] \subseteq todo[j] \cup Present
    <2>1. pc[j] = "idle" => todo[j] = {}
      BY <1>3 DEF IInv, WriterShape
    <2> QED
      BY <1>2, <1>3, <2>1 DEF IInv, TypeOK, WriterTypes
  <1>7. WriterShape'
    BY <1>4, <1>5, <1>6 DEF IInv, WriterShape, InTransaction
  <1>8. RequestShape'
    BY <1>3, <1>5, WhoWrites DEF IInv, RequestShape, Present
  <1>9. IdsAreBorn'
    BY <1>4, <1>5, <1>6 DEF IInv, IdsAreBorn, Outstanding, InTransaction, Present
  <1>10. OverlapIsNoted' /\ RowsHaveItems' /\ DuplicatesAreSuspect'
    BY DEF IInv, OverlapIsNoted, RowsHaveItems, DuplicatesAreSuspect, RowsOf, Present
  <1>11. VictimsCover'
    BY <1>4, <1>5, <1>6 DEF IInv, VictimsCover, RowsOf
  <1>12. \A i \in Items : Unread(i) => Unread(i)'
    BY <1>4, <1>5, <1>6 DEF Unread, InTransaction
  <1>13. StaleReadIsRepeated'
    BY <1>4, <1>5, <1>12 DEF IInv, StaleReadIsRepeated, Current, Present
  <1>14. \A i : Busy(i) => Busy(i)'
    BY <1>5, <1>6 DEF Busy, Outstanding
  <1>15. QuietIndexIsExact'
    BY <1>14 DEF IInv, QuietIndexIsExact, Exact, RowsOf, Present
  <1> QED
    BY <1>1, <1>7, <1>8, <1>9, <1>10, <1>11, <1>13, <1>15 DEF IInv

\* A writer takes its next batch.
LEMMA StartIInv ==
  ASSUME IInv, NEW w \in Writers, NEW B \in SUBSET todo[w], StartBatch(w, B)
  PROVE  IInv'
  <1> USE DEF StartBatch, Remaining, historyVars, itemVars, requestVars
  <1>1. TypeOK'
    BY NextTypeOK DEF IInv, Next, WriterStep
  <1>2. batch[w] = {} /\ found[w] = {} /\ disturbed[w] = {}
    BY DEF IInv, WriterShape, InTransaction
  <1>3. /\ pc'[w] = "attrs" /\ batch'[w] = B /\ todo'[w] = todo[w] \ B
        /\ \A v \in Writers : v # w => /\ pc'[v] = pc[v] /\ batch'[v] = batch[v]
                                       /\ todo'[v] = todo[v]
    BY DEF IInv, TypeOK, WriterTypes
  <1>4. WriterShape'
    BY <1>2, <1>3 DEF IInv, WriterShape, InTransaction
  <1>5. RequestShape'
    BY <1>3, WhoWrites DEF IInv, RequestShape, Present
  <1>6. IdsAreBorn'
    BY <1>2, <1>3 DEF IInv, IdsAreBorn, Outstanding, InTransaction
  <1>7. OverlapIsNoted' /\ RowsHaveItems' /\ DuplicatesAreSuspect'
    BY DEF IInv, OverlapIsNoted, RowsHaveItems, DuplicatesAreSuspect, RowsOf, Present
  <1>8. VictimsCover'
    BY <1>3 DEF IInv, VictimsCover, RowsOf
  <1>9. \A i \in Items : Unread(i) => Unread(i)'
    BY <1>3 DEF Unread
  <1>10. StaleReadIsRepeated'
    BY <1>2, <1>3, <1>9 DEF IInv, StaleReadIsRepeated, Current, Present
  <1>11. \A i : Busy(i) => Busy(i)'
    <2>1. ASSUME NEW v \in Writers
          PROVE  Outstanding(v) \subseteq Outstanding(v)'
      BY <1>2, <1>3 DEF Outstanding
    <2> QED
      BY <2>1 DEF Busy
  <1>12. QuietIndexIsExact'
    BY <1>11 DEF IInv, QuietIndexIsExact, Exact, RowsOf, Present
  <1> QED
    BY <1>1, <1>4, <1>5, <1>6, <1>7, <1>8, <1>10, <1>12 DEF IInv

\* A writer reads the attributes of its batch: what it now holds is current, and
\* every other writer that holds one of these items is disturbed.
LEMMA ReadAttributesIInv ==
  ASSUME IInv, NEW w \in Writers, ReadAttributes(w)
  PROVE  IInv'
  <1> DEFINE F == batch[w] \cap Present
  <1> USE DEF ReadAttributes, itemVars, requestVars
  <1>1. TypeOK'
    BY NextTypeOK DEF IInv, Next, WriterStep
  <1>2. found[w] = {} /\ disturbed[w] = {} /\ batch[w] \cap todo[w] = {}
    BY DEF IInv, WriterShape
  <1>3. /\ found'[w] = F
        /\ batch'[w] = IF F = {} THEN {} ELSE batch[w]
        /\ pc'[w] = IF F = {} THEN "queued" ELSE IF batch[w] \subseteq Tags THEN "delete" ELSE "data"
        /\ \A i \in F : attr'[w][i] = version[i] /\ (i \in Tags => data'[w][i] = version[i])
        /\ \A v \in Writers : v # w => /\ pc'[v] = pc[v] /\ batch'[v] = batch[v]
                                       /\ found'[v] = found[v]
                                       /\ attr'[v] = attr[v] /\ data'[v] = data[v]
    BY DEF IInv, TypeOK, WriterTypes, Present
  <1>4. /\ disturbed'[w] \subseteq F
        /\ \A v \in Writers : v # w => disturbed'[v] = disturbed[v] \cup (found[v] \cap F)
        /\ \A v \in Writers : v # w => found[v] \cap F \subseteq disturbed'[w]
    BY DEF IInv, TypeOK, WriterTypes, HistoryTypes
  <1>5. WriterShape'
    BY <1>2, <1>3, <1>4 DEF IInv, WriterShape, InTransaction
  <1>6. RequestShape'
    <2>1. \A r \in Requests : pc[r] = "idle" => r # w /\ pc'[r] = "idle"
      BY <1>3, WhoWrites
    <2> QED
      BY <2>1 DEF IInv, RequestShape, Present
  <1>7. IdsAreBorn'
    <2>1. \A i \in batch[w] \ F : life[i] = "deleted"
      BY DEF IInv, IdsAreBorn, Outstanding, TypeOK, ItemTypes, WriterTypes, Present
    <2> QED
      BY <1>3, <2>1 DEF IInv, IdsAreBorn, Outstanding, InTransaction
  <1>8. OverlapIsNoted'
    BY <1>3, <1>4 DEF IInv, OverlapIsNoted
  <1>9. VictimsCover'
    BY <1>3, <1>4 DEF IInv, VictimsCover, RowsOf
  <1>10. \A i \in Present \ F : Unread(i) => Unread(i)'
    BY <1>3 DEF Unread
  <1>11. StaleReadIsRepeated'
    <2> SUFFICES ASSUME NEW v \in Writers, NEW i \in (found'[v] \ disturbed'[v]) \cap Present
                 PROVE  Current(v, i)' \/ Unread(i)'
      BY DEF StaleReadIsRepeated, Present
    <2>1. CASE v = w
      BY <1>3, <2>1 DEF Current
    <2>2. CASE v # w
      <3>1. i \in found[v] \ disturbed[v] /\ i \notin F
        BY <1>3, <1>4, <2>2
      <3>2. Current(v, i) \/ Unread(i)
        BY <3>1 DEF IInv, StaleReadIsRepeated
      <3> QED
        BY <1>3, <1>10, <2>2, <3>1, <3>2 DEF Current
    <2> QED
      BY <2>1, <2>2
  <1>12. RowsHaveItems' /\ DuplicatesAreSuspect'
    BY DEF IInv, RowsHaveItems, DuplicatesAreSuspect, RowsOf, Present
  <1>13. \A i \in Present : Busy(i) => Busy(i)'
    BY <1>3 DEF Busy, Outstanding
  <1>14. QuietIndexIsExact'
    BY <1>13 DEF IInv, QuietIndexIsExact, Exact, RowsOf, Present
  <1> QED
    BY <1>1, <1>5, <1>6, <1>7, <1>8, <1>9, <1>11, <1>12, <1>14 DEF IInv

\* A writer reads the rest of its objects: a torn read is repeated by somebody.
LEMMA ReadDataIInv ==
  ASSUME IInv, NEW w \in Writers, ReadData(w)
  PROVE  IInv'
  <1> USE DEF ReadData, historyVars, itemVars, requestVars
  <1>1. TypeOK'
    BY NextTypeOK DEF IInv, Next, WriterStep
  <1>2. /\ pc'[w] = "delete"
        /\ \A i \in found[w] : data'[w][i] = version[i]
        /\ \A v \in Writers : v # w => pc'[v] = pc[v] /\ data'[v] = data[v]
    BY DEF IInv, TypeOK, WriterTypes
  <1>3. WriterShape'
    BY <1>2 DEF IInv, WriterShape, InTransaction
  <1>4. RequestShape'
    BY <1>2, WhoWrites DEF IInv, RequestShape, Present
  <1>5. IdsAreBorn'
    BY <1>2 DEF IInv, IdsAreBorn, Outstanding, InTransaction
  <1>6. OverlapIsNoted' /\ RowsHaveItems' /\ DuplicatesAreSuspect'
    BY DEF IInv, OverlapIsNoted, RowsHaveItems, DuplicatesAreSuspect, RowsOf, Present
  <1>7. VictimsCover'
    BY <1>2 DEF IInv, VictimsCover, RowsOf
  <1>8. \A i \in Items : Unread(i) => Unread(i)'
    BY <1>2 DEF Unread
  <1>9. StaleReadIsRepeated'
    <2> SUFFICES ASSUME NEW v \in Writers, NEW i \in (found[v] \ disturbed[v]) \cap Present
                 PROVE  Current(v, i)' \/ Unread(i)'
      BY DEF StaleReadIsRepeated, Present
    <2>1. Current(v, i) \/ Unread(i)
      BY DEF IInv, StaleReadIsRepeated
    <2>2. Current(v, i) => Current(v, i)'
      BY <1>2 DEF Current
    <2> QED
      BY <1>8, <2>1, <2>2 DEF Present
  <1>10. QuietIndexIsExact'
    BY DEF IInv, QuietIndexIsExact, Exact, Busy, Outstanding, RowsOf, Present
  <1> QED
    BY <1>1, <1>3, <1>4, <1>5, <1>6, <1>7, <1>9, <1>10 DEF IInv

\* A writer locks one more row.
LEMMA TakeIInv ==
  ASSUME IInv, NEW w \in Writers, NEW row \in rows, TakeRow(w, row)
  PROVE  IInv'
  <1> USE DEF TakeRow, RowsToTake, historyVars, itemVars, requestVars
  <1>1. TypeOK'
    BY NextTypeOK DEF IInv, Next, WriterStep
  <1>2. /\ pc[w] = "lock" /\ taken'[w] = taken[w] \cup {row} /\ row \in victims[w]
        /\ \A v \in Writers : v # w => taken'[v] = taken[v]
    BY DEF IInv, TypeOK, WriterTypes
  <1>3. WriterShape'
    BY <1>2 DEF IInv, WriterShape, InTransaction
  <1>4. RequestShape'
    BY DEF IInv, RequestShape, Present
  <1>5. IdsAreBorn' /\ OverlapIsNoted'
    BY DEF IInv, IdsAreBorn, OverlapIsNoted, Outstanding
  <1>6. VictimsCover' /\ StaleReadIsRepeated'
    BY DEF IInv, VictimsCover, StaleReadIsRepeated, Current, Unread, RowsOf, Present
  <1>7. RowsHaveItems' /\ QuietIndexIsExact' /\ DuplicatesAreSuspect'
    BY DEF IInv, RowsHaveItems, QuietIndexIsExact, DuplicatesAreSuspect, Exact, Busy,
       Outstanding, RowsOf, Present
  <1> QED
    BY <1>1, <1>3, <1>4, <1>5, <1>6, <1>7 DEF IInv

\* A writer's DELETE: its snapshot holds every row of the batch, and of those
\* it ends up with the ones that are still there.
LEMMA DeleteIInv ==
  ASSUME IInv, NEW w \in Writers, DeleteSnapshot(w) \/ DeleteRows(w)
  PROVE  IInv'
  <1> USE DEF DeleteSnapshot, DeleteRows, DeletedRows, historyVars, itemVars, requestVars
  <1>1. TypeOK'
    BY NextTypeOK DEF IInv, Next, WriterStep
  <1>2. /\ pc[w] \in {"delete", "lock"} /\ pc'[w] \in {"lock", "insert"}
        /\ \A v \in Writers : v # w => pc'[v] = pc[v] /\ victims'[v] = victims[v]
        /\ taken' = taken /\ (pc[w] = "delete" => taken[w] = {})
        /\ pc'[w] = IF pc[w] = "delete" THEN "lock" ELSE "insert"
        /\ victims'[w] = IF pc[w] = "delete" THEN RowsOf(batch[w]) ELSE victims[w] \cap rows
    BY DEF IInv, TypeOK, WriterTypes, WriterShape
  <1>3. WriterShape'
    BY <1>2 DEF IInv, WriterShape, InTransaction, RowsOf
  <1>4. RequestShape'
    BY <1>2, WhoWrites DEF IInv, RequestShape, Present
  <1>5. IdsAreBorn'
    BY <1>2 DEF IInv, IdsAreBorn, Outstanding, InTransaction
  <1>6. OverlapIsNoted' /\ RowsHaveItems' /\ DuplicatesAreSuspect'
    BY DEF IInv, OverlapIsNoted, RowsHaveItems, DuplicatesAreSuspect, RowsOf, Present
  <1>7. VictimsCover'
    BY <1>2 DEF IInv, VictimsCover, WriterShape, RowsOf
  <1>8. \A i \in Items : Unread(i) => Unread(i)'
    BY <1>2 DEF Unread
  <1>9. StaleReadIsRepeated'
    BY <1>2, <1>8 DEF IInv, StaleReadIsRepeated, Current, Present
  <1>10. QuietIndexIsExact'
    BY DEF IInv, QuietIndexIsExact, Exact, Busy, Outstanding, RowsOf, Present
  <1> QED
    BY <1>1, <1>3, <1>4, <1>5, <1>6, <1>7, <1>9, <1>10 DEF IInv

\* A writer commits.  An item it held undisturbed has its new row only; the row
\* is exact, or the item is still to be read by another writer.
LEMMA InsertIInv ==
  ASSUME IInv, NEW w \in Writers, InsertAndCommit(w)
  PROVE  IInv'
  <1> USE DEF InsertAndCommit, EndBatch, itemVars, requestVars
  <1>1. TypeOK'
    BY NextTypeOK DEF IInv, Next, WriterStep
  <1>2. /\ pc'[w] = "queued" /\ batch'[w] = {} /\ found'[w] = {} /\ victims'[w] = {}
        /\ disturbed'[w] = {} /\ taken'[w] = {}
        /\ \A v \in Writers : v # w =>
             /\ pc'[v] = pc[v] /\ batch'[v] = batch[v] /\ found'[v] = found[v]
             /\ attr'[v] = attr[v] /\ data'[v] = data[v] /\ victims'[v] = victims[v]
             /\ disturbed'[v] = disturbed[v] /\ taken'[v] = taken[v]
    BY DEF IInv, TypeOK, WriterTypes, HistoryTypes
  <1>3. found[w] \subseteq Present /\ found[w] \subseteq batch[w]
    BY DEF ForeignKeysHold, IInv, WriterShape
  <1>4. \A row \in rows' : row \in rows \/ \E i \in found[w] : row = NewRow(w, i)
    OBVIOUS
  <1>5. \A i : NewRow(w, i).item = i /\ NewRow(w, i).attr = attr[w][i]
               /\ NewRow(w, i).data = data[w][i]
    BY DEF NewRow
  <1>6. WriterShape'
    BY <1>2 DEF IInv, WriterShape, InTransaction
  <1>7. RequestShape'
    BY <1>2, WhoWrites DEF IInv, RequestShape, Present
  <1>8. IdsAreBorn'
    BY <1>2 DEF IInv, IdsAreBorn, Outstanding, InTransaction
  <1>9. OverlapIsNoted'
    BY <1>2 DEF IInv, OverlapIsNoted
  <1>10. VictimsCover'
    <2> SUFFICES ASSUME NEW v \in Writers, v # w, pc[v] \in {"lock", "insert"},
                        NEW row \in rows', row.item \in found[v] \ disturbed[v]
                 PROVE  row \in victims[v]
      BY <1>2 DEF VictimsCover, RowsOf
    <2>1. row.item \notin found[w]
      BY DEF IInv, OverlapIsNoted
    <2>2. row \in rows
      BY <1>4, <1>5, <2>1
    <2> QED
      BY <2>2 DEF IInv, VictimsCover, RowsOf
  <1>11. \A i \in Items : Unread(i) => Unread(i)' /\ Busy(i)'
    BY <1>2 DEF Unread, Busy, Outstanding
  <1>12. StaleReadIsRepeated'
    BY <1>2, <1>11 DEF IInv, StaleReadIsRepeated, Current, Present
  <1>13. RowsHaveItems'
    BY <1>3, <1>4, <1>5 DEF IInv, RowsHaveItems, Present
  <1>14. \A i \in found[w] \ disturbed[w] : RowsOf({i})' = {NewRow(w, i)}
    <2> SUFFICES ASSUME NEW i \in found[w] \ disturbed[w]
                 PROVE  RowsOf({i})' = {NewRow(w, i)}
      OBVIOUS
    <2>1. RowsOf({i}) \subseteq victims[w]
      BY DEF IInv, VictimsCover, RowsOf
    <2> QED
      BY <1>5, <2>1 DEF RowsOf
  <1>15. \A i \in Items \ found[w] : RowsOf({i})' \subseteq RowsOf({i})
    BY <1>4, <1>5 DEF RowsOf
  <1>16. QuietIndexIsExact'
    <2> SUFFICES ASSUME NEW i \in Present, i \notin suspect', ~ Busy(i)'
                 PROVE  Exact(i)'
      BY DEF QuietIndexIsExact, Present
    <2>1. CASE i \in found[w]
      <3>1. i \in found[w] \ disturbed[w]
        BY <2>1
      <3>2. Current(w, i) \/ Unread(i)
        BY <3>1 DEF IInv, StaleReadIsRepeated
      <3>3. attr[w][i] = version[i] /\ data[w][i] = version[i]
        BY <1>11, <3>2 DEF Current, Present
      <3>4. RowsOf({i})' = {NewRow(w, i)}
        BY <1>14, <3>1
      <3> QED
        BY <1>5, <3>3, <3>4 DEF Exact
    <2>2. CASE i \notin found[w]
      <3>1. i \notin batch[w]
        BY <2>2 DEF IInv, IdsAreBorn, InTransaction, Present
      <3>2. \A v \in Writers : i \notin Outstanding(v)
        BY <1>2, <3>1 DEF Busy, Outstanding
      <3>3. Exact(i)
        BY <2>2, <3>2 DEF IInv, QuietIndexIsExact, Busy
      <3>4. \A row \in victims[w] : row.item # i
        BY <3>1 DEF IInv, WriterShape
      <3>5. RowsOf({i})' = RowsOf({i})
        BY <1>15, <2>2, <3>4 DEF RowsOf, Present
      <3> QED
        BY <3>3, <3>5 DEF Exact
    <2> QED
      BY <2>1, <2>2
  <1>17. DuplicatesAreSuspect'
    <2> SUFFICES ASSUME NEW i \in Items, i \notin suspect',
                        NEW p \in RowsOf({i})', NEW q \in RowsOf({i})'
                 PROVE  p = q
      BY DEF DuplicatesAreSuspect
    <2>1. CASE i \in found[w]
      <3>1. RowsOf({i})' = {NewRow(w, i)}
        BY <1>14, <2>1
      <3> QED
        BY <3>1
    <2>2. CASE i \notin found[w]
      BY <1>15, <2>2 DEF IInv, DuplicatesAreSuspect
    <2> QED
      BY <2>1, <2>2
  <1> QED
    BY <1>1, <1>6, <1>7, <1>8, <1>9, <1>10, <1>12, <1>13, <1>16, <1>17 DEF IInv

\* A writer has nothing left.
LEMMA FinishIInv ==
  ASSUME IInv, NEW w \in Writers, FinishWriter(w)
  PROVE  IInv'
  <1> USE DEF FinishWriter, batchVars, historyVars, itemVars, requestVars
  <1>1. TypeOK'
    BY NextTypeOK DEF IInv, Next, WriterStep
  <1>2. pc'[w] = "done" /\ \A v \in Writers : v # w => pc'[v] = pc[v]
    BY DEF IInv, TypeOK, WriterTypes
  <1>3. WriterShape'
    BY <1>2 DEF IInv, WriterShape, InTransaction
  <1>4. RequestShape'
    BY <1>2, WhoWrites DEF IInv, RequestShape, Present
  <1>5. IdsAreBorn'
    BY <1>2 DEF IInv, IdsAreBorn, Outstanding, InTransaction
  <1>6. OverlapIsNoted' /\ RowsHaveItems' /\ DuplicatesAreSuspect'
    BY DEF IInv, OverlapIsNoted, RowsHaveItems, DuplicatesAreSuspect, RowsOf, Present
  <1>7. VictimsCover'
    BY <1>2 DEF IInv, VictimsCover, RowsOf
  <1>8. \A i \in Items : Unread(i) => Unread(i)'
    BY <1>2 DEF Unread
  <1>9. StaleReadIsRepeated'
    BY <1>2, <1>8 DEF IInv, StaleReadIsRepeated, Current, WriterShape, InTransaction, Present
  <1>10. QuietIndexIsExact'
    BY DEF IInv, QuietIndexIsExact, Exact, Busy, Outstanding, RowsOf, Present
  <1> QED
    BY <1>1, <1>3, <1>4, <1>5, <1>6, <1>7, <1>9, <1>10 DEF IInv

\* Writers end early.  What they lose is suspect, so that nobody else's
\* undisturbed items depended on them.
LEMMA LoseParts ==
  ASSUME IInv, NEW W \in SUBSET Writers, Lose(W), UNCHANGED <<itemVars, rows>>
  PROVE  /\ WriterShape' /\ IdsAreBorn' /\ OverlapIsNoted' /\ VictimsCover'
         /\ StaleReadIsRepeated' /\ RowsHaveItems' /\ QuietIndexIsExact'
         /\ DuplicatesAreSuspect'
  <1> DEFINE lost == UNION {Outstanding(w) : w \in W}
  <1> USE DEF itemVars
  <1>1. \A v \in W : /\ pc'[v] = "done" /\ todo'[v] = {} /\ batch'[v] = {} /\ found'[v] = {}
                     /\ victims'[v] = {} /\ disturbed'[v] = {} /\ taken'[v] = {}
    BY DEF Lose, RowsReleased
  <1>2. \A v \in Writers \ W :
           /\ pc'[v] = pc[v] /\ todo'[v] = todo[v] /\ batch'[v] = batch[v]
           /\ found'[v] = found[v] /\ attr'[v] = attr[v] /\ data'[v] = data[v]
           /\ victims'[v] = victims[v] /\ taken'[v] = taken[v]
           /\ disturbed'[v] = disturbed[v] \cup (found[v] \cap lost)
    BY DEF Lose, RowsReleased
  <1>3. suspect' = suspect \cup lost
    BY DEF Lose
  <1>4. \A v \in W : \A i \in Outstanding(v) : i \in lost
    OBVIOUS
  <1> HIDE DEF lost
  <1>5. WriterShape'
    BY <1>1, <1>2 DEF IInv, WriterShape, InTransaction
  <1>6. IdsAreBorn'
    BY <1>1, <1>2 DEF IInv, IdsAreBorn, Outstanding, InTransaction
  <1>7. OverlapIsNoted'
    BY <1>1, <1>2 DEF IInv, OverlapIsNoted
  <1>8. VictimsCover'
    BY <1>1, <1>2 DEF IInv, VictimsCover, RowsOf, InTransaction
  <1>9. \A i \in Items \ lost : Unread(i) => Unread(i)'
    BY <1>2, <1>4 DEF Unread, Outstanding
  <1>10. StaleReadIsRepeated'
    <2> SUFFICES ASSUME NEW v \in Writers \ W,
                        NEW i \in (found[v] \ disturbed'[v]) \cap Present
                 PROVE  Current(v, i)' \/ Unread(i)'
      BY <1>1, <1>2 DEF StaleReadIsRepeated, Present
    <2>1. i \in found[v] \ disturbed[v] /\ i \in Items \ lost
      BY <1>2 DEF Present
    <2> QED
      BY <1>2, <1>9, <2>1 DEF IInv, StaleReadIsRepeated, Current
  <1>11. \A i \in Items \ lost : Busy(i) => Busy(i)'
    BY <1>2, <1>4 DEF Busy, Outstanding
  <1>12. QuietIndexIsExact'
    BY <1>3, <1>11 DEF IInv, QuietIndexIsExact, Exact, RowsOf, Present
  <1>13. RowsHaveItems' /\ DuplicatesAreSuspect'
    BY <1>3 DEF IInv, RowsHaveItems, DuplicatesAreSuspect, RowsOf, Present
  <1> QED
    BY <1>5, <1>6, <1>7, <1>8, <1>10, <1>12, <1>13

\* A writer fails: on a foreign key, as the victim of a deadlock or on anything else.
LEMMA WriterFailureIInv ==
  ASSUME IInv, NEW w \in Writers, TypeOK', Lose({w}), pc[w] # "idle",
         UNCHANGED <<itemVars, rows, requestVars>>
  PROVE  IInv'
  <1>1. TypeOK'
    OBVIOUS
  <1>2. Lose({w}) /\ {w} \in SUBSET Writers /\ UNCHANGED <<itemVars, rows>>
    OBVIOUS
  <1>3. pc[w] # "idle" /\ \A v \in Writers : v # w => pc'[v] = pc[v]
    BY <1>2 DEF Lose
  <1>4. RequestShape'
    BY <1>3, WhoWrites DEF IInv, RequestShape, Present, itemVars, requestVars
  <1> QED
    BY <1>1, <1>2, <1>4, LoseParts DEF IInv

\* The application dies: no request stays open.
LEMMA CrashIInv ==
  ASSUME IInv, Crash
  PROVE  IInv'
  <1> DEFINE tasks == {r \in Requests : pc[r] \notin {"idle", "done"}}
  <1>1. TypeOK'
    BY NextTypeOK DEF IInv, Next
  <1>2. Lose(tasks) /\ tasks \in SUBSET Writers /\ UNCHANGED <<itemVars, rows>>
    BY WhoWrites DEF Crash
  <1>3. \A r \in Requests : pc[r] = "idle" => pc'[r] = "idle"
    BY <1>2, WhoWrites DEF Lose
  <1>4. \A r \in Requests : /\ reqPc'[r] # "done" => reqPc[r] # "done"
                            /\ edits'[r] = {} /\ deletes'[r] = {} /\ collected'[r] = {}
                            /\ cascaded'[r] = {}
    BY DEF Crash
  <1>5. RequestShape'
    BY <1>3, <1>4 DEF IInv, RequestShape
  <1> QED
    BY <1>1, <1>2, <1>5, LoseParts DEF IInv

\* Every step preserves the inductive invariant.
LEMMA NextIInv == IInv /\ [Next]_vars => IInv'
  <1> SUFFICES ASSUME IInv, [Next]_vars
               PROVE  IInv'
    OBVIOUS
  <1>1. CASE Tick \/ UNCHANGED vars
    BY <1>1, TickIInv
  <1>2. ASSUME NEW r \in Requests,
               \/ BeginRequest(r)
               \/ \E S, M, T, D \in SUBSET Items : Write(r, S, M, T, D)
               \/ RequestStep(r) \/ RollbackRequest(r)
        PROVE  IInv'
    BY <1>2, BeginIInv, WriteIInv, CascadeIInv, CommitIInv, RollbackIInv DEF RequestStep
  <1>3. ASSUME NEW j \in Jobs,
               \/ \E mode \in {"select_full", "select_missing"} : SelectTags(j, mode)
               \/ SelectObjects(j)
        PROVE  IInv'
    BY <1>3, JobIInv
  <1>4. ASSUME NEW w \in Writers, WriterStep(w) \/ AbortDeadlocked(w) \/ DatabaseError(w)
        PROVE  IInv'
    <2>1. TypeOK'
      BY NextTypeOK DEF IInv
    <2>2. CASE ForeignKeyViolation(w) \/ DatabaseError(w)
      BY <2>1, <2>2, WriterFailureIInv DEF ForeignKeyViolation, DatabaseError
    <2>3. CASE AbortDeadlocked(w)
      BY <2>1, <2>3, RollbackIInv, WriterFailureIInv DEF AbortDeadlocked
    <2> QED
      BY <1>4, <2>2, <2>3, StartIInv, ReadAttributesIInv, ReadDataIInv, TakeIInv, DeleteIInv,
         InsertIInv, FinishIInv DEF WriterStep
  <1>5. CASE Crash
    BY <1>5, CrashIInv
  <1> QED
    BY <1>1, <1>2, <1>3, <1>4, <1>5 DEF Next

\* The inductive invariant holds in every state.
THEOREM InductiveInvariant == Spec => []IInv
  BY InitIInv, NextIInv, PTL DEF Spec

-----------------------------------------------------------------------------
(* The theorems *)

\* Requests, tasks and jobs keep every table and every local in its type.
THEOREM TypeCorrect == Spec => []TypeOK
  <1>1. IInv => TypeOK
    BY DEF IInv
  <1> QED
    BY <1>1, InductiveInvariant, PTL

\* At rest, the index holds exactly one row per item, with what is committed,
\* for every item whose last processing was neither disturbed nor lost.
THEOREM IndexExact == Spec => []QuietIndexIsExact
  <1>1. IInv => QuietIndexIsExact
    BY DEF IInv
  <1> QED
    BY <1>1, InductiveInvariant, PTL

\* Nothing but overlapping or failing writers ever doubles a row.
THEOREM NoOtherDuplicates == Spec => []DuplicatesAreSuspect
  <1>1. IInv => DuplicatesAreSuspect
    BY DEF IInv
  <1> QED
    BY <1>1, InductiveInvariant, PTL

\* No row of the index outlives its item.
THEOREM NoOrphanRows == Spec => []RowsHaveItems
  <1>1. IInv => RowsHaveItems
    BY DEF IInv
  <1> QED
    BY <1>1, InductiveInvariant, PTL

-----------------------------------------------------------------------------
(* Rows only advance *)

\* Nobody holds what is not committed yet.
ReadsArePast ==
    /\ \A w \in Writers, i \in Items : attr[w][i] <= version[i] /\ data[w][i] <= version[i]
    /\ \A row \in rows : row.attr <= version[row.item] /\ row.data <= version[row.item]

\* What an undisturbed writer has read is not older than any row of the item.
RowsAreOlder ==
    \A w \in Writers : \A i \in found[w] \ disturbed[w] : \A row \in RowsOf({i}) :
        row.attr <= attr[w][i] /\ (pc[w] = "data" \/ row.data <= data[w][i])

ReadsAdvance == ReadsArePast /\ RowsAreOlder

\* What the types say of versions and rows.
LEMMA VersionNumbers ==
  ASSUME TypeOK
  PROVE  /\ \A i \in Items : version[i] \in Nat
         /\ \A w \in Writers, i \in Items : attr[w][i] \in Nat /\ data[w][i] \in Nat
         /\ \A row \in rows : row.item \in Items /\ row.attr \in Nat /\ row.data \in Nat
         /\ \A w \in Writers : found[w] \subseteq Items
  BY DEF TypeOK, ItemTypes, WriterTypes, Versions, Row

\* A step that leaves alone what was read and what is committed.
LEMMA AdvanceFrame ==
  ASSUME ReadsAdvance, UNCHANGED <<version, rows, found, attr, data, disturbed>>,
         \A w \in Writers : pc[w] = "data" => pc'[w] = "data"
  PROVE  ReadsAdvance'
  BY DEF ReadsAdvance, ReadsArePast, RowsAreOlder, RowsOf

\* A request commits: versions grow, rows go.
LEMMA AdvanceCommit ==
  ASSUME IInv, ReadsAdvance, NEW r \in Requests, CommitRequest(r)
  PROVE  ReadsAdvance'
  <1> USE VersionNumbers DEF IInv
  <1>1. /\ rows' \subseteq rows
        /\ UNCHANGED <<found, attr, data, disturbed>>
    BY DEF CommitRequest, batchVars, historyVars
  <1>2. \A i \in Items : version[i] <= version'[i] /\ version'[i] \in Nat
    BY DEF CommitRequest
  <1>3. \A w \in Writers : pc[w] = "data" => pc'[w] = "data"
    <2>1. pc[r] = "idle"
      BY DEF RequestShape, CommitRequest
    <2>2. \A w \in Writers : w # r => pc'[w] = pc[w]
      BY DEF CommitRequest, TypeOK, WriterTypes
    <2> QED
      BY <2>1, <2>2
  <1>4. ReadsArePast'
    <2>1. ASSUME NEW w \in Writers, NEW i \in Items
          PROVE  attr'[w][i] <= version'[i] /\ data'[w][i] <= version'[i]
      BY <1>1, <1>2 DEF ReadsAdvance, ReadsArePast
    <2>2. ASSUME NEW row \in rows'
          PROVE  row.attr <= version'[row.item] /\ row.data <= version'[row.item]
      BY <1>1, <1>2 DEF ReadsAdvance, ReadsArePast
    <2> QED
      BY <2>1, <2>2 DEF ReadsArePast
  <1>5. RowsAreOlder'
    BY <1>1, <1>3 DEF ReadsAdvance, RowsAreOlder, RowsOf
  <1> QED
    BY <1>4, <1>5 DEF ReadsAdvance

\* A writer reads attributes, which are not older than any row.
LEMMA AdvanceRead ==
  ASSUME IInv, ReadsAdvance, NEW w \in Writers, ReadAttributes(w)
  PROVE  ReadsAdvance'
  <1> DEFINE F == batch[w] \cap Present
  <1> USE VersionNumbers DEF IInv
  <1>1. /\ UNCHANGED <<version, rows>>
        /\ \A v \in Writers \ {w} : /\ pc'[v] = pc[v] /\ found'[v] = found[v]
                                    /\ attr'[v] = attr[v] /\ data'[v] = data[v]
                                    /\ disturbed[v] \subseteq disturbed'[v]
    BY DEF ReadAttributes, itemVars, TypeOK, WriterTypes, HistoryTypes
  <1>2. /\ found'[w] = F /\ F \subseteq Items
        /\ \A i \in Items : attr'[w][i] = IF i \in F THEN version[i] ELSE 0
        /\ \A i \in Items : data'[w][i] = IF i \in F \cap Tags THEN version[i] ELSE 0
        /\ pc'[w] = "data" \/ F \subseteq Tags
    BY DEF ReadAttributes, TypeOK, WriterTypes, Present
  <1>3. ReadsArePast'
    <2>1. ASSUME NEW v \in Writers, NEW i \in Items
          PROVE  attr'[v][i] <= version'[i] /\ data'[v][i] <= version'[i]
      <3>1. CASE v = w
        BY <1>1, <1>2, <3>1
      <3>2. CASE v # w
        BY <1>1, <3>2 DEF ReadsAdvance, ReadsArePast
      <3> QED
        BY <3>1, <3>2
    <2> QED
      BY <1>1, <2>1 DEF ReadsAdvance, ReadsArePast
  <1>4. RowsAreOlder'
    <2> SUFFICES ASSUME NEW v \in Writers, NEW i \in found'[v] \ disturbed'[v], NEW row \in RowsOf({i})'
                 PROVE  row.attr <= attr'[v][i] /\ (pc'[v] = "data" \/ row.data <= data'[v][i])
      BY DEF RowsAreOlder
    <2>1. row \in rows /\ row.item = i /\ row \in RowsOf({i})
      BY <1>1 DEF RowsOf
    <2>2. CASE v = w
      <3>1. i \in F /\ row.attr <= version[i] /\ row.data <= version[i]
        BY <1>2, <2>1, <2>2 DEF ReadsAdvance, ReadsArePast
      <3> QED
        BY <1>2, <2>2, <3>1
    <2>3. CASE v # w
      <3>1. i \in found[v] \ disturbed[v]
        BY <1>1, <2>3
      <3> QED
        BY <1>1, <2>1, <2>3, <3>1 DEF ReadsAdvance, RowsAreOlder
    <2> QED
      BY <2>2, <2>3
  <1> QED
    BY <1>3, <1>4 DEF ReadsAdvance

\* A writer reads data.
LEMMA AdvanceReadData ==
  ASSUME IInv, ReadsAdvance, NEW w \in Writers, ReadData(w)
  PROVE  ReadsAdvance'
  <1> USE VersionNumbers DEF IInv
  <1>1. /\ UNCHANGED <<version, rows, found, attr, disturbed>>
        /\ \A v \in Writers \ {w} : pc'[v] = pc[v] /\ data'[v] = data[v]
        /\ \A i \in Items : data'[w][i] = IF i \in found[w] THEN version[i] ELSE 0
    BY DEF ReadData, itemVars, historyVars, TypeOK, WriterTypes
  <1>2. ReadsArePast'
    <2>1. ASSUME NEW v \in Writers, NEW i \in Items
          PROVE  attr'[v][i] <= version'[i] /\ data'[v][i] <= version'[i]
      <3>1. CASE v = w
        BY <1>1, <3>1 DEF ReadsAdvance, ReadsArePast
      <3>2. CASE v # w
        BY <1>1, <3>2 DEF ReadsAdvance, ReadsArePast
      <3> QED
        BY <3>1, <3>2
    <2> QED
      BY <1>1, <2>1 DEF ReadsAdvance, ReadsArePast
  <1>3. RowsAreOlder'
    <2> SUFFICES ASSUME NEW v \in Writers, NEW i \in found[v] \ disturbed[v], NEW row \in RowsOf({i})
                 PROVE  row.attr <= attr[v][i] /\ (pc'[v] = "data" \/ row.data <= data'[v][i])
      BY <1>1 DEF RowsAreOlder, RowsOf
    <2>1. row \in rows /\ row.item = i /\ i \in Items
      BY DEF RowsOf
    <2>2. row.attr <= attr[v][i] /\ (pc[v] = "data" \/ row.data <= data[v][i])
      BY DEF ReadsAdvance, RowsAreOlder
    <2>3. CASE v = w
      BY <1>1, <2>1, <2>2, <2>3 DEF ReadsAdvance, ReadsArePast
    <2>4. CASE v # w
      BY <1>1, <2>2, <2>4
    <2> QED
      BY <2>3, <2>4
  <1> QED
    BY <1>2, <1>3 DEF ReadsAdvance

\* A writer inserts: of other writers that hold the item, all are disturbed.
LEMMA AdvanceInsert ==
  ASSUME IInv, ReadsAdvance, NEW w \in Writers, InsertAndCommit(w)
  PROVE  ReadsAdvance'
  <1> USE VersionNumbers DEF IInv
  <1>1. /\ version' = version
        /\ \A v \in Writers \ {w} : /\ pc'[v] = pc[v] /\ found'[v] = found[v] /\ disturbed'[v] = disturbed[v]
                                    /\ attr'[v] = attr[v] /\ data'[v] = data[v]
        /\ found'[w] = {} /\ attr'[w] = NoVersions /\ data'[w] = NoVersions
    BY DEF InsertAndCommit, EndBatch, itemVars, TypeOK, WriterTypes, HistoryTypes
  <1>2. \A row \in rows' : \/ row \in rows
                           \/ \E i \in found[w] : row.item = i /\ row.attr = attr[w][i] /\ row.data = data[w][i]
    BY DEF InsertAndCommit, NewRow
  <1>3. ReadsArePast'
    <2>1. ASSUME NEW v \in Writers, NEW i \in Items
          PROVE  attr'[v][i] <= version'[i] /\ data'[v][i] <= version'[i]
      <3>1. CASE v = w
        BY <1>1, <3>1 DEF NoVersions
      <3>2. CASE v # w
        BY <1>1, <3>2 DEF ReadsAdvance, ReadsArePast
      <3> QED
        BY <3>1, <3>2
    <2>2. ASSUME NEW row \in rows'
          PROVE  row.attr <= version'[row.item] /\ row.data <= version'[row.item]
      BY <1>1, <1>2 DEF ReadsAdvance, ReadsArePast
    <2> QED
      BY <2>1, <2>2 DEF ReadsArePast
  <1>4. RowsAreOlder'
    <2> SUFFICES ASSUME NEW v \in Writers, NEW i \in found'[v] \ disturbed'[v], NEW row \in RowsOf({i})'
                 PROVE  row.attr <= attr'[v][i] /\ (pc'[v] = "data" \/ row.data <= data'[v][i])
      BY DEF RowsAreOlder
    <2>1. v # w /\ i \in found[v] \ disturbed[v]
      BY <1>1
    <2>2. i \notin found[w]
      BY <2>1 DEF OverlapIsNoted
    <2>3. row \in RowsOf({i})
      BY <1>2, <2>2 DEF RowsOf
    <2> QED
      BY <1>1, <2>1, <2>3 DEF ReadsAdvance, RowsAreOlder
  <1> QED
    BY <1>3, <1>4 DEF ReadsAdvance

\* Writers are lost.
LEMMA AdvanceLose ==
  ASSUME IInv, ReadsAdvance, NEW W \in SUBSET Writers, Lose(W), UNCHANGED <<version, rows>>
  PROVE  ReadsAdvance'
  <1> USE VersionNumbers DEF IInv
  <1>1. /\ \A v \in Writers \ W : /\ pc'[v] = pc[v] /\ found'[v] = found[v] /\ disturbed[v] \subseteq disturbed'[v]
                                  /\ attr'[v] = attr[v] /\ data'[v] = data[v]
        /\ \A v \in W : found'[v] = {} /\ attr'[v] = NoVersions /\ data'[v] = NoVersions
    BY DEF Lose
  <1>2. ReadsArePast'
    <2>1. ASSUME NEW v \in Writers, NEW i \in Items
          PROVE  attr'[v][i] <= version'[i] /\ data'[v][i] <= version'[i]
      <3>1. CASE v \in W
        BY <1>1, <3>1 DEF NoVersions
      <3>2. CASE v \notin W
        BY <1>1, <3>2 DEF ReadsAdvance, ReadsArePast
      <3> QED
        BY <3>1, <3>2
    <2> QED
      BY <2>1 DEF ReadsAdvance, ReadsArePast
  <1>3. RowsAreOlder'
    BY <1>1 DEF ReadsAdvance, RowsAreOlder, RowsOf
  <1> QED
    BY <1>2, <1>3 DEF ReadsAdvance

\* Every step preserves it.
LEMMA AdvanceNext == IInv /\ ReadsAdvance /\ [Next]_vars => ReadsAdvance'
  <1> SUFFICES ASSUME IInv, ReadsAdvance, [Next]_vars
               PROVE  ReadsAdvance'
    OBVIOUS
  <1> USE DEF itemVars, writerVars, batchVars, historyVars
  <1>1. CASE Tick \/ UNCHANGED vars
    BY <1>1, AdvanceFrame DEF Tick, vars
  <1>2. ASSUME NEW r \in Requests,
               \/ BeginRequest(r) \/ \E S, M, T, D \in SUBSET Items : Write(r, S, M, T, D)
               \/ \E i \in Items : Cascade(r, i)
        PROVE  ReadsAdvance'
    BY <1>2, AdvanceFrame DEF BeginRequest, Write, Cascade
  <1>3. ASSUME NEW r \in Requests, RollbackRequest(r)
        PROVE  ReadsAdvance'
    <2>1. pc[r] = "idle" /\ \A w \in Writers : w # r => pc'[w] = pc[w]
      BY <1>3 DEF IInv, RequestShape, RollbackRequest, TypeOK, WriterTypes
    <2> QED
      BY <1>3, <2>1, AdvanceFrame DEF RollbackRequest
  <1>4. ASSUME NEW j \in Jobs,
               \/ \E mode \in {"select_full", "select_missing"} : SelectTags(j, mode)
               \/ SelectObjects(j)
        PROVE  ReadsAdvance'
    <2>1. pc[j] # "data" /\ \A w \in Writers : w # j => pc'[w] = pc[w]
      BY <1>4 DEF SelectTags, SelectObjects, IInv, TypeOK, WriterTypes
    <2> QED
      BY <1>4, <2>1, AdvanceFrame DEF SelectTags, SelectObjects
  <1>5. ASSUME NEW w \in Writers,
               \/ \E B \in SUBSET todo[w] : StartBatch(w, B)
               \/ DeleteSnapshot(w) \/ DeleteRows(w) \/ FinishWriter(w)
               \/ \E row \in rows : TakeRow(w, row)
        PROVE  ReadsAdvance'
    <2>1. \A v \in Writers : pc[v] = "data" => pc'[v] = "data"
      BY <1>5 DEF StartBatch, DeleteSnapshot, TakeRow, DeleteRows, FinishWriter, IInv, TypeOK,
         WriterTypes
    <2> QED
      BY <1>5, <2>1, AdvanceFrame DEF StartBatch, DeleteSnapshot, TakeRow, DeleteRows, FinishWriter
  <1>6. ASSUME NEW w \in Writers, ForeignKeyViolation(w) \/ AbortDeadlocked(w) \/ DatabaseError(w)
        PROVE  ReadsAdvance'
    BY <1>3, <1>6, AdvanceLose DEF ForeignKeyViolation, AbortDeadlocked, DatabaseError
  <1>7. CASE Crash
    <2>1. {r \in Requests : pc[r] \notin {"idle", "done"}} \in SUBSET Writers
      BY WhoWrites
    <2> QED
      BY <1>7, <2>1, AdvanceLose DEF Crash
  <1> QED
    BY <1>1, <1>2, <1>3, <1>4, <1>5, <1>6, <1>7, AdvanceCommit, AdvanceRead, AdvanceReadData,
       AdvanceInsert DEF Next, RequestStep, WriterStep

\* No row of an item that is not suspect ever holds less than a row it replaces or stands
\* beside, whatever writers overlap.  (object_processing_async.py, update_searchables.py.)
THEOREM RowsAdvance == Spec => RowsOnlyAdvance
  <1> DEFINE Advances == \A i \in Items \ suspect' : \A p \in RowsOf({i}), q \in RowsOf({i})' :
                             p.attr <= q.attr /\ p.data <= q.data
  <1>1. Init => ReadsAdvance
    <2> SUFFICES ASSUME Init PROVE ReadsAdvance
      OBVIOUS
    <2>1. PICK I \in SUBSET Stored : rows = {StoredRow(i) : i \in I} /\ suspect = Stored \ I
      BY DEF Init
    <2>2. \A row \in rows : row.item \in Items /\ row.attr = 0 /\ row.data = 0
      BY <2>1, StoredAreItems DEF StoredRow
    <2>3. /\ \A i \in Items : version[i] = 0
          /\ \A w \in Writers, i \in Items : attr[w][i] = 0 /\ data[w][i] = 0
      BY DEF Init, NoVersions
    <2>4. ReadsArePast
      BY <2>2, <2>3 DEF ReadsArePast
    <2>5. RowsAreOlder
      BY DEF Init, RowsAreOlder
    <2> QED
      BY <2>4, <2>5 DEF ReadsAdvance
  <1>2. ASSUME IInv, ReadsAdvance, [Next]_vars
        PROVE  Advances
    <2> USE <1>2, VersionNumbers DEF IInv
    <2>1. ASSUME suspect \subseteq suspect', rows' \subseteq rows
          PROVE  Advances
      <3> SUFFICES ASSUME NEW i \in Items \ suspect', NEW p \in RowsOf({i}), NEW q \in RowsOf({i})'
                   PROVE  p.attr <= q.attr /\ p.data <= q.data
        OBVIOUS
      <3>1. p = q
        BY <2>1 DEF DuplicatesAreSuspect, RowsOf
      <3>2. p.attr \in Nat /\ p.data \in Nat
        BY DEF RowsOf
      <3> QED
        BY <3>1, <3>2
    <2>2. ASSUME NEW w \in Writers, InsertAndCommit(w)
          PROVE  Advances
      <3> SUFFICES ASSUME NEW i \in Items \ suspect', NEW p \in RowsOf({i}), NEW q \in RowsOf({i})'
                   PROVE  p.attr <= q.attr /\ p.data <= q.data
        OBVIOUS
      <3>1. /\ rows' = (rows \ victims[w]) \cup {NewRow(w, k) : k \in found[w]}
            /\ suspect' = (suspect \ found[w]) \cup (found[w] \cap disturbed[w])
            /\ pc[w] = "insert"
        BY <2>2 DEF InsertAndCommit
      <3>2. CASE i \in found[w]
        <4>1. i \notin disturbed[w] /\ RowsOf({i}) \subseteq victims[w]
          BY <3>1, <3>2 DEF VictimsCover, RowsOf
        <4>2. q \notin rows \ victims[w] /\ q \in rows' /\ q.item = i
          BY <4>1 DEF RowsOf
        <4>3. PICK k \in found[w] : q = NewRow(w, k)
          BY <3>1, <4>2
        <4>4. q.attr = attr[w][i] /\ q.data = data[w][i]
          BY <4>2, <4>3 DEF NewRow
        <4> QED
          BY <3>1, <3>2, <4>1, <4>4 DEF ReadsAdvance, RowsAreOlder
      <3>3. CASE i \notin found[w]
        <4>1. i \notin suspect /\ q \in RowsOf({i})
          BY <3>1, <3>3 DEF RowsOf, NewRow
        <4>2. p = q /\ p.attr \in Nat /\ p.data \in Nat
          BY <4>1 DEF DuplicatesAreSuspect, RowsOf
        <4> QED
          BY <4>2
      <3> QED
        BY <3>2, <3>3
    <2>3. \/ suspect \subseteq suspect' /\ rows' \subseteq rows
          \/ \E w \in Writers : InsertAndCommit(w)
      <3>1. CASE Tick \/ UNCHANGED vars
        BY <3>1 DEF Tick, vars, historyVars
      <3>2. ASSUME NEW r \in Requests,
                   \/ BeginRequest(r) \/ \E S, M, T, D \in SUBSET Items : Write(r, S, M, T, D)
                   \/ \E i \in Items : Cascade(r, i)
            PROVE  suspect \subseteq suspect' /\ rows' \subseteq rows
        BY <3>2 DEF BeginRequest, Write, Cascade, historyVars
      <3>3. ASSUME NEW r \in Requests, CommitRequest(r) \/ RollbackRequest(r)
            PROVE  suspect \subseteq suspect' /\ rows' \subseteq rows
        BY <3>3 DEF CommitRequest, RollbackRequest, historyVars
      <3>4. ASSUME NEW j \in Jobs,
                   \/ \E mode \in {"select_full", "select_missing"} : SelectTags(j, mode)
                   \/ SelectObjects(j)
            PROVE  suspect \subseteq suspect' /\ rows' \subseteq rows
        BY <3>4 DEF SelectTags, SelectObjects, historyVars
      <3>5. ASSUME NEW w \in Writers, WriterStep(w) \/ AbortDeadlocked(w) \/ DatabaseError(w),
                   ~ InsertAndCommit(w)
            PROVE  suspect \subseteq suspect' /\ rows' \subseteq rows
        BY <3>3, <3>5 DEF WriterStep, StartBatch, ReadAttributes, ReadData, DeleteSnapshot, TakeRow,
           DeleteRows, FinishWriter, ForeignKeyViolation, AbortDeadlocked, DatabaseError, Lose,
           historyVars
      <3>6. CASE Crash
        BY <3>6 DEF Crash, Lose
      <3> QED
        BY <3>1, <3>2, <3>3, <3>4, <3>5, <3>6 DEF Next, RequestStep
    <2> QED
      BY <2>1, <2>2, <2>3
  <1>3. IInv /\ ReadsAdvance /\ [Next]_vars => [Advances]_vars
    BY <1>2
  <1> QED
    BY <1>1, <1>3, AdvanceNext, InductiveInvariant, PTL DEF Spec, RowsOnlyAdvance

=============================================================================
