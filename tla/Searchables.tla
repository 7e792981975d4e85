------------------------------ MODULE Searchables ------------------------------
(***************************************************************************)
(* The search index of the backend: the `searchables` table, the requests  *)
(* that change tags and objects, the background task each of them leaves   *)
(* behind to refresh the index, and the scheduled update_searchables job,  *)
(* a separate process that refreshes the index too.                        *)
(*                                                                         *)
(* The database is PostgreSQL at READ COMMITTED: a statement sees what was *)
(* committed when it started, row locks are held until the transaction     *)
(* ends, and a transaction is visible in one step.                         *)
(*                                                                         *)
(* A tag or an object is an item.  Its content is a version number that    *)
(* every committed change increments; an object is read by two statements  *)
(* (attributes, then data), so an index row holds two version numbers.     *)
(***************************************************************************)
EXTENDS Naturals, FiniteSets

CONSTANTS
    Tags,       \* tag ids
    Objects,    \* object ids
    Requests,   \* HTTP requests; each may leave one background task
    Jobs,       \* runs of the scheduled job
    Stored,     \* items that exist at the start
    BatchSize,  \* items per transaction of a writer (1000 in the code)
    MaxTime,    \* bound: the clock stops here
    MaxFaults   \* bound: crashes and database errors

Items == Tags \cup Objects
Writers == Requests \cup Jobs

ASSUME KindsAreDisjoint == Tags \cap Objects = {}
ASSUME StoredAreItems == Stored \subseteq Items
ASSUME WritersAreDisjoint == Requests \cap Jobs = {}
ASSUME BoundsAreNaturals == BatchSize \in Nat \ {0} /\ MaxTime \in Nat /\ MaxFaults \in Nat

VARIABLES
    clock,
    (* tables tags and objects, committed *)
    life,       \* an id is "unborn", then "present", then "deleted" for good
    version,    \* number of committed content changes
    modifiedAt, \* column modified_at
    (* table searchables, committed *)
    rows,
    (* requests *)
    reqPc,      \* "new" | "open" | "cascading" | "written" | "done"
    reqTime,    \* request[request_time_key]
    edits,      \* items inserted or updated by the open transaction
    touches,    \* items whose modified_at alone it sets
    deletes,    \* items it deletes
    cascaded,   \* those whose index rows its cascade has deleted
    collected,  \* searchable_updates_tag_ids and _object_ids
    (* writers of the index: background tasks and job runs *)
    pc,         \* where a writer is
    todo,       \* ids it has still to process
    batch,      \* ids of the transaction it is in
    found,      \* those of them its first SELECT returned
    attr, data, \* versions its SELECTs returned
    stamp,      \* modified_at it gives to its rows
    victims,    \* rows its DELETE sees, then those it has deleted
    taken,      \* those of them it has locked
    (* history *)
    disturbed,  \* items another writer processed during this writer's transaction
    suspect,    \* items whose last processing was disturbed or lost
    faults

itemVars == <<life, version, modifiedAt>>
requestVars == <<reqPc, reqTime, edits, touches, deletes, cascaded, collected>>
batchVars == <<batch, found, attr, data, stamp, victims, taken>>
writerVars == <<pc, todo, batchVars>>
historyVars == <<disturbed, suspect, faults>>
vars == <<clock, itemVars, rows, requestVars, writerVars, historyVars>>

Versions == [Items -> Nat]
NoVersions == [i \in Items |-> 0]
Row == [item : Items, attr : Nat, data : Nat, stamp : Nat,
        by : Writers \cup {"earlier"}]
InTransaction == {"attrs", "data", "delete", "lock", "insert"}

ItemTypes ==
    /\ clock \in Nat
    /\ life \in [Items -> {"unborn", "present", "deleted"}]
    /\ version \in Versions
    /\ modifiedAt \in [Items -> Nat]
    /\ rows \in SUBSET Row

RequestTypes ==
    /\ reqPc \in [Requests -> {"new", "open", "cascading", "written", "done"}]
    /\ reqTime \in [Requests -> Nat]
    /\ edits \in [Requests -> SUBSET Items]
    /\ touches \in [Requests -> SUBSET Items]
    /\ deletes \in [Requests -> SUBSET Items]
    /\ cascaded \in [Requests -> SUBSET Items]
    /\ collected \in [Requests -> SUBSET Items]

WriterTypes ==
    /\ pc \in [Writers -> InTransaction \cup
                          {"idle", "select_full", "select_missing", "queued", "done"}]
    /\ todo \in [Writers -> SUBSET Items]
    /\ batch \in [Writers -> SUBSET Items]
    /\ found \in [Writers -> SUBSET Items]
    /\ attr \in [Writers -> Versions]
    /\ data \in [Writers -> Versions]
    /\ stamp \in [Writers -> Nat]
    /\ victims \in [Writers -> SUBSET Row]
    /\ taken \in [Writers -> SUBSET Row]

HistoryTypes ==
    /\ disturbed \in [Writers -> SUBSET Items]
    /\ suspect \in SUBSET Items
    /\ faults \in Nat

TypeOK == ItemTypes /\ RequestTypes /\ WriterTypes /\ HistoryTypes

Present == {i \in Items : life[i] = "present"}
RowsOf(S) == {row \in rows : row.item \in S}

\* A row left by a writer that has ended long ago.
StoredRow(i) == [item |-> i, attr |-> 0, data |-> 0, stamp |-> 0, by |-> "earlier"]

\* Of the items that exist, the index holds some, exactly; those whose processing
\* was lost are suspect from the start.
Init ==
    /\ clock = 0
    /\ life = [i \in Items |-> IF i \in Stored THEN "present" ELSE "unborn"]
    /\ version = NoVersions
    /\ modifiedAt = [i \in Items |-> 0]
    /\ \E I \in SUBSET Stored : rows = {StoredRow(i) : i \in I} /\ suspect = Stored \ I
    /\ reqPc = [r \in Requests |-> "new"]
    /\ reqTime = [r \in Requests |-> 0]
    /\ edits = [r \in Requests |-> {}]
    /\ touches = [r \in Requests |-> {}]
    /\ deletes = [r \in Requests |-> {}]
    /\ cascaded = [r \in Requests |-> {}]
    /\ collected = [r \in Requests |-> {}]
    /\ pc = [w \in Writers |-> "idle"]
    /\ todo = [w \in Writers |-> {}]
    /\ batch = [w \in Writers |-> {}]
    /\ found = [w \in Writers |-> {}]
    /\ attr = [w \in Writers |-> NoVersions]
    /\ data = [w \in Writers |-> NoVersions]
    /\ stamp = [w \in Writers |-> 0]
    /\ victims = [w \in Writers |-> {}]
    /\ taken = [w \in Writers |-> {}]
    /\ disturbed = [w \in Writers |-> {}]
    /\ faults = 0

Tick ==
    /\ clock < MaxTime
    /\ clock' = clock + 1
    /\ UNCHANGED <<itemVars, rows, requestVars, writerVars, historyVars>>

-----------------------------------------------------------------------------
(* Requests *)

\* The logging middleware records the request's time before anything else.
BeginRequest(r) ==
    /\ reqPc[r] = "new"
    /\ reqPc' = [reqPc EXCEPT ![r] = "open"]
    /\ reqTime' = [reqTime EXCEPT ![r] = clock]
    /\ UNCHANGED <<clock, itemVars, rows, edits, touches, deletes, cascaded, collected,
                   writerVars, historyVars>>

\* The rows a request may write, delete or only refer to: a written row is
\* locked against writers, a row referred to against deletion.
Unlocked(r, written, named, deleted) ==
    \A q \in Requests \ {r} :
        /\ (written \cup deleted) \cap (edits[q] \cup touches[q] \cup deletes[q]) = {}
        /\ named \cap deletes[q] = {}
        /\ deleted \cap collected[q] = {}

\* What one route handler writes.  S: items added or updated; M: existing tags
\* named in an object's added tags, queued for the index though unchanged;
\* T: objects of /objects/update_tags, whose modified_at alone is set;
\* D: objects of /objects/delete or of a bulk upsert, or tags of /tags/delete.
TagsAddOrUpdate(S, M, T, D) ==
    S \subseteq Tags /\ Cardinality(S) = 1 /\ M \cup T \cup D = {}
TagsDelete(S, M, T, D) == D # {} /\ D \subseteq Tags /\ S \cup M \cup T = {}
ObjectsUpsert(S, M, T, D) ==
    /\ S \cap Objects # {} /\ T = {} /\ D \subseteq Objects \ S
    /\ \A i \in S \cap Tags : life[i] = "unborn"
ObjectsUpdateTags(S, M, T, D) ==
    T # {} /\ D = {} /\ \A i \in S : i \in Tags /\ life[i] = "unborn"
ObjectsDelete(S, M, T, D) == D # {} /\ D \subseteq Objects /\ S \cup M \cup T = {}

HandlerWrites(S, M, T, D) ==
    /\ M \subseteq Tags \ S /\ T \subseteq Objects
    /\ \/ TagsAddOrUpdate(S, M, T, D)
       \/ TagsDelete(S, M, T, D)
       \/ ObjectsUpsert(S, M, T, D)
       \/ ObjectsUpdateTags(S, M, T, D)
       \/ ObjectsDelete(S, M, T, D)

\* Mutant: the object handlers forget to queue their objects.
OnlyTagsCollected(S, M) == M \cup (S \cap Tags)

\* add_searchable_updates_for_tags and _objects.
CollectedIds(S, M) == S \cup M

\* The rows written are locked here; what is deleted has its index rows still to go.
Write(r, S, M, T, D) ==
    /\ reqPc[r] = "open"
    /\ HandlerWrites(S, M, T, D)
    /\ \A i \in S : life[i] # "deleted"
    /\ M \cup T \cup D \subseteq Present
    /\ Unlocked(r, S \cup T, M, D)
    /\ reqPc' = [reqPc EXCEPT ![r] = IF D = {} THEN "written" ELSE "cascading"]
    /\ edits' = [edits EXCEPT ![r] = S]
    /\ touches' = [touches EXCEPT ![r] = T]
    /\ deletes' = [deletes EXCEPT ![r] = D]
    /\ collected' = [collected EXCEPT ![r] = CollectedIds(S, M)]
    /\ UNCHANGED <<clock, itemVars, rows, reqTime, cascaded, writerVars, historyVars>>

\* The cascade to searchables, item by item at the end of the DELETE: it waits for
\* the writer that has locked a row of the item, the row of the item locked already.
Cascade(r, i) ==
    /\ reqPc[r] = "cascading"
    /\ i \in deletes[r] \ cascaded[r]
    /\ \A w \in Writers : \A row \in taken[w] : row.item # i
    /\ cascaded' = [cascaded EXCEPT ![r] = @ \cup {i}]
    /\ reqPc' = [reqPc EXCEPT ![r] = IF deletes[r] \subseteq cascaded[r] \cup {i}
                                     THEN "written" ELSE "cascading"]
    /\ UNCHANGED <<clock, itemVars, rows, reqTime, edits, touches, deletes, collected,
                   writerVars, historyVars>>

\* Mutant: only the first of the two sets of ids is handed over.
OnlyTagsDispatched(r) == collected[r] \cap Tags

\* The ids a committed request hands to its task.
DispatchedIds(r) == collected[r]

\* The connection middleware commits; the tasks middleware then leaves a task
\* behind if any id was collected.  Deleted items take their index rows along.
CommitRequest(r) ==
    /\ reqPc[r] \in {"open", "written"}
    /\ reqPc' = [reqPc EXCEPT ![r] = "done"]
    /\ life' = [i \in Items |-> IF i \in edits[r] THEN "present"
                                ELSE IF i \in deletes[r] THEN "deleted" ELSE life[i]]
    /\ version' = [i \in Items |-> IF i \in edits[r] THEN version[i] + 1 ELSE version[i]]
    /\ modifiedAt' = [i \in Items |-> IF i \in edits[r] \cup touches[r]
                                      THEN reqTime[r] ELSE modifiedAt[i]]
    /\ rows' = rows \ RowsOf(deletes[r])
    /\ pc' = [pc EXCEPT ![r] = IF DispatchedIds(r) # {} THEN "queued" ELSE "done"]
    /\ todo' = [todo EXCEPT ![r] = DispatchedIds(r)]
    /\ edits' = [edits EXCEPT ![r] = {}]
    /\ touches' = [touches EXCEPT ![r] = {}]
    /\ deletes' = [deletes EXCEPT ![r] = {}]
    /\ cascaded' = [cascaded EXCEPT ![r] = {}]
    /\ collected' = [collected EXCEPT ![r] = {}]
    /\ UNCHANGED <<clock, reqTime, batchVars, historyVars>>

\* Any exception: the transaction is rolled back and the collected ids dropped.
RollbackRequest(r) ==
    /\ reqPc[r] \in {"open", "cascading", "written"}
    /\ reqPc' = [reqPc EXCEPT ![r] = "done"]
    /\ pc' = [pc EXCEPT ![r] = "done"]
    /\ edits' = [edits EXCEPT ![r] = {}]
    /\ touches' = [touches EXCEPT ![r] = {}]
    /\ deletes' = [deletes EXCEPT ![r] = {}]
    /\ cascaded' = [cascaded EXCEPT ![r] = {}]
    /\ collected' = [collected EXCEPT ![r] = {}]
    /\ UNCHANGED <<clock, itemVars, rows, reqTime, todo, batchVars, historyVars>>

-----------------------------------------------------------------------------
(* The scheduled job: which ids it takes *)

\* "missing" mode: LEFT JOIN searchables ... WHERE searchables.modified_at <
\* item.modified_at OR searchables.modified_at ISNULL.
Missing(S) ==
    {i \in S \cap Present : \/ RowsOf({i}) = {}
                            \/ \E row \in RowsOf({i}) : row.stamp < modifiedAt[i]}

Selected(mode, S) == IF mode = "select_full" THEN S \cap Present ELSE Missing(S)

SelectTags(j, mode) ==
    /\ pc[j] = "idle"
    /\ pc' = [pc EXCEPT ![j] = mode]
    /\ todo' = [todo EXCEPT ![j] = Selected(mode, Tags)]
    /\ UNCHANGED <<clock, itemVars, rows, requestVars, batchVars, historyVars>>

SelectObjects(j) ==
    /\ pc[j] \in {"select_full", "select_missing"}
    /\ pc' = [pc EXCEPT ![j] = "queued"]
    /\ todo' = [todo EXCEPT ![j] = @ \cup Selected(pc[j], Objects)]
    /\ UNCHANGED <<clock, itemVars, rows, requestVars, batchVars, historyVars>>

-----------------------------------------------------------------------------
(* Writers: update_searchables and update_searchables_coro *)

\* Tag batches come first.  A task stamps object rows with its request's time;
\* tag rows, and every row of the job, get the time the batch starts.
NextBatch(w, B) ==
    LET kind == IF todo[w] \cap Tags # {} THEN Tags ELSE Objects IN
    /\ B # {} /\ B \subseteq todo[w] \cap kind
    /\ B = todo[w] \cap kind \/ Cardinality(B) = BatchSize
    /\ Cardinality(B) <= BatchSize

\* What the loop over range(0, len(ids), 1000) leaves for later batches.
Remaining(w, B) == todo[w] \ B

BatchStamp(w, B) == IF w \in Requests /\ B \subseteq Objects THEN reqTime[w] ELSE clock

StartBatch(w, B) ==
    /\ pc[w] = "queued"
    /\ NextBatch(w, B)
    /\ pc' = [pc EXCEPT ![w] = "attrs"]
    /\ batch' = [batch EXCEPT ![w] = B]
    /\ todo' = [todo EXCEPT ![w] = Remaining(w, B)]
    /\ stamp' = [stamp EXCEPT ![w] = BatchStamp(w, B)]
    /\ UNCHANGED <<clock, itemVars, rows, requestVars, found, attr, data, victims, taken,
                   historyVars>>

\* The first SELECT.  With nothing found the transaction commits empty.
\* History: two writers that hold an item's content at once disturb each other.
ReadAttributes(w) ==
    LET F == batch[w] \cap Present
        others == {v \in Writers \ {w} : found[v] \cap F # {}}
        overlap == F \cap UNION {found[v] : v \in others} IN
    /\ pc[w] = "attrs"
    /\ pc' = [pc EXCEPT ![w] = IF F = {} THEN "queued"
                               ELSE IF batch[w] \subseteq Tags THEN "delete" ELSE "data"]
    /\ found' = [found EXCEPT ![w] = F]
    /\ batch' = [batch EXCEPT ![w] = IF F = {} THEN {} ELSE @]
    /\ stamp' = [stamp EXCEPT ![w] = IF F = {} THEN 0 ELSE @]
    /\ attr' = [attr EXCEPT ![w] = [i \in Items |-> IF i \in F THEN version[i] ELSE 0]]
    /\ data' = [data EXCEPT ![w] = [i \in Items |-> IF i \in F \cap Tags THEN version[i] ELSE 0]]
    /\ disturbed' = [v \in Writers |-> IF v = w THEN overlap
                                       ELSE disturbed[v] \cup (found[v] \cap F)]
    /\ UNCHANGED <<clock, itemVars, rows, requestVars, todo, victims, taken, suspect, faults>>

\* The SELECTs on links, markdown and to_do_list_items.
ReadData(w) ==
    /\ pc[w] = "data"
    /\ pc' = [pc EXCEPT ![w] = "delete"]
    /\ data' = [data EXCEPT ![w] = [i \in Items |-> IF i \in found[w] THEN version[i] ELSE 0]]
    /\ UNCHANGED <<clock, itemVars, rows, requestVars, todo, batch, found, attr, stamp, victims, taken,
                   historyVars>>

\* Mutants: the DELETE names tags only, or nothing at all.
DeletedTagRows(w) == RowsOf(batch[w] \cap Tags)
NoDeletedRows(w) == RowsOf({})

\* DELETE FROM searchables: the rows its snapshot sees ...
DeletedRows(w) == RowsOf(batch[w])

DeleteSnapshot(w) ==
    /\ pc[w] = "delete"
    /\ pc' = [pc EXCEPT ![w] = "lock"]
    /\ victims' = [victims EXCEPT ![w] = DeletedRows(w)]
    /\ UNCHANGED <<clock, itemVars, rows, requestVars, todo, batch, found, attr, data, stamp, taken,
                   historyVars>>

\* ... those of them still there are locked one by one, each as soon as neither
\* another writer nor the cascade of a request has it ...
RowsToTake(w) == (victims[w] \cap rows) \ taken[w]

TakeRow(w, row) ==
    /\ pc[w] = "lock"
    /\ row \in RowsToTake(w)
    /\ \A v \in Writers : row \notin taken[v]
    /\ \A r \in Requests : row.item \notin cascaded[r]
    /\ taken' = [taken EXCEPT ![w] = @ \cup {row}]
    /\ UNCHANGED <<clock, itemVars, rows, requestVars, pc, todo, batch, found, attr, data, stamp,
                   victims, historyVars>>

\* ... and the DELETE is over.
DeleteRows(w) ==
    /\ pc[w] = "lock"
    /\ RowsToTake(w) = {}
    /\ pc' = [pc EXCEPT ![w] = "insert"]
    /\ victims' = [victims EXCEPT ![w] = @ \cap rows]
    /\ UNCHANGED <<clock, itemVars, rows, requestVars, todo, batch, found, attr, data, stamp, taken,
                   historyVars>>

NewRow(w, i) ==
    [item |-> i, attr |-> attr[w][i], data |-> data[w][i], stamp |-> stamp[w], by |-> w]

EndBatch(w) ==
    /\ batch' = [batch EXCEPT ![w] = {}]
    /\ found' = [found EXCEPT ![w] = {}]
    /\ attr' = [attr EXCEPT ![w] = NoVersions]
    /\ data' = [data EXCEPT ![w] = NoVersions]
    /\ stamp' = [stamp EXCEPT ![w] = 0]
    /\ victims' = [victims EXCEPT ![w] = {}]
    /\ taken' = [taken EXCEPT ![w] = {}]

\* Mutant: the columns of searchables reference nothing.
NoForeignKeys(w) == TRUE

\* The parents of the new rows exist.
ForeignKeysHold(w) == found[w] \subseteq Present

\* INSERT and COMMIT.  The foreign keys want every item to exist, and wait for
\* an open transaction that deletes one.
InsertAndCommit(w) ==
    /\ pc[w] = "insert"
    /\ ForeignKeysHold(w)
    /\ \A r \in Requests : found[w] \cap deletes[r] = {}
    /\ rows' = (rows \ victims[w]) \cup {NewRow(w, i) : i \in found[w]}
    /\ pc' = [pc EXCEPT ![w] = "queued"]
    /\ EndBatch(w)
    /\ suspect' = (suspect \ found[w]) \cup (found[w] \cap disturbed[w])
    /\ disturbed' = [disturbed EXCEPT ![w] = {}]
    /\ UNCHANGED <<clock, itemVars, requestVars, todo, faults>>

FinishWriter(w) ==
    /\ pc[w] = "queued"
    /\ todo[w] = {}
    /\ pc' = [pc EXCEPT ![w] = "done"]
    /\ UNCHANGED <<clock, itemVars, rows, requestVars, todo, batchVars, historyVars>>

-----------------------------------------------------------------------------
(* Failures *)

Outstanding(w) == todo[w] \cup batch[w]

\* Mutant: no rollback, the transaction and its row locks stay.
RowsKept(W) == UNCHANGED taken

\* `except Exception: await trans.rollback()`, or the end of the connection.
RowsReleased(W) == taken' = [w \in Writers |-> IF w \in W THEN {} ELSE taken[w]]

\* The writers W end without having processed what they still had to.
Lose(W) ==
    LET lost == UNION {Outstanding(w) : w \in W} IN
    /\ pc' = [w \in Writers |-> IF w \in W THEN "done" ELSE pc[w]]
    /\ todo' = [w \in Writers |-> IF w \in W THEN {} ELSE todo[w]]
    /\ batch' = [w \in Writers |-> IF w \in W THEN {} ELSE batch[w]]
    /\ found' = [w \in Writers |-> IF w \in W THEN {} ELSE found[w]]
    /\ attr' = [w \in Writers |-> IF w \in W THEN NoVersions ELSE attr[w]]
    /\ data' = [w \in Writers |-> IF w \in W THEN NoVersions ELSE data[w]]
    /\ stamp' = [w \in Writers |-> IF w \in W THEN 0 ELSE stamp[w]]
    /\ victims' = [w \in Writers |-> IF w \in W THEN {} ELSE victims[w]]
    /\ RowsReleased(W)
    /\ suspect' = suspect \cup lost
    /\ disturbed' = [w \in Writers |-> IF w \in W THEN {}
                                       ELSE disturbed[w] \cup (found[w] \cap lost)]

\* An item of the batch was deleted after it was read: its row has no parent,
\* the INSERT is refused, and the batches that should follow are dropped.
ForeignKeyViolation(w) ==
    /\ pc[w] = "insert"
    /\ ~ ForeignKeysHold(w)
    /\ Lose({w})
    /\ UNCHANGED <<clock, itemVars, rows, requestVars, faults>>

\* Whom a writer, or a request whose DELETE cascades, waits for.  A request has no
\* task yet while its transaction is open, so its id stands for either.
ItemsOf(S) == {row.item : row \in S}

WaitsFor(a, b) ==
    /\ a # b
    /\ \/ /\ pc[a] = "lock"
          /\ \/ RowsToTake(a) \cap taken[b] # {}
             \/ b \in Requests /\ ItemsOf(RowsToTake(a)) \cap cascaded[b] # {}
       \/ pc[a] = "insert" /\ b \in Requests /\ found[a] \cap deletes[b] # {}
       \/ /\ a \in Requests /\ reqPc[a] = "cascading"
          /\ (deletes[a] \ cascaded[a]) \cap ItemsOf(taken[b]) # {}

\* A set of transactions each of which waits for another of them.
Deadlocked(a) ==
    \E S \in SUBSET Writers :
        /\ a \in S
        /\ \A p \in S : (\E q \in S : WaitsFor(p, q)) /\ (\E q \in S : WaitsFor(q, p))

\* Postgres aborts one of them: a request is rolled back and answered 500, a task
\* or a job ends.
AbortDeadlocked(a) ==
    /\ Deadlocked(a)
    /\ \/ a \in Requests /\ reqPc[a] = "cascading" /\ RollbackRequest(a)
       \/ /\ pc[a] \in {"lock", "insert"}
          /\ Lose({a})
          /\ UNCHANGED <<clock, itemVars, rows, requestVars, faults>>

\* Any other exception (a lost connection, a timeout): the transaction is rolled back, the task logs it and ends.
DatabaseError(w) ==
    /\ faults < MaxFaults
    /\ pc[w] \notin {"idle", "done"}
    /\ Lose({w})
    /\ faults' = faults + 1
    /\ UNCHANGED <<clock, itemVars, rows, requestVars>>

\* The application dies with its open requests and its tasks; the job, another
\* process, goes on.
Crash ==
    LET open == {r \in Requests : reqPc[r] \in {"open", "cascading", "written"}}
        tasks == {r \in Requests : pc[r] \notin {"idle", "done"}} IN
    /\ faults < MaxFaults
    /\ faults' = faults + 1
    /\ Lose(tasks)
    /\ reqPc' = [r \in Requests |-> IF r \in open THEN "done" ELSE reqPc[r]]
    /\ edits' = [r \in Requests |-> {}]
    /\ touches' = [r \in Requests |-> {}]
    /\ deletes' = [r \in Requests |-> {}]
    /\ cascaded' = [r \in Requests |-> {}]
    /\ collected' = [r \in Requests |-> {}]
    /\ UNCHANGED <<clock, itemVars, rows, reqTime>>

-----------------------------------------------------------------------------
RequestStep(r) == (\E i \in Items : Cascade(r, i)) \/ CommitRequest(r)

WriterStep(w) ==
    \/ \E B \in SUBSET todo[w] : StartBatch(w, B)
    \/ ReadAttributes(w)
    \/ ReadData(w)
    \/ DeleteSnapshot(w)
    \/ \E row \in rows : TakeRow(w, row)
    \/ DeleteRows(w)
    \/ InsertAndCommit(w)
    \/ ForeignKeyViolation(w)
    \/ FinishWriter(w)

Next ==
    \/ Tick
    \/ \E r \in Requests :
        \/ BeginRequest(r)
        \/ \E S, M, T, D \in SUBSET Items : Write(r, S, M, T, D)
        \/ RequestStep(r) \/ RollbackRequest(r)
    \/ \E j \in Jobs :
        \/ \E mode \in {"select_full", "select_missing"} : SelectTags(j, mode)
        \/ SelectObjects(j)
    \/ \E w \in Writers : WriterStep(w) \/ AbortDeadlocked(w) \/ DatabaseError(w)
    \/ Crash

Spec == Init /\ [][Next]_vars

\* The event loop runs every task and handler it holds, Postgres answers, and
\* detects deadlocks.  Nothing obliges a request to write, or to be rolled back.
Fairness ==
    /\ \A r \in Requests : WF_vars(RequestStep(r))
    /\ \A j \in Jobs : WF_vars(SelectObjects(j))
    /\ \A w \in Writers : WF_vars(WriterStep(w)) /\ WF_vars(AbortDeadlocked(w))

FairSpec == Spec /\ Fairness

-----------------------------------------------------------------------------
(* Properties *)

\* One row, holding what is committed.
Exact(i) ==
    \E row \in RowsOf({i}) :
        row.attr = version[i] /\ row.data = version[i] /\ RowsOf({i}) = {row}

Busy(i) == \E w \in Writers : i \in Outstanding(w)

\* The index is exact at rest: an item no writer has still to process, and
\* whose last processing was neither disturbed nor lost, has exactly one row,
\* and it is not torn and not stale.  This is what the tasks of
\* middlewares/tasks.py, one per committed request, achieve together.
QuietIndexIsExact ==
    \A i \in Present : i \notin suspect /\ ~ Busy(i) => Exact(i)

\* An item gets a second row only from overlapping writers: nothing in the
\* table forbids it, the DELETE before each INSERT is the only protection.
DuplicatesAreSuspect ==
    \A i \in Items \ suspect : \A p, q \in RowsOf({i}) : p = q

\* No row outlives its item: foreign keys and cascades against writers that
\* insert for what they read earlier.
RowsHaveItems == \A row \in rows : row.item \in Present

\* A row that replaces another, or stands beside it, never holds older content
\* unless the item is suspect: what a writer read earlier does not overwrite
\* what another read later.
RowsOnlyAdvance ==
    [][\A i \in Items \ suspect' : \A p \in RowsOf({i}), q \in RowsOf({i})' :
          p.attr <= q.attr /\ p.data <= q.data]_vars

\* update_searchables.py promises of its default mode: "updates data for all
\* tags and objects, which were not processed after last update".  An item
\* nobody is to process, whose rows were all read before its last update, is one.
\* (Rows whose time ties with the item's are left out: they are not the point.)
Unprocessed(i) ==
    ~ Busy(i) /\ \A row \in RowsOf({i}) : row.attr < version[i] /\ row.stamp # modifiedAt[i]
MissingModeFindsUnprocessed == \A i \in Present : Unprocessed(i) => i \in Missing(Items)

\* Every task, every job and every request comes to its end, whatever rows and
\* items it has to wait for: a cascade and a task that want each other's rows are
\* told apart by the database, and whoever is lost leaves no row locked.
WritersFinish ==
    /\ \A w \in Writers : pc[w] # "idle" ~> pc[w] = "done"
    /\ \A r \in Requests : reqPc[r] # "new" ~> reqPc[r] = "done"

\* Every committed change reaches the index, unless the item is deleted or its
\* processing was disturbed or lost.
ChangesAreIndexed ==
    \A i \in Items : i \in Present ~> (i \notin Present \/ i \in suspect \/ Exact(i))

-----------------------------------------------------------------------------
(* What makes the properties inductive *)

\* Ids a writer will still read.
Unread(i) == \E w \in Writers : i \in todo[w] \/ (pc[w] = "attrs" /\ i \in batch[w])

\* What writer w holds of item i is what is committed.
Current(w, i) ==
    attr[w][i] = version[i] /\ (pc[w] = "data" \/ data[w][i] = version[i])

WriterShape ==
    \A w \in Writers :
        /\ disturbed[w] \subseteq found[w] /\ found[w] \subseteq batch[w]
        /\ batch[w] \cap todo[w] = {}
        /\ pc[w] \in {"idle", "done"} => todo[w] = {}
        /\ pc[w] \notin InTransaction => batch[w] = {}
        /\ pc[w] = "attrs" => found[w] = {}
        /\ pc[w] \notin {"lock", "insert"} => victims[w] = {} /\ taken[w] = {}
        /\ \A row \in victims[w] : row.item \in batch[w]
        /\ pc[w] = "lock" => taken[w] \subseteq victims[w]

RequestShape ==
    \A r \in Requests :
        /\ reqPc[r] # "done" => pc[r] = "idle"
        /\ edits[r] \subseteq collected[r]
        /\ cascaded[r] \subseteq deletes[r]
        /\ reqPc[r] \notin {"cascading", "written"} => cascaded[r] = {}
        /\ \A q \in Requests : collected[r] \cap deletes[q] = {}
        /\ \A i \in edits[r] : life[i] # "deleted"
        /\ collected[r] \ edits[r] \subseteq Present

\* A writer never meets an id before it is born; what its SELECT missed is gone.
IdsAreBorn ==
    \A w \in Writers :
        /\ \A i \in Outstanding(w) : life[i] # "unborn"
        /\ pc[w] \in InTransaction \ {"attrs"} =>
               \A i \in batch[w] \ found[w] : life[i] = "deleted"

OverlapIsNoted ==
    \A v, w \in Writers : v # w => found[v] \cap found[w] \subseteq disturbed[w]

\* An undisturbed writer deletes every row of the items it rewrites ...
VictimsCover ==
    \A w \in Writers : pc[w] \in {"lock", "insert"} =>
        RowsOf(found[w] \ disturbed[w]) \subseteq victims[w]

\* ... and what it holds is current, unless somebody will read the item later.
StaleReadIsRepeated ==
    \A w \in Writers : \A i \in (found[w] \ disturbed[w]) \cap Present :
        Current(w, i) \/ Unread(i)

IInv ==
    /\ TypeOK
    /\ WriterShape
    /\ RequestShape
    /\ IdsAreBorn
    /\ OverlapIsNoted
    /\ VictimsCover
    /\ StaleReadIsRepeated
    /\ RowsHaveItems
    /\ QuietIndexIsExact
    /\ DuplicatesAreSuspect

=============================================================================
