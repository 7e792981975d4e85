# A verification project for the site backend

The repository is the backend of a personal site: an aiohttp application over
PostgreSQL (aiopg for requests, psycopg2 for scheduled scripts) that keeps objects
(links, markdown texts, to-do lists, composites), their tags, a full-text search
index, users, sessions and login rate limits.  This directory holds TLA+ models of
it, TLC configurations that check them, and TLAPS proofs.  Paths below are relative
to `src/backend_main/` unless they start with `src/`.

## 1. Inventory

### The path of a request

`middlewares/__init__.py` nests the middlewares: logging (takes the request's time) →
errors → bounce → tasks → connection → auth → handler.  *connection* takes one of 20
pooled connections; statements commit one by one until a handler starts a
transaction, which *connection* commits on success and on
`IncorrectCredentialsException`, and rolls back on any other exception, dropping the
ids the request had queued for the index.  *tasks* then leaves a background task
behind if ids are queued.

| Component | State | Operations | What is hard | What makes it correct |
|---|---|---|---|---|
| Search index (`db_operations/searchables`, `middlewares/tasks.py`, `util/searchables.py`) | table `searchables`, ids queued per request, pending tasks | one task per committed request, in batches of 1000: SELECTs, DELETE, INSERT, COMMIT | tasks of several requests and the job overlap; an object is read by several statements; crashes lose tasks; deleted items refuse a whole batch | rows are what is committed, one per item, none without an item; every change arrives |
| Scheduled index update (`db_operations/scheduled/update_searchables.py`) | – | "full" and "missing" modes | runs beside the application, compares times | finds what is missing or stale |
| Sessions and users (`middlewares/auth.py`, `db_operations/sessions.py`, `routes/users.py`) | tables `users`, `sessions`; `UserInfo` of a request | prolong and check a token, logout, update a user | each request rewrites its session; users are disabled while they log in | who can't log in has no session; a session ends |
| Login and rate limits (`routes/auth.py`, `domains/login_rate_limits.py`) | table `login_rate_limits` | read the limit, check credentials, count a failure, or add a session and clear the limit | read–modify–write around a transaction; a commit on an exception | failures are counted, delays grow and end |
| Scheduled clean-up (`db_operations/scheduled/clear_*.py`) | – | delete expired sessions, old limits | beside requests that prolong and count | deletes only what is over |
| Request transaction (`middlewares/connection.py`, `errors.py`, `util/connection.py`) | connection, transaction | commit, rollback, mapping of exceptions | partial work of failed handlers | nothing of a rolled back request remains |
| Start and shutdown (`app/__init__.py`, `app/db_connection.py`, `middlewares/tasks.py`) | pool, `pending_tasks` | start and its failures, drain, cancel, wait for tasks, close the pool | requests in flight add tasks late; tasks need connections of the pool they outlive | tasks end before the pool closes; a stop ends |
| Objects and data (`routes/objects.py`, `domains/objects`, `db_operations/objects`, `db_operations/untyped`) | tables `objects`, `links`, `markdown`, `to_do_*` | add, update, bulk upsert, delete, view | multi-statement views; bulk id mapping; deletions without a transaction | each object has the data of its type; requests are all or nothing |
| Composites (`db_operations/objects/data/composite.py`, `db_operations/untyped/objects_composite.py`) | `composite`, `composite_properties` | upsert sub-objects, delete marked and exclusive sub-objects | check-then-delete; foreign keys share rows that others delete | nothing referred to elsewhere is deleted; contents are as asked |
| Hierarchy, pages and search (`db_operations/objects/general.py`, `db_operations/search.py`) | – | walk a composite level by level; page of ids, then their number | cycles, depth; the tables change between two statements | answers lie between what was always and what was ever there |
| Tags (`routes/tags.py`, `domains/objects_tags.py`, `db_operations/tags.py`, `db_operations/objects_tags.py`) | `tags`, `objects_tags` | add, update, delete, view, page, search, add by name | two requests create one name, each in the order of a Python set; ON CONFLICT locks nothing | names stay unique, pairs have both ends |
| Authorization (`auth/`) | per-request caches | route access, ownership, publication filters | checks before a lock | no write without the right at its time |
| Logs (`logging/`) | a file, and its renamed predecessors | write, roll over, go on with a file that is found | names are local times to the second; restarts, daylight saving | no record is deleted |
| Users and settings as data (`routes/auth.py`, `routes/users.py`, `routes/settings.py`, `auth/route_checks`) | tables `users`, `settings` | register, update and view users, set and view the setting | rights, password and setting are read before the statement that relies on them; unique names that uncommitted requests hold | names are unique; no update is lost; who writes may |
| Markdown parsing, set-up scripts | – | pure functions; run by an operator | – | – |

### Hazards

`PROJECT.json` lists them by source line with the properties that cover them; each has
one.  Where the code promises nothing, as about a user level that changes while a request
runs, the property says how far it can go wrong: not without such a change.

## 2. Modules

| Module | Role |
|---|---|
| `Searchables` | the index, its writers, the requests that change items, faults |
| `SearchablesProofs` | inductive invariant of `Searchables` and the theorems that follow |
| `MCSearchables` | model values and symmetry; three configurations |
| `Auth` | users, sessions, login rate limits, the auth middleware, login, user update, both clean-up jobs |
| `AuthProofs` | inductive invariant of `Auth` and the theorems that follow |
| `MCAuth` | model values and first sessions; four configurations |
| `Tags` | the tables `tags` and `objects_tags`, and the requests that write and read them, statement by statement |
| `TagsProofs` | inductive invariant of `Tags` and the theorems that follow |
| `MCTags` | five names, two of which differ in case only, and the bodies that meet on them |
| `Objects` | objects, their data and the contents of composites: the five routes of objects, statement by statement |
| `ObjectStore` | abstract: documents that whole requests write; `Objects` implements it |
| `ObjectsProofs` | inductive invariant of `Objects`: whole objects |
| `ObjectStoreProofs` | two more layers of it, the other properties of `Objects`, and the refinement |
| `MCObjects` | a link that two composites share, a list in one of them, and the requests that meet on them |
| `Reads` | hierarchy, pages, search by name and full-text search, while others commit |
| `ReadsProofs` | inductive invariant of `Reads` and the theorems that follow |
| `MCReads` | composites that may form cycles, and five queries |
| `Application` | start, requests and tasks over the pool, stop, crash, and the event log |
| `ApplicationProofs` | inductive invariant of `Application` and the theorems that follow |
| `MCApplication` | the season of the instance |
| `AccountData` | rows of users, what requests may ask of them, what that makes of a row |
| `Accounts` | registration, users and the setting, statement by statement |
| `AccountStore` | abstract: requests that take effect at once; `Accounts` implements it |
| `AccountsProofs` | inductive invariant of `Accounts`, the theorems that follow, and the refinement |
| `MCAccounts` | an admin, a user, and the bodies that meet on their rows and names |

`Searchables` and `Objects` both describe a write of an object, at the two levels their
properties need: in `Searchables` it is one commit that raises a version and queues ids,
in `Objects` it is the statements and locks by which that commit comes about.  `Tags`
and `Objects` share the row locks of `objects`: each has the other's effect as an action
of its environment (`Tags!DeleteObject`, `Objects!Retag`).  `Auth` and `Accounts` share
the table of users: `Auth` has the two columns that sessions depend on and the sessions
themselves, `Accounts` has the rows, and takes a valid session for granted.
Operators whose comment begins with "Mutant" are deliberately wrong variants of the
definition that follows them.  Nothing uses them; `PROJECT.json` ("mutants") says which
property each one breaks, which is how we know the property can fail at all.

### Searchables

*Data.* A tag or object is an item with a version number that each committed change
increments.  An index row holds the versions its writer read (attributes and data are
two SELECTs for objects, one for tags), the `modified_at` it was given, and, as
history, its writer.  `rows` is a set: two writers may leave an item two rows.

*Requests* (`BeginRequest`, `Write`, `Cascade`, `CommitRequest`, `RollbackRequest`).
`Write` is the handler of one of the routes, up to the locks on the rows it writes or
deletes; a deletion then reaches the index rows of its items one item at a time
(`Cascade`), and waits there for writers that have locked them.  `HandlerWrites` says
which combinations of added/updated items, named tags, touched objects and deleted items
the routes can produce, and `CollectedIds` what `util/searchables.py` queues: note that
`bulk_add_objects_tags` queues every tag given by name, existing ones too, and that
/objects/update_tags changes `modified_at` without queueing the object.

*Writers* are the background tasks (one per request) and runs of the job.  They go
through `attrs` → `data` → `delete` → `lock` → `insert` per batch.  The DELETE is
two steps because under READ COMMITTED it sees a snapshot first and then waits for
row locks; rows another transaction inserted meanwhile stay, which is where duplicate
rows come from.  In `lock` the rows that are left are taken one by one (`TakeRow`), each
when no other writer and no cascade has it.  `InsertAndCommit` needs the parents of its
rows, and waits for a request that has deleted one; `ForeignKeyViolation` is its failure,
which also drops all later batches.

*Waits.* A writer that has taken an index row and a request whose cascade wants it come to
wait for each other: the writer's INSERT needs the row of the item, which the request has
deleted.  So do two writers that take the same rows in opposite orders.  `WaitsFor` says who
waits for whom, and `AbortDeadlocked` that PostgreSQL ends a cycle by aborting any one of
it: a request is rolled back, a task or the job ends as after any other error.
`DatabaseError` and `Crash` are all other failures, bounded by `MaxFaults`.  A writer that
ends releases its rows (`RowsReleased`, the `except` of the batch).

*Start.* `Stored` are items that exist from the beginning; the index holds any part of
them, exactly, and what it lacks is suspect, as after a lost task.

*History.* `disturbed[w]` are the items another writer held while `w` did, or lost;
`suspect` are the items whose last processing was disturbed or lost.  The code gives
no guarantee for suspect items: the next change or a full job run repairs them.

*Abstractions.* A handler takes its locks on tags and objects at once, an INSERT those of
its foreign keys, and writes appear at commit (deadlocks between handlers are in `Tags` and
`Objects`; here they are part of `RollbackRequest`).  /objects/delete and /tags/delete are single committed
statements: `Write` followed by `CommitRequest`.  The list of ids of the missing mode,
in which duplicates may repeat an id, is a set.  The markdown parser is not in the
model: the text is the version.

### Auth

*Data.* Two columns of `users` (`canLogin`, `level`), `sessions` (token → user and
expiration), `limits` (sender → failed attempts and `cant_login_until`).  Time is a
small number; a request's time is that of its arrival.

*Requests.* `Authenticate` is the middleware: the UPDATE…RETURNING with its SELECT
is one statement that commits by itself, so a session is prolonged even if the user
can't log in, and it waits for a transaction that deletes the session.  `Refusal`
combines the check of the token with the route checks.  Then /auth/login runs
`ReadLimit`, `CheckCredentials`, and either `IncreaseLimit`, `CommitRefusal` or
`AddSession`, `DeleteLimit`, `CommitLogin`; /users/update runs `CheckIssuer`,
`UpdateUser` or `DisableUser`, `CutSessions`, `CommitUpdate`; /auth/logout is
`Logout`; all other routes are `Respond`.  What a transaction wrote is in
`newToken`, `limitOp`, `newRow` and `cut` until its commit; `LimitUnlocked` and
`UserUnlocked` are the row locks.  `Fail` is any other exception or the end of the
process.  For malformed credentials the code has not begun its transaction when it
counts the failure, so the count commits at once; the model treats it like the other
refusals, with a commit of its own a step later.

*Jobs.* `SelectExpired` and `DeleteExpired` are the one DELETE of
`clear_expired_sessions.py`, split where it may wait for locks: PostgreSQL checks the
deleted row again after a wait, but the subquery keeps its answer.  `ClearLimits` is
one step.

*History.* `failures` counts attempts answered 401 since the sender's limit was last
cleared, `raced` the senders whose attempts overlapped each other or the job,
`slipping`/`slipped` the logins that overlapped a change that disables their user, and
the tokens they issued.

### Tags

*Data.* `tags` maps ids to a name and whether it is published; `pairs` is
`objects_tags`; names are compared through `Lower`, as the unique index on `lower(name)`
does.  What a transaction has written is in `rows`, `added`, `removed` until `Commit`.

*Requests.* `Begin` is the route check.  /tags/add is `InsertTag`, `AddPairs`, `Commit`;
/tags/update is `LockTag`, `RenameTag` (the row first, then its entry in the index),
`AddPairs`, `RemovePairs`, `Commit`; /tags/delete is the single statement `DeleteTags`;
/objects/update_tags is `LookUpNames`, one `InsertName` for each unknown name, in any
order (a Python set), `CheckAdded`, `AddPairs`, `CheckRemoved`, `RemovePairs`, `Commit`.
Its last statement updates `modified_at` of its objects: who holds that lock waits for
nothing more, so it is part of `Commit`.  `ReadPage`/`CountPage`, `ViewTags` and
`SearchTags` read.

*Waits.* `WaitsFor` says whose names, rows and pairs a statement waits for; pairs hold
shared locks of both ends by their foreign keys.  A cycle of waits is broken by
`AbortDeadlocked`.  A request refused or failed leaves nothing but used up ids.

*Abstractions.* The check that a user may modify the objects of /objects/update_tags is
that of `Objects` and is left there.  ORDER BY is left out: `PagesOf` lets any tags that match
be the page, as many as OFFSET and LIMIT leave; a page past the end is answered 404 before
the count.  A search returns any nonempty part of what matches.

### Objects and ObjectStore

*Data.* `db` holds three tables: `objects`; `data`, one table for links, markdown, to-do
lists and properties of composites; `items`, the contents of composites and, as one row,
those of a list.  Each row names the request that wrote it, which stands for its
contents.  A transaction is `put` and `cut`, `shared` the rows its foreign keys share.

*Requests.* `InsertObjects` … `Commit` are the statements of /objects/add and update
(the functions of `db_operations/untyped`: first the main object, then the sub-objects
it carries, then the contents) and of /objects/bulk_upsert (those of
`db_operations/objects`); `UpdateObject` and `DeleteRow` lock one row at a time, in any
order, and `Link` shares one at a time, which is how deadlocks come about.  Negative ids
are mapped by `IdOf`: PostgreSQL is taken to give ids of one INSERT in the order of its
rows, which the code relies on too (`Rank`).  `FindMarked` looks for references to
sub-objects marked for full deletion; /objects/delete is `FindSubobjects`,
`FindExclusive`, `AuthorizeDelete`, `DeleteRow`, `Cascade`, each a statement that commits
by itself up to the DELETE.  `ViewAttributes` … `FinishView` are the statements of a view.
`Retag` is `Tags` as it matters here: an object that is there becomes, or ceases to be,
`hidden` from those who are not admins.  `Fail` is any other exception or the end of the process, its
answer is `Lost`.

*Abstractions.* Users are never deleted.  The tags a body of add, update or bulk upsert
gives are `Tags`' matter, and the view that /objects/bulk_upsert ends with is
`View`'s.

*ObjectStore* is what the statements together promise: a document has a type, contents
and a last writer; `Save` lets one request take effect once, at one moment; what it does
not write only loses what it deletes; a deleted id never comes back (`past` holds those
that are gone, and those a request has used up in vain).  `RequestsAreAtomic`
is its specification under the mapping `docs <- Documents`, `past <- PastIds`,
`saved <-` the requests answered 200.  A request that fails may only waste ids.

### Reads

Each of `ReadRoot`, `Descend` (one per level), `ReadIds` and `Count` is a statement that
sees what is committed when it runs.  The transactions of others are atomic here
(`AddObject`, `Relink`, `DeleteObject`, `ChangeItem`, `Reindex`), at most `MaxChanges` of
them.  One reader is enough, since readers change nothing.

What statements return, page and count are `Rows`, pairs of an item and a number.  A page of
objects and a search by name read `objects`, where an item has one row (`OneRow`).  The search
of the index (route `global`) reads `searchables`, where nothing is unique: an item may have
no row that matches, or several (`DuplicatesAreSuspect` of `Searchables` says when), and then
LIMIT, OFFSET and count(*) take it several times, as `search.py` does.  `indexed` is the number
of such rows of each item; `Reindex` sets it to anything up to `MaxRows`, which stands for
whatever the transactions of tasks and of the job, overlapping or not, leave there.
`alwaysRows`/`everRows` and `alwaysLinks`/`everLinks` are the histories answers are compared
with; `PagesAreBracketed` is therefore about rows too, and says for the index that the total
is a number of rows seen, not of items.

ORDER BY keys and ranking are left out: `PagesOf` lets any rows of the right number be the
page.  The default of the depth is `composite_hierarchy_max_depth`, here `MaxDepth`.

### Application

*Process.* `app` goes `down` → `starting` → `up` → `draining` → `rolling` → `polling` →
`closing` → `down`; `FailToConnect`, `FailToStart` and `Crash` are the other ways down.
aiohttp is external: `Stop` and `Drain` are what its runner does on a signal (no more
requests; those that run get some time, then are cancelled; then `on_cleanup`).
`cleanup_loggers` is registered before `close_connection_pools`, so `RollLogOver` comes
first and the record "Closed main connection pool." (`PoolClosed`) begins a new file.

*Requests and tasks* hold one of `PoolSize` connections.  A cancelled request returns its
connection (`Unwind`), but reaches neither rollback nor the dispatch of a task, and
writes no last record: `logging_middleware` uses a `status` that was never assigned.

*Log.* `Log` is the event log: is there a file, when was it last written, when is the
next roll-over, which names do renamed files have.  `RolledOver` is `doRollover` of the
patched handler, which deletes a file that has the new name; `BackupName` its local
time with the correction for daylight saving; `Opened` what a new handler makes of the
file it finds.

*Not here.* `bounce_middleware`: with the aiohttp of the requirements its flag is set
after the last request has ended, so it never refuses one.  The setting
`enable_searchables_updates` is taken to be on.

### Accounts and AccountStore

*Data.* `users` maps ids to rows (login, username, password, level and the two flags),
`allowed` is the setting `non_admin_registration_allowed`, `lastUser` the sequence of ids.
`Merged` is `model_dump(exclude_none=True)`: the fields a body gives replace those of the
row, or of the defaults of a registration.

*Requests.* `Begin` is the middleware, which reads who issues the request and at what level,
and the checks that need nothing more (`Refusal`).  /auth/register is `ReadSetting` (not for
admins) and then one INSERT that commits by itself; /users/update is a transaction of
`CheckPassword` and one UPDATE.  Both statements have the same steps inside PostgreSQL:
`InsertUser` takes an id, or `LockUser` locks the row and reads it again if it had to wait;
then `EnterLogin` and `EnterUsername` enter the new row in the two unique indexes, in the
order of the columns, waiting for any transaction that has entered, or is about to give up,
the name; then `Commit`.  /settings/update is `SetSetting`, the views are `ViewUsers` and
`ViewSettings`.  `End` is the end of the transaction and the answer; `AbortDeadlocked` is
PostgreSQL's answer to a cycle of waits, `Fail` any other exception or the end of the process.

*History.* `feasible` are the requests that could have been carried out when they arrived,
`changed[r]` the users that others changed while `r` ran, `overruled` the requests while
which others set the setting.

*Abstractions.* Whether a session is valid, and its deletion with its user's `can_login`, is
in `Auth`.  A password is right or wrong.  `update_settings` first selects `is_public` of a row
that never goes away; its two statements are one step.  An UPDATE enters all its names again
in the model; those that do not change conflict with nobody, as in PostgreSQL.

*AccountStore* is what the statements together promise: `Register`, `Update` and `Allow` take
effect once, at one moment, on the rows that are there at that moment, and leave names unique.
`RequestsAreAtomic` is its specification under `asked <- body` and `served <-` the writing
requests answered 200.

## 3. Runs

All runs but `reads` have `CHECK_DEADLOCK FALSE`: there are finitely many requests and
the system rests when they are done, or the process stays down.  `reads` has an explicit
step for a request that is done, and no deadlock.

| Run | Instance | Shows |
|---|---|---|
| `index` | 1 tag, 1 object, 2 requests, 1 job, batches of 2, 1 fault; symmetric requests | `QuietIndexIsExact`, `DuplicatesAreSuspect`, `RowsHaveItems`, `RowsOnlyAdvance` |
| `index_liveness` | 2 objects that exist at the start, 1 request, 1 job, batches of 1, clock 0..1, 1 fault, fair | `IInv`, the inductive invariant (`TypeOK` is part of it), when ids are left for later batches; `WritersFinish`, `ChangesAreIndexed` |
| `index_missing_mode` | 1 object, 2 requests, 1 job, clock 0..1, no fault | *violated*: `MissingModeFindsUnprocessed` |
| `login_limits` | 1 sender, 3 logins, clock 0..3, one free attempt, then delays 1 and 2 | `RefusalsLeaveALimit`, `FailuresAreCounted`, `DelaysOnlyGrow` |
| `sessions` | an admin and a user with a session each, 2 requests of any route, clock 0..2, lifetime 1, fair | `IInv` (`TypeOK` is part of it), `DisabledSessionsSlipped`, `TimesLapse`, `DeadTokensStayDead`, `RequestsEnd` |
| `sessions_disabled` | 1 admin session, 2 requests | *violated*: `DisabledUsersHaveNoSessions` |
| `invalid_token` | 1 session, 2 requests, clock 0..1 | *violated*: `InvalidTokensAreTolerated` |
| `tags` | 2 requests, 5 names, 2 tags and a pair at the start, 1 object, ids up to 6, 15 bodies, fair | `NamesAreUnique`, `PairsHaveEnds`, `RefusalsHaveCause`, `PagesAddUp`, `TagsAreAsNamed`, `UnpublishedTagsAreForAdmins`, `RequestsEnd` |
| `objects` | 2 requests, a user and an admin, 3 objects at the start, ids up to 7, 13 bodies, fair | `ObjectsAreWhole`, `ContentsAreAsAsked`, `RefusalsHaveCause`, `SharedSubobjectsSurvive`, `OwnersKeepTheirObjects`, `ViewsAreExact`, `RequestsAreAtomic` (the refinement), `RequestsEnd` |
| `reads` | 4 composites, a leaf, a tag, 7 possible links, up to 2 rows of the index for an item, depth 3, 5 queries, 2 changes | `HierarchyIsBracketed`, `PagesAreBracketed` |
| `accounts` | 2 requests, an admin and a user at the start, 3 logins, 3 usernames, 2 passwords, ids up to 4, 18 bodies, fair | `NamesAreUnique`, `RefusalsHaveCause`, `AuthorityIsRecent`, `RequestsAreAtomic` (the refinement), `RequestsEnd` |
| `application` | 2 requests, a pool of 1, interval 2, daylight saving of 2 that ends after second 3, seconds 0..6, 3 starts, fair | `PoolOutlivesTasks`, `RecordsAreKept`, `ShutdownEnds` |

*Why the bounds suffice.*  Two requests and a job are three writers on one item, each
of which may overlap the two others, be lost, or meet a deletion; a tag and an object
give both kinds of batches and the order between them.  Two objects with batches of
one are the smallest instance where ids remain after a batch, in place of 1000.  For
liveness the objects exist at the start, with or without a row, so that one request deletes
what the job is rewriting: the job's INSERT waits for the request with and without its
cascade waiting for the job, both kinds of victims of the deadlock occur, and so does the
refused batch; or the request changes them, and its task and the job wait for rows that the
other has locked.  In `index` the same happens to items that a first request has added.  The
clock need only tell earlier from later; requests may take their times in one order and
commit in the other.  It matters for the rows a job in "missing" mode selects, so it moves in
`index_missing_mode` and `index_liveness`, and stands still in `index`.  Tags, which take the
same steps as objects but for one, are in `index` and not in `index_liveness`.  Three login attempts cross every boundary of the table of
delays: below `FreeAttempts` (9 in the code), inside `Delays`, and beyond them.  A
lifetime of 1 with three clock values has sessions that are valid, at their end, and
over.  Real bounds are names: `BatchSize`, `FreeAttempts`, `Delays`, `LongestDelay`,
`Lifetime`, `Past`, `Retention`; `MaxTime` and `MaxFaults` bound the models only.

In `tags` every pair of the fifteen bodies meets; two requests are enough for each hazard
of the list, a third party (`DeleteObject`) removes objects; six ids allow each request
every tag it can insert.  The bodies have names in the same and in opposite orders, so
that requests wait for each other.  In `objects` every pair of thirteen bodies meets, with
changes of what is hidden in between: the shared link, the list, new objects of both
numbering schemes, composites rewritten and deleted from both sides, refusals and views.
The links of `reads` contain a cycle of two ways, a leaf with two parents, and a composite
deeper than the limit; two changes may come between any two levels.  Its index holds two
rows of one composite at the start, as two overlapping writers leave them.  The page of `tags`
is the second of one tag, so that it may be empty or be there.  In `application` six
seconds hold three intervals with a change of the season among them, one connection makes
requests and tasks wait for each other, and three starts meet files of processes that
ended in each way.  In `accounts` every two of the eighteen bodies
meet: registrations with free names and with names that are taken or about to be, two users
who swap logins, an admin who is demoted, disabled or given another password while he acts,
and the setting switched both ways; two free ids are enough for two registrations.  Three
requests over the same bodies were checked once (without liveness) before the proofs.
`MaxId`, `MaxTag`, `MaxUser`, `MaxNew`, `MaxRows`, `MaxChanges`, `MaxStarts` and this
`MaxTime` bound the models only; `MaxDepth`, `PoolSize` and `Interval` are settings of
the code.

*Fairness.*  `WF` on each writer's step, on the cascade and the commit of each open request,
and on each step of a request after its arrival: the event loop runs every ready coroutine, the job
is a running process, and PostgreSQL answers each statement or raises an error.  No
request is obliged to arrive, no job to start, no fault to happen, and the clock need
not advance.  `RequestsEnd` of `Auth` therefore says that no cycle of waits exists among its locks.  In `Searchables`, `Tags`,
`Objects` and `Accounts` there is `WF` on `AbortDeadlocked` too, since cycles do exist there
and PostgreSQL ends them; a rollback for another reason is never relied upon.  In
`Application`, `WF` is on the steps of a request that was accepted and on the functions
of the clean-up; aiohttp's time limit is what makes `Drain` one of them.

### Disagreements found

Each of these is a run that TLC finds violated.

* `index_missing_mode`: the "missing" mode "updates data for all tags and objects, which
  were not processed after last update" (`update_searchables.py:5`), but it compares
  times.  A request that arrived first and commits last gives the item an older
  `modified_at` than the row written by the other request's task, which read the older
  content; when that task also inserts last, the stale row is never selected.
* `sessions_disabled`: "Delete user sessions, if he can no longer log in"
  (`routes/users.py:39`).  A login between its check of `can_login` and its insert is not
  seen by the update and leaves a session.  `DisabledSessionsSlipped` shows that this
  is the only way.
* `invalid_token`: "Allow invalid tokens for some routes" (`middlewares/auth.py:42`).
  /settings/view with an invalid token is answered 500, since the middleware formats an
  expiration time that it does not have.

Met while modelling, and stated here because no property of these modules is about them:

* "total number of matching items" (`db_operations/search.py:14`) is the number of matching
  rows of `searchables`: an item with two rows is listed twice and counted twice.
* "Roll the current event log file over" at clean-up (`logging/loggers/app.py:35`) is
  followed by the last record of the stop, in a new file that is not rolled over.
* A cancelled request ends in an `UnboundLocalError` in the `finally` of
  `logging_middleware`, in place of the record of its end.
* With intervals of an hour or less, the end of daylight saving time gives files the names
  of files there are; so do two roll-overs in one second.  The handler deletes the older
  file.  `RecordsAreKept` says that there is no other way.
* `/objects/delete` with some ids that do not exist deletes the others and answers 200; a
  sub-object linked by another request between the two SELECTs and the DELETE is deleted
  with the composite (`SharedSubobjectsSurvive` says that there is no other way).

## 4. Proofs

`tlapm` proves these for every value of the constants that satisfies the modules'
assumptions; no bound of the runs enters.  Each module goes the same way: the parts
of `IInv` hold in `Init`, each action preserves each part, and the properties are
conjuncts of `IInv` or follow from it in one step.  Invariants come in layers: where one
property needs more than another, a second invariant (`HInv`, `RInv`, `LevelsInv`,
`ReadsAdvance`) is proved on top of `IInv`, so that each layer can be read by itself.  The
runs `index_liveness` and `sessions` check `IInv` of their modules; the other invariants
are stated beside their proofs, and were model-checked on the instances of their runs
before they were proved; the type invariants are parts of them.

With these proofs every safety property that a passing run checks is a theorem: invariants,
action properties and both refinements.

Two remarks on the prover.  The library's induction theorems take an operator, which
no backend can instantiate; `ReadsProofs` proves what it needs of a recursive function from
`WFMin` (every nonempty set of naturals has a least one), with a set of numbers in place of
the operator (`AllNaturals`).  And Zenon in `tlapm` 1.4.5 accepts some goals of the form
`X \cap S \subseteq Y \cap S` that do not hold; no obligation of that form is left here,
they are stated with a quantifier.

### SearchablesProofs

Assumptions: tags and objects are different things (`KindsAreDisjoint`), so are
requests and jobs (`WritersAreDisjoint`), the batch size is positive
(`BoundsAreNaturals`).

| Theorem | Statement |
|---|---|
| `TypeCorrect` | `Spec => []TypeOK` |
| `InductiveInvariant` | `Spec => []IInv` |
| `IndexExact` | an item at rest that is not suspect has exactly one row, the current one |
| `NoOtherDuplicates` | only suspect items have two rows |
| `NoOrphanRows` | no row without its item |
| `RowsAdvance` | `Spec => RowsOnlyAdvance`, an action property |

`QuietIndexIsExact` alone is not inductive: it speaks of items no writer holds, so
before the last writer of an item commits it says nothing about what that writer
has read.  `StaleReadIsRepeated` does: what an undisturbed writer holds is what is
committed, or some writer has the item still to read; it needs `IdsAreBorn` (what the
SELECT did not find was deleted and will not return) and `RequestShape` (the ids a
request collects cover all it edits: the fact about `util/searchables.py` the argument
turns on).  `VictimsCover` says that the writer's DELETE has seen all rows of the
item; it holds because whoever else inserted one overlapped the writer, and
`OverlapIsNoted` has both disturbed.

`RowsOnlyAdvance` rests on a second invariant, `ReadsAdvance`: what an undisturbed writer
has read is not older than any row of the item but its own (`RowsAreOlder`), and not
newer than what is committed (`ReadsArePast`).

### AuthProofs

Assumptions: "nothing" is no user, token or row; the first sessions are of users;
times are naturals; no delay of the table exceeds the longest
(`domains/login_rate_limits.py:46-58`).

| Theorem | Statement |
|---|---|
| `TypeCorrect` | `Spec => []TypeOK` |
| `InductiveInvariant` | `Spec => []IInv` |
| `TimesDoLapse` | no session and no delay ends too late |
| `RefusalsLeaveLimits` | a refused attempt leaves a limit |
| `RefusalsAreKept` | that, and attempts that do not overlap are all counted |
| `DisabledUsersKeepOut` | a disabled user's sessions are those of logins that overlapped the change |
| `DelaysGrow` | `Spec => DelaysOnlyGrow`, an action property |
| `TokensStayDead` | `Spec => DeadTokensStayDead`, an action property |

`DisabledSessionsSlipped` needs the state of the transactions: `CutCovers` (an update
about to commit has deleted every session of its user but those that slipped in),
`LoginsMayEnter` (a login under way is of a user who can log in, or overlapped),
`KeptDisabled` and `UpdatesExclude` (what one update read of the row stays true, since
the row is locked).  `FailuresAreCounted` and `DelaysOnlyGrow` need
`AttemptsAreAlone`: what an attempt has read of the limit is still there when it
writes, unless its sender is in `raced`; `SeenIsOver` adds that the delay it read had
ended, and lemma `TimeoutGrows` that the next one is not negative.

### TagsProofs

Assumptions: lower-casing twice is lower-casing once, the first tags have unique names,
a body of /tags/add or update is about one name (`TagAssumption`, `FirstTagsAreUnique`).

| Theorem | Statement |
|---|---|
| `TypeCorrect` | `Spec => []TypeOK`; part of it is that added pairs always have a tag: no name is missing in the map of `add_tags_by_name` |
| `InductiveInvariant` | `Spec => []IInv` |
| `UniqueNames` | no two tags have names that differ in case only |
| `PairsKeepEnds` | no pair outlives its tag or its object |
| `HistoryInvariant` | `Spec => [](IInv /\ HInv)` |
| `RefusalsAreCaused` | what was possible on arrival is refused only because of others' commits |
| `PagesAreCounted` | the number leaves room for the page and those before it, unless tags changed in between |
| `NamesAreKept` | `Spec => TagsAreAsNamed`, an action property |
| `UnpublishedTagsAreKept` | `Spec => UnpublishedTagsAreForAdmins`, an action property |

`NamesAreUnique` says nothing of rows that are written and not committed.
`NamesAreLocked` does: the index entries that requests hold are disjoint, and what each
request sees has unique names, except for a row locked by /tags/update whose new name is
not in the index yet (step "unique"; the entries it took away count as held).  Together
with `IdsAreTaken` (a row belongs to one request) the commit of one leaves what the
others see unique.  `AddedHaveEnds` says that the ends of inserted pairs are kept, which
is what deletions wait for.

The last four are about what a request knows and others may spoil, so `HInv` says, step by
step, what it knows: what it found for a name is so named (`FoundAreNamed`), a name it is to
insert is nobody's (`StillNew`), what a non-admin adds was published (`TagsAreChecked`),
what it was to add is there (`PairsAreAdded`), and it could still be carried out
(`StillFeasible`) – each unless `changed` has the tag, pair or object.  `changed` grows with
every commit of another, which is why the commit of one request is the step in which the
`HInv` of the others has to be shown (`Notices`).

### ObjectsProofs

Assumptions: the tables at the start are whole (`FirstIsWhole`), bodies are what the
schemas let through (`ObjectAssumption`, `Accepted`).

| Theorem | Statement |
|---|---|
| `TypeCorrect` | `Spec => []TypeOK`; part of it is that every object of a link has an id by the time its items are written |
| `InductiveInvariant` | `Spec => []IInv` |
| `WholeObjects` | committed objects have one row, one row of data in the table of their type, and the contents written with it; nothing else is left |

`ObjectsAreWhole` speaks of what is committed, and a commit makes what one request has
seen the truth, so the invariant is about what each request sees.  `RowsAreLocked` and
`WritesAreHeld`: rows of `objects` that transactions have written are disjoint, and their
data and items are written only under these locks.  So the commit of one leaves what
another holds alone, but for items that pointed to a deleted object (`Keeps`; lemmas
`SeesCommitted` and `CommitStays`).  `SeenIsWhole`: of what a request holds it sees whole
objects, except new ones whose data it has still to write (`Pending`, `BareAt`) and those
it has deleted and whose cascade is to come (`Gone`, `DeletesAreLast`); at its commit there
are neither.  `RouteShape` and `ExistingAreHeld` carry what the handlers rely on without
saying so: that an object whose type was checked before it was locked still has it
(`TypesKept`), or is gone for good and its data with it (`Dead`).  `CompositesAreHeld` makes
the items of one INSERT those of the last writer.

### ObjectStoreProofs

One more assumption: the value that stands for "no document" is no document
(`MarkerAssumption`).

| Theorem | Statement |
|---|---|
| `HistoryInvariant` | `Spec => [](IInv /\ HInv)` |
| `ContentsAsAsked` | composites contain what their last writers asked for, less what was deleted since |
| `ImplementsStore` | `Spec => RequestsAreAtomic`: every step of `Objects` is a step of `ObjectStore` or none |
| `RelianceInvariant` | `Spec => [](IInv /\ HInv /\ RInv)` |
| `RefusalsAreCaused` | what was possible on arrival is refused only because of others' commits |
| `SubobjectsAreSafe` | `Spec => SharedSubobjectsSurvive`, an action property |
| `OwnersAreObeyed` | `Spec => OwnersKeepTheirObjects`, an action property |
| `ViewsShowWhatIsThere` | `Spec => ViewsAreExact`, an action property |

`HInv` is about what bodies ask for.  New ids are one transaction's alone and nobody refers
to them before it commits (`IdsAreFresh`, `GivenOnce`), what a foreign key shares is not
deleted by others (`SharedAreSafe`), and what is linked, from the step of the links to the
commit, is what the body names (`AskedAreLinked`); a row says who wrote it, which is how
`CommittedAreDone` keeps this after the commit, when others delete sub-objects.

The refinement maps the tables to documents (`DocumentAt`); `Readable` says that the tables,
committed or as one transaction sees them, can be read as documents at all.  A commit
with answer 200 is a `Save`: what the request holds has its contents, what it deleted is
in `past`, and all others lose at most references to it.  Every other step leaves
`Documents` alone, failed requests only adding ids to `past`.

`RInv` is about what a request relies on after it has looked: owners it has checked
(`OwnersAreChecked`; the cache `modifiable_object_ids` is part of it), what a view
has shown so far (`ShownSoFar`), what it chose to delete (`DoomedAreUnshared`), and that
it can still be carried out (`StillFeasible`).  Each holds but for the objects in
`changed`; `LeftAlone` is a request that another one's step does not touch.

### ReadsProofs

Assumptions: `ReadsAssumption` (composites and leaves are different, links are from
composites, offsets are multiples of the page, only objects that exist are in the index).

| Theorem | Statement |
|---|---|
| `TypeCorrect` | `Spec => []TypeOK` |
| `InductiveInvariant` | `Spec => []IInv` |
| `PagesHold` | `Spec => []PagesAreBracketed` |
| `HierarchyHolds` | `Spec => []HierarchyIsBracketed`: with the depth of the setting |
| `HierarchyIsSound` | without it: a hierarchy lies in every set that holds the root and is closed under links that existed during the request; if it ended because nothing was left to read, it is closed under the links that were there throughout |

`PagesHold` is about rows: finitely many, since an item has at most `MaxRows` of the index
(`RowsAreFinite`), whatever that bound is.
The count and the page are bracketed separately, since `PageSize` grows with the number
of rows (`PageSizeGrows`) and the histories bracket what is wanted at each moment.
`HierarchyIsBracketed` speaks of what is `Within` n links, a recursive function: that it
exists and is the only one (`ReachExists`, `ReachIsUnique`), that it grows with the links and
with n (`WithinGrows`, `WithinFurther`), and that a set which is closed under links is not
left (`WithinStays`) are proved by induction on n.  `LevelsInv` then counts levels: after
the statement for level `depth` the hierarchy lies between what is within `depth - 1` links
that were there throughout and what is within as many that were there at some moment
(`LevelsAreBracketed`), and the loop ends at the setting or when nothing is left to read
(`SearchIsOver`).  The latter needs `HierarchyIsClosed` of `IInv`.

### ApplicationProofs

Assumptions: `ApplicationAssumption` (the pool has a connection, the interval is positive).

| Theorem | Statement |
|---|---|
| `TypeCorrect` | `Spec => []TypeOK` |
| `InductiveInvariant` | `Spec => []IInv` |
| `PoolIsClosedLast` | no task runs once the pool is closed |
| `RecordsKept` | no record is deleted while there is one season and one start or roll-over a second |

`ProcessShape` ties the phases to the tasks: requests that may still commit exist only
until the drain, and every task is pending.  `NamesGrow` orders the names of the
renamed files before the start of the current interval, before the last start or
roll-over, and before the last record of a file that waits for the next process, so that
the next name is a new one.

### AccountsProofs

Assumptions: "nothing" is no row and no user, bodies are what the schemas let through, a
registration gives its names and password (`AccountAssumption`), the first users have unique
names (`FirstUsersAreUnique`).

| Theorem | Statement |
|---|---|
| `TypeCorrect` | `Spec => []TypeOK` |
| `InductiveInvariant` | `Spec => []IInv` |
| `NamesStayUnique` | no two users have one login or one username |
| `RefusalsExplained` | what was possible on arrival is refused only because of others' commits |
| `AuthorityHolds` | `Spec => AuthorityIsRecent`, an action property |
| `ImplementsStore` | `Spec => RequestsAreAtomic`: every step of `Accounts` is a step of `AccountStore` or none |

`Written` carries the refinement: what a request has put is what its body makes of the row
that is committed *now*, which stays so because no other transaction has that row
(`TargetsDiffer`) and ids come from the sequence (`IdsAreTaken`).  `LoginIsFree` and
`UsernameIsFree` say of a name that is in its index that no committed user and no other
transaction has it, so that a commit keeps names unique.  `Authority` and `StaysFeasible` say
that what a request was allowed on, and what made it possible, still holds unless `changed`
or `overruled` tell otherwise.  Lemmas `LocalStep`, `Ended`, `Advanced` and `Puts` are the
kinds of steps; `CommitKeeps` and `SetSettingKeeps` are the two that others notice.

### Only model-checked

* Liveness (`WritersFinish`, `ChangesAreIndexed`, `RequestsEnd` of four modules,
  `ShutdownEnds`): fairness and ENABLED are beyond the prover.
* The disagreements, each a counterexample of its run.

## 5. Not modelled

* Text: search text, markdown, ranking, validation of bodies.  Pure
  functions of one request, within the reach of unit tests.
* Password hashing and the choice of tokens: a credential is right or wrong, a token
  is one never seen before.
* The access log and the logs of scripts: they have the event log's handler.  The format
  of records is text.
* Set-up scripts, migrations and configuration: run by an operator, once.
* `bounce_middleware`, which no request reaches (see Application).

## 6. Plan

Done: the index and its writers, authentication, tags, objects with their abstract store,
reads, the life of the process and its log, users and settings with their abstract store.
What is left, in order of what it would add:

1. An abstract index in which every change reaches its row in one step, which
   `Searchables` implements where nobody is disturbed.
2. Three requests in `tags` and `objects`, with fewer bodies each.
