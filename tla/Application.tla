------------------------------- MODULE Application -------------------------------
(***************************************************************************)
(* The life of the application: its start and its failures to start, the   *)
(* requests that hold connections of the pool, the background tasks they   *)
(* leave, and its stop, which rolls the event log over, waits for the      *)
(* tasks and closes the pool.  The log is a file that is renamed after the *)
(* local time at which its interval began.                                 *)
(*                                                                         *)
(* aiohttp, from how the code uses it: on a signal it accepts no more      *)
(* requests, gives those that run some time to end, cancels the others and *)
(* then calls the on_cleanup functions in the order they were registered.  *)
(***************************************************************************)
EXTENDS Integers, FiniteSets

CONSTANTS
    Requests,
    PoolSize,   \* maxsize of the engine
    Interval,   \* app_event_log_file_mode_interval, in seconds
    Hour,       \* by how much daylight saving time shifts the clock
    Summer,     \* the seconds in which it does
    MaxTime,    \* bound: the last second
    MaxStarts   \* bound: processes started

ASSUME ApplicationAssumption ==
    /\ IsFiniteSet(Requests) /\ PoolSize \in Nat \ {0}
    /\ Interval \in Nat \ {0} /\ Hour \in Nat /\ Summer \subseteq Int
    /\ MaxTime \in Nat /\ MaxStarts \in Nat

VARIABLES
    clock,
    app,     \* what the process does
    starts,
    pc,      \* what each request, and then its task, does
    pending, \* app_pending_tasks
    log,     \* the event log: see Log
    last,    \* history: the second of the last start or roll-over
    crowded  \* history: was a roll-over in the second of a start or another roll-over?

vars == <<clock, app, starts, pc, pending, log, last, crowded>>

\* Is there a file being written (`base`; it then has records), which files were renamed (a
\* name is a local time), and was one of those deleted?
Log == [base : BOOLEAN, mtime : 0 .. MaxTime, rolloverAt : Nat, backups : SUBSET Int, lost : BOOLEAN]

Phase == {"down", "starting", "up", "draining", "rolling", "polling", "closing"}
Step == {"new", "waiting", "working", "committed", "cancelled", "task_waiting", "task_working", "gone"}

\* Requests and tasks that hold a connection; a request that is cancelled while it waits
\* for one counts as a holder for the moment it takes to unwind.
Holders == {r \in Requests : pc[r] \in {"working", "committed", "cancelled", "task_working"}}
TasksRunning == {r \in Requests : pc[r] \in {"task_waiting", "task_working"}}
InProgress == {r \in Requests : pc[r] \in {"waiting", "working", "committed"}}

Init ==
    /\ clock = 0 /\ app = "down" /\ starts = 0
    /\ pc = [r \in Requests |-> "new"] /\ pending = {}
    /\ log = [base |-> FALSE, mtime |-> 0, rolloverAt |-> 0, backups |-> {}, lost |-> FALSE]
    /\ last = -1 /\ crowded = FALSE

-----------------------------------------------------------------------------
(* The log. *)

LocalTime(t) == IF t \in Summer THEN t + Hour ELSE t

\* The name of a file whose interval began at t: local time, corrected when daylight
\* saving time began or ended since.
BackupName(t) ==
    IF (clock \in Summer) = (t \in Summer) THEN LocalTime(t)
    ELSE IF clock \in Summer THEN LocalTime(t + Hour)
    ELSE LocalTime(t - Hour)

\* Mutant: a roll-over before its time leaves the time of the next as it was.
SameRollover(l) == l.rolloverAt

\* computeRollover, for intervals in seconds.
NextRollover(l) == clock + Interval

\* doRollover: a file that has the name already is deleted first.  No backup count is
\* given, so no other file is.
RolledOver(l) ==
    LET name == BackupName(l.rolloverAt - Interval)
    IN [l EXCEPT !.lost = @ \/ name \in l.backups,
                 !.backups = (@ \ {name}) \cup (IF l.base THEN {name} ELSE {}),
                 !.base = FALSE, !.rolloverAt = NextRollover(l)]

Due(l) == clock >= l.rolloverAt

\* emit: one or several records of one second.
Written(l) == [(IF Due(l) THEN RolledOver(l) ELSE l) EXCEPT !.base = TRUE, !.mtime = clock]

\* A new handler goes on with the file it finds.
Opened(l) == [l EXCEPT !.rolloverAt = (IF l.base THEN l.mtime ELSE clock) + Interval]

\* History of a step that starts the application or rolls over its log.
Marks == last' = clock /\ crowded' = (crowded \/ last = clock)

Write == /\ log' = Written(log)
         /\ IF Due(log) THEN Marks ELSE UNCHANGED <<last, crowded>>

-----------------------------------------------------------------------------
(* Start. *)

\* create_app, up to the first record: a file left by the last process may be due.
Start ==
    /\ app = "down" /\ starts < MaxStarts
    /\ app' = "starting" /\ starts' = starts + 1
    /\ log' = Written(Opened(log)) /\ Marks
    /\ UNCHANGED <<clock, pc, pending>>

Ready ==
    /\ app = "starting" /\ app' = "up"
    /\ Write
    /\ UNCHANGED <<clock, starts, pc, pending>>

\* The database cannot be reached: the process exits as it is.
FailToConnect ==
    /\ app = "starting" /\ app' = "down"
    /\ Write
    /\ UNCHANGED <<clock, starts, pc, pending>>

\* Any other failure: the pool, if it was created, is closed, the log rolled over.
FailToStart ==
    /\ app = "starting" /\ app' = "down"
    /\ log' = RolledOver(Written(log))
    /\ last' = clock /\ crowded' = (crowded \/ last = clock \/ Due(log))
    /\ UNCHANGED <<clock, starts, pc, pending>>

-----------------------------------------------------------------------------
(* Requests and their tasks. *)

Moves(r, from, to) == pc[r] = from /\ pc' = [pc EXCEPT ![r] = to]

Accept(r) ==
    /\ app = "up" /\ Moves(r, "new", "waiting")
    /\ Write
    /\ UNCHANGED <<clock, app, starts, pending>>

\* The pool gives a connection to a request, or to a task.
Acquire(r) ==
    /\ Cardinality(Holders) < PoolSize
    /\ Moves(r, "waiting", "working") \/ Moves(r, "task_waiting", "task_working")
    /\ UNCHANGED <<clock, app, starts, pending, log, last, crowded>>

\* A request that fails, or changes nothing searchable, leaves no task.
Finish(r) ==
    /\ Moves(r, "working", "gone")
    /\ Write
    /\ UNCHANGED <<clock, app, starts, pending>>

Commit(r) ==
    /\ Moves(r, "working", "committed")
    /\ UNCHANGED <<clock, app, starts, pending, log, last, crowded>>

\* The connection is returned before the task is created.
Dispatch(r) ==
    /\ Moves(r, "committed", "task_waiting")
    /\ pending' = pending \cup {r}
    /\ Write
    /\ UNCHANGED <<clock, app, starts>>

\* Mutant: no callback discards a task that is done.
NothingDiscarded(r) == pending

Discarded(r) == pending \ {r}

EndTask(r) ==
    /\ Moves(r, "task_working", "gone")
    /\ pending' = Discarded(r)
    /\ Write
    /\ UNCHANGED <<clock, app, starts>>

\* A cancelled request returns its connection; neither rollback nor dispatch is reached,
\* and its last record needs a status it does not have.
Unwind(r) ==
    /\ Moves(r, "cancelled", "gone")
    /\ UNCHANGED <<clock, app, starts, pending, log, last, crowded>>

RequestStep(r) == Acquire(r) \/ Finish(r) \/ Commit(r) \/ Dispatch(r) \/ EndTask(r) \/ Unwind(r)

-----------------------------------------------------------------------------
(* Stop. *)

Stop ==
    /\ app = "up" /\ app' = "draining"
    /\ UNCHANGED <<clock, starts, pc, pending, log, last, crowded>>

\* aiohttp: the requests have ended, or are cancelled when their time is over.
Drain ==
    /\ app = "draining" /\ app' = "rolling"
    /\ pc' = [r \in Requests |-> IF r \in InProgress THEN "cancelled" ELSE pc[r]]
    /\ UNCHANGED <<clock, starts, pending, log, last, crowded>>

\* cleanup_loggers, registered first.
RollLogOver ==
    /\ app = "rolling" /\ app' = "polling"
    /\ log' = RolledOver(log) /\ Marks
    /\ UNCHANGED <<clock, starts, pc, pending>>

\* Mutant: tasks that wait for a connection are not waited for.
NoTaskWorks == \A r \in pending : pc[r] # "task_working"

NoTaskPending == pending = {}

\* close_connection_pools: the polling ends, and no more connections are given.
ClosePool ==
    /\ app = "polling" /\ NoTaskPending
    /\ app' = "closing"
    /\ UNCHANGED <<clock, starts, pc, pending, log, last, crowded>>

\* wait_closed, then the last record: the log has a file again.
PoolClosed ==
    /\ app = "closing" /\ \A r \in Requests : pc[r] # "cancelled"
    /\ app' = "down"
    /\ Write
    /\ UNCHANGED <<clock, starts, pc, pending>>

\* The process is killed.
Crash ==
    /\ app # "down" /\ app' = "down"
    /\ pc' = [r \in Requests |-> IF pc[r] = "new" THEN "new" ELSE "gone"]
    /\ pending' = {}
    /\ UNCHANGED <<clock, starts, log, last, crowded>>

Tick ==
    /\ clock < MaxTime /\ clock' = clock + 1
    /\ UNCHANGED <<app, starts, pc, pending, log, last, crowded>>

Cleanup == Drain \/ RollLogOver \/ ClosePool \/ PoolClosed
Next ==
    \/ Start \/ Ready \/ FailToConnect \/ FailToStart
    \/ \E r \in Requests : Accept(r) \/ RequestStep(r)
    \/ Stop \/ Cleanup \/ Crash \/ Tick

\* The event loop runs what is ready; a request comes, and the process stops, as they like.
Fairness == WF_vars(Cleanup) /\ \A r \in Requests : WF_vars(RequestStep(r))

Spec == Init /\ [][Next]_vars
FairSpec == Spec /\ Fairness

-----------------------------------------------------------------------------
(* Properties. *)

TypeOK ==
    /\ clock \in 0 .. MaxTime /\ app \in Phase /\ starts \in 0 .. MaxStarts
    /\ pc \in [Requests -> Step] /\ pending \in SUBSET Requests
    /\ log \in Log
    /\ last \in -1 .. clock /\ crowded \in BOOLEAN

\* The pool is closed only after the last task has ended: no task is created once the
\* polling of app_pending_tasks has found the set empty, and none is left by a process
\* that ended.  (close_connection_pools, tasks_middleware.)
PoolOutlivesTasks ==
    /\ TasksRunning # {} => app \in {"up", "draining", "rolling", "polling"}
    /\ TasksRunning \subseteq pending

SeasonChanged == \E t \in 0 .. clock : (t \in Summer) # (0 \in Summer)

\* No record of the log is deleted, whatever processes start, fail, stop and crash,
\* unless daylight saving time began or ended, or a roll-over came in the same second as a
\* start or another roll-over.  (PatchedTimedRotatingFileHandler, cleanup_loggers.)
RecordsAreKept == log.lost => SeasonChanged \/ crowded

\* A process that is told to stop ends, whatever its requests and tasks wait for.
\* (close_connection_pools, with aiohttp's limit on the time requests get.)
ShutdownEnds == app = "draining" ~> app = "down"
==================================================================================
