-------------------------------- MODULE Accounts --------------------------------
(***************************************************************************)
(* Users and settings as data: /auth/register, /users/update, /users/view, *)
(* /settings/update and /settings/view, statement by statement.            *)
(*                                                                         *)
(* The database is PostgreSQL at READ COMMITTED.  A registration is one    *)
(* INSERT that commits by itself, an update is a transaction; both lock    *)
(* the row they write, and enter its login and its username in two unique  *)
(* indexes, one after the other, where they wait for any transaction that  *)
(* holds the name.  A cycle of waits is broken by PostgreSQL.              *)
(***************************************************************************)
EXTENDS AccountData, FiniteSets

CONSTANTS
    FirstUsers,   \* the committed users at the start: a sequence of rows
    FirstAllowed  \* the setting non_admin_registration_allowed at the start

ASSUME FirstUsersAreUnique ==
    /\ \E k \in 0 .. MaxUser : FirstUsers \in [1 .. k -> UserRow]
    /\ \A u, v \in DOMAIN FirstUsers :
          FirstUsers[u].login = FirstUsers[v].login \/ FirstUsers[u].username = FirstUsers[v].username => u = v
    /\ FirstAllowed \in Flag

VARIABLES
    (* committed *)
    users,    \* user id -> row
    allowed,  \* the setting
    lastUser, \* the last id taken from the sequence
    (* requests *)
    pc, body, answer,
    actor, actorLevel, \* request[request_user_info_key]
    (* what its transaction has written *)
    target,   \* the user it writes
    row,      \* the row it has put, NoRow before
    (* history *)
    feasible, \* requests that could be carried out when they arrived
    changed,  \* request -> users that others changed while it ran
    overruled \* requests while which others set the setting

tableVars == <<users, allowed, lastUser>>
requestVars == <<body, actor, actorLevel>>
writeVars == <<target, row>>
historyVars == <<feasible, changed, overruled>>
vars == <<tableVars, pc, answer, requestVars, writeVars, historyVars>>

Step == {"new", "setting", "insert", "password", "lock", "login", "username", "commit",
         "set", "view_users", "view_settings", "done"}

TypeOK ==
    /\ users \in [UserIds -> UserRow \cup {NoRow}]
    /\ allowed \in Flag
    /\ lastUser \in 0 .. MaxUser
    /\ pc \in [Requests -> Step]
    /\ body \in [Requests -> Body \cup {NoBody}]
    /\ answer \in [Requests -> {0, 200, 400, 401, 403, 404, 500}]
    /\ actor \in [Requests -> UserIds \cup {NoUser}] /\ actorLevel \in [Requests -> Level]
    /\ target \in [Requests -> UserIds \cup {NoUser}]
    /\ row \in [Requests -> UserRow \cup {NoRow}]
    /\ feasible \in SUBSET Requests
    /\ changed \in [Requests -> SUBSET UserIds]
    /\ overruled \in SUBSET Requests

Init ==
    /\ users = [u \in UserIds |-> IF u \in DOMAIN FirstUsers THEN FirstUsers[u] ELSE NoRow]
    /\ allowed = FirstAllowed
    /\ \E k \in 0 .. MaxUser : DOMAIN FirstUsers = 1 .. k /\ lastUser = k
    /\ pc = [r \in Requests |-> "new"]
    /\ body = [r \in Requests |-> NoBody]
    /\ answer = [r \in Requests |-> 0]
    /\ actor = [r \in Requests |-> NoUser]
    /\ actorLevel = [r \in Requests |-> "user"]
    /\ target = [r \in Requests |-> NoUser]
    /\ row = [r \in Requests |-> NoRow]
    /\ feasible = {}
    /\ changed = [r \in Requests |-> {}]
    /\ overruled = {}

-----------------------------------------------------------------------------
(* What a request may ask for, by the checks that look at what the middleware  *)
(* has read: route access, then the checks of the handler that need no query.  *)

\* USER_PRIVILEGE_ATTRIBUTES
SetsPrivileges(b) == b.level # Keep \/ b.canLogin # Keep \/ b.canEdit # Keep

\* forbid_anonymous
NeedsLogin(b) == b.route \in {"users_update", "settings_update"} \/ (b.route \in Readers /\ b.full)

\* What user i (or nobody) may not ask for without being an admin.
AsksTooMuch(b, i) ==
    \/ b.route = "register" /\ i # NoUser
    \/ b.route = "users_update" /\ (b.user # i \/ SetsPrivileges(b))
    \/ b.route = "users_view" /\ b.full /\ b.viewed # {i}
    \/ b.route = "settings_update" \/ (b.route = "settings_view" /\ b.full)

\* The status that a request of user i at that level is refused with, 0 if it is not.
Refusal(b, i, level) ==
    IF i = NoUser /\ NeedsLogin(b) THEN 401
    ELSE IF level # "admin" /\ AsksTooMuch(b, i) THEN 403
    ELSE 0

FirstStep(b, level) ==
    CASE b.route = "register"        -> IF level = "admin" THEN "insert" ELSE "setting"
      [] b.route = "users_update"    -> "password"
      [] b.route = "settings_update" -> "set"
      [] b.route = "users_view"      -> "view_users"
      [] b.route = "settings_view"   -> "view_settings"

\* The users with a name of row n, but for u.
Conflicts(u, n) ==
    {v \in Existing(users) \ {u} : users[v].login = n.login \/ users[v].username = n.username}

\* Could the request be carried out alone, from the state it arrives in?
Feasible(b, i, level) ==
    /\ Refusal(b, i, level) = 0
    /\ b.route = "register" =>
          /\ level = "admin" \/ (allowed = "yes" /\ ~SetsPrivileges(b))
          /\ Conflicts(NoUser, b) = {}
    /\ b.route = "users_update" =>
          /\ users[i].password = b.given
          /\ b.user \in Existing(users)
          /\ Conflicts(b.user, Merged(users[b.user], b)) = {}
    /\ b.route = "users_view" => b.viewed \cap Existing(users) # {}
    /\ b.route # "settings_view"

-----------------------------------------------------------------------------
(* Rows, index entries and waits *)

Open(r) == pc[r] \notin {"new", "done"}
Holds(r) == row[r] # NoRow

\* The names in the index that r decides about: those of the row as it was committed, ...
OldRows(r) == IF Holds(r) /\ users[target[r]] # NoRow THEN {users[target[r]]} ELSE {}

\* ... and those it has entered.
HeldLogins(r) ==
    {old.login : old \in OldRows(r)} \cup IF pc[r] \in {"username", "commit"} THEN {row[r].login} ELSE {}
HeldUsernames(r) ==
    {old.username : old \in OldRows(r)} \cup IF pc[r] = "commit" THEN {row[r].username} ELSE {}

WaitsFor(r, q) ==
    /\ q # r
    /\ \/ pc[r] = "lock" /\ Holds(q) /\ target[q] = body[r].user
       \/ pc[r] = "login" /\ row[r].login \in HeldLogins(q)
       \/ pc[r] = "username" /\ row[r].username \in HeldUsernames(q)

Blocked(r) == \E q \in Requests : WaitsFor(r, q)

\* A set of requests each of which waits for another of them.
Deadlocked(r) ==
    \E S \in SUBSET Requests :
        /\ r \in S
        /\ \A p \in S : (\E q \in S : WaitsFor(p, q)) /\ (\E q \in S : WaitsFor(q, p))

Goto(r, step) == pc' = [pc EXCEPT ![r] = step]

\* Mutant: an answer without a rollback.
AnswerOnly(r, status) ==
    Goto(r, "done") /\ answer' = [answer EXCEPT ![r] = status] /\ UNCHANGED writeVars

\* connection_middleware: the transaction, if there is one, ends, and an answer is sent.
End(r, status) ==
    /\ Goto(r, "done")
    /\ answer' = [answer EXCEPT ![r] = status]
    /\ row' = [row EXCEPT ![r] = NoRow]
    /\ target' = [target EXCEPT ![r] = NoUser]

-----------------------------------------------------------------------------
(* Requests *)

\* The middleware reads who issues the request, and what it may do is decided on that.
Begin(r) ==
    /\ pc[r] = "new"
    /\ \E b \in Bodies, i \in {NoUser} \cup {u \in Existing(users) : users[u].canLogin = "yes"} :
          LET level == IF i = NoUser THEN "user" ELSE users[i].level IN
          /\ body' = [body EXCEPT ![r] = b]
          /\ actor' = [actor EXCEPT ![r] = i]
          /\ actorLevel' = [actorLevel EXCEPT ![r] = level]
          /\ feasible' = IF Feasible(b, i, level) THEN feasible \cup {r} ELSE feasible
          /\ IF Refusal(b, i, level) # 0 THEN End(r, Refusal(b, i, level))
             ELSE Goto(r, FirstStep(b, level)) /\ UNCHANGED <<answer, writeVars>>
    /\ UNCHANGED <<tableVars, changed, overruled>>

\* Mutant: the setting is read, and not asked.
ReadSettingOnly(r) ==
    /\ pc[r] = "setting"
    /\ IF SetsPrivileges(body[r]) THEN End(r, 403)
       ELSE Goto(r, "insert") /\ UNCHANGED <<answer, writeVars>>
    /\ UNCHANGED <<tableVars, requestVars, historyVars>>

\* authorize_user_registration_by_non_admin, then ..._with_privileges_set.
ReadSetting(r) ==
    /\ pc[r] = "setting"
    /\ IF allowed = "no" \/ SetsPrivileges(body[r]) THEN End(r, 403)
       ELSE Goto(r, "insert") /\ UNCHANGED <<answer, writeVars>>
    /\ UNCHANGED <<tableVars, requestVars, historyVars>>

\* INSERT: its row, not in the indexes yet.
InsertUser(r) ==
    /\ pc[r] = "insert"
    /\ lastUser < MaxUser
    /\ lastUser' = lastUser + 1
    /\ target' = [target EXCEPT ![r] = lastUser + 1]
    /\ row' = [row EXCEPT ![r] = Merged(Defaults, body[r])]
    /\ Goto(r, "login")
    /\ UNCHANGED <<users, allowed, answer, requestVars, historyVars>>

\* Mutant: the password is that of the user to be changed.
CheckTargetPassword(r) ==
    /\ pc[r] = "password"
    /\ IF body[r].user \in Existing(users) /\ users[body[r].user].password = body[r].given
       THEN Goto(r, "lock") /\ UNCHANGED <<answer, writeVars>>
       ELSE End(r, 400)
    /\ UNCHANGED <<tableVars, requestVars, historyVars>>

\* validate_user_update_issuer: the password of the token's owner.
CheckPassword(r) ==
    /\ pc[r] = "password"
    /\ IF users[actor[r]].password = body[r].given
       THEN Goto(r, "lock") /\ UNCHANGED <<answer, writeVars>>
       ELSE End(r, 400)
    /\ UNCHANGED <<tableVars, requestVars, historyVars>>

\* Mutant: the row that was read is written, without a lock.
ReadUser(r) ==
    LET u == body[r].user IN
    /\ pc[r] = "lock"
    /\ IF u \in Existing(users)
       THEN /\ target' = [target EXCEPT ![r] = u]
            /\ row' = [row EXCEPT ![r] = Merged(users[u], body[r])]
            /\ Goto(r, "login")
            /\ UNCHANGED answer
       ELSE End(r, 404)
    /\ UNCHANGED <<tableVars, requestVars, historyVars>>

\* UPDATE: its row is locked, and read again if it had to wait.
LockUser(r) ==
    LET u == body[r].user IN
    /\ pc[r] = "lock" /\ ~Blocked(r)
    /\ IF u \in Existing(users)
       THEN /\ target' = [target EXCEPT ![r] = u]
            /\ row' = [row EXCEPT ![r] = Merged(users[u], body[r])]
            /\ Goto(r, "login")
            /\ UNCHANGED answer
       ELSE End(r, 404)
    /\ UNCHANGED <<tableVars, requestVars, historyVars>>

\* Mutant: a login that is the user's own is taken, too.
EnterNewLogin(r) ==
    /\ pc[r] = "login" /\ ~Blocked(r)
    /\ IF \E u \in Existing(users) : users[u].login = row[r].login
       THEN End(r, 400)
       ELSE Goto(r, "username") /\ UNCHANGED <<answer, writeVars>>
    /\ UNCHANGED <<tableVars, requestVars, historyVars>>

\* The entry in the index of logins.  UniqueViolation is answered 400.
EnterLogin(r) ==
    /\ pc[r] = "login" /\ ~Blocked(r)
    /\ IF \E u \in Existing(users) \ {target[r]} : users[u].login = row[r].login
       THEN End(r, 400)
       ELSE Goto(r, "username") /\ UNCHANGED <<answer, writeVars>>
    /\ UNCHANGED <<tableVars, requestVars, historyVars>>

\* Mutant: there is no unique index of usernames.
EnterAnyUsername(r) ==
    /\ pc[r] = "username"
    /\ Goto(r, "commit") /\ UNCHANGED <<answer, writeVars>>
    /\ UNCHANGED <<tableVars, requestVars, historyVars>>

\* The entry in the index of usernames.
EnterUsername(r) ==
    /\ pc[r] = "username" /\ ~Blocked(r)
    /\ IF \E u \in Existing(users) \ {target[r]} : users[u].username = row[r].username
       THEN End(r, 400)
       ELSE Goto(r, "commit") /\ UNCHANGED <<answer, writeVars>>
    /\ UNCHANGED <<tableVars, requestVars, historyVars>>

\* The end of the INSERT, or of the transaction.  (/users/update deletes sessions before
\* it: see Auth.)
Commit(r) ==
    /\ pc[r] = "commit"
    /\ users' = [users EXCEPT ![target[r]] = row[r]]
    /\ changed' = [q \in Requests |-> IF q # r /\ Open(q) THEN changed[q] \cup {target[r]} ELSE changed[q]]
    /\ End(r, 200)
    /\ UNCHANGED <<allowed, lastUser, requestVars, feasible, overruled>>

\* update_settings: the row is there, so that its INSERT is an update.
SetSetting(r) ==
    /\ pc[r] = "set"
    /\ allowed' = Given(body[r].allow, allowed)
    /\ overruled' = overruled \cup {q \in Requests \ {r} : Open(q)}
    /\ End(r, 200)
    /\ UNCHANGED <<users, lastUser, requestVars, feasible, changed>>

ViewUsers(r) ==
    /\ pc[r] = "view_users"
    /\ End(r, IF body[r].viewed \cap Existing(users) = {} THEN 404 ELSE 200)
    /\ UNCHANGED <<tableVars, requestVars, historyVars>>

\* The names may be those of no setting.  The one there is is public.
ViewSettings(r) ==
    /\ pc[r] = "view_settings"
    /\ \/ End(r, 200)
       \/ ~body[r].full /\ End(r, 404)
    /\ UNCHANGED <<tableVars, requestVars, historyVars>>

\* PostgreSQL aborts a transaction of a cycle: DeadlockDetected is an OperationalError.
AbortDeadlocked(r) ==
    /\ Deadlocked(r)
    /\ End(r, 500)
    /\ UNCHANGED <<tableVars, requestVars, historyVars>>

\* Any other exception, a lost connection, or the end of the process.
Fail(r) ==
    /\ Open(r)
    /\ End(r, 500)
    /\ UNCHANGED <<tableVars, requestVars, historyVars>>

Work(r) ==
    \/ ReadSetting(r) \/ InsertUser(r) \/ CheckPassword(r) \/ LockUser(r) \/ EnterLogin(r)
    \/ EnterUsername(r) \/ Commit(r) \/ SetSetting(r) \/ ViewUsers(r) \/ ViewSettings(r)
    \/ AbortDeadlocked(r)

Next == \E r \in Requests : Begin(r) \/ Work(r) \/ Fail(r)

\* The event loop runs every ready coroutine, and PostgreSQL answers every statement it
\* has the locks for; a cycle of waits is broken.
Spec == Init /\ [][Next]_vars /\ \A r \in Requests : WF_vars(Work(r))

-----------------------------------------------------------------------------
(* Properties *)

\* No two users have one login or one username, whatever requests register and rename
\* them at the same time.
NamesAreUnique == UniqueNames(users)

\* A request that could be carried out when it arrived is refused only if another request
\* changed a user or the setting while it ran: names that a failed request had entered,
\* and the old names of the user itself, are no reason.
RefusalsHaveCause ==
    \A r \in feasible : answer[r] \in {400, 401, 403, 404} => changed[r] # {} \/ r \in overruled

\* Is r still allowed what it does?
Entitled(r) ==
    LET b == body[r]
        owner == users[actor[r]]
        admin == actor[r] # NoUser /\ owner.level = "admin"
    IN /\ actor[r] # NoUser => owner.canLogin = "yes"
       /\ b.route = "register" => admin \/ (actor[r] = NoUser /\ allowed = "yes" /\ ~SetsPrivileges(b))
       /\ b.route = "users_update" =>
             /\ owner.password = b.given
             /\ admin \/ (b.user = actor[r] /\ ~SetsPrivileges(b))
       /\ b.route = "settings_update" => admin

\* The level of the issuer is read by the middleware, the setting and the password by
\* statements before the one that writes.  Whatever takes effect is still allowed at that
\* moment, unless another request changed the issuer or the setting while this one ran:
\* what is stale is not older than the request.
AuthorityIsRecent ==
    [][\A r \in Requests :
          pc[r] # "done" /\ pc'[r] = "done" /\ answer'[r] = 200 /\ body[r].route \in Writers =>
              Entitled(r) \/ actor[r] \in changed[r] \/ r \in overruled]_vars

Served == {r \in Requests : answer[r] = 200 /\ body[r].route \in Writers}

Store == INSTANCE AccountStore WITH asked <- body, served <- Served

\* Every request takes effect at one moment or not at all, and does to the row that is
\* there at that moment what its body says: no update is lost to another of the same user,
\* though neither read the row before it wrote.  (add_user, update_user, update_settings.)
RequestsAreAtomic == Store!StoreSpec

\* Every request is answered, whatever names and rows it waits for.
RequestsEnd == \A r \in Requests : Open(r) ~> pc[r] = "done"

=============================================================================
