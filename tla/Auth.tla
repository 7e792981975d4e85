---------------------------------- MODULE Auth ----------------------------------
(***************************************************************************)
(* Users, sessions and login rate limits: the tables `users`, `sessions`   *)
(* and `login_rate_limits`, the requests that read and write them, and the *)
(* two scheduled jobs that clear the last two.                             *)
(*                                                                         *)
(* Every request first passes the auth middleware, which prolongs its      *)
(* token in a statement of its own.  /auth/login and /users/update then    *)
(* run a transaction of several statements (READ COMMITTED: a statement    *)
(* sees what was committed when it started; a written row is locked until  *)
(* the transaction ends); other requests commit every statement.           *)
(*                                                                         *)
(* Time is a number of seconds; a request's time is taken on its arrival.  *)
(***************************************************************************)
EXTENDS Integers, Sequences, FiniteSets

CONSTANTS
    Users,
    Admins,         \* users whose level is "admin" at the start
    Tokens,         \* access tokens that uuid4 may generate
    FirstSessions,  \* the sessions there are at the start: token -> user
    Senders,        \* IP addresses
    Requests,
    Routes,         \* the routes of this instance
    Lifetime,       \* config.app.token_lifetime
    FreeAttempts,   \* 9: failed attempts without a delay
    Delays,         \* <<5, 10, 20, ...>>: the delays after them
    LongestDelay,   \* 3600: the delay after those
    Past,           \* 60: how far in the past a limit without delay ends
    Retention,      \* 12 hours: the job keeps limits this long
    MaxTime,        \* bound: the clock stops here
    NoUser, NoToken, NoLimit, NoSession

AllRoutes == {"login", "logout", "users_update", "settings_view", "other"}

\* ROUTES_ACCESSIBLE_WITH_INVALID_ACCESS_TOKEN
TolerantRoutes == {"logout", "settings_view"}

ASSUME NothingIsNot ==
    NoUser \notin Users /\ NoToken \notin Tokens /\ Admins \subseteq Users /\ Routes \subseteq AllRoutes
ASSUME SessionsOfUsers ==
    DOMAIN FirstSessions \subseteq Tokens /\ \A k \in DOMAIN FirstSessions : FirstSessions[k] \in Users
ASSUME TimesAreNaturals ==
    /\ Lifetime \in Nat /\ FreeAttempts \in Nat /\ Past \in Nat /\ Retention \in Nat /\ MaxTime \in Nat
    /\ Delays \in Seq(Nat) /\ LongestDelay \in Nat
ASSUME DelaysAreAtMostLongest == \A n \in 1 .. Len(Delays) : Delays[n] <= LongestDelay

Session == [user : Users, exp : Int]
Limit == [count : Nat, until : Int]

ASSUME NothingIsNoRow == NoSession \notin Session /\ NoLimit \notin Limit

VARIABLES
    clock,
    canLogin, level,  \* columns of users, committed
    sessions,         \* token -> session, committed
    limits,           \* sender -> login rate limit, committed
    (* requests *)
    pc, route, token, sender, reqTime,
    actor, actorLevel,  \* request[request_user_info_key]
    person,     \* the user that /auth/login found, or that /users/update changes
    seen,       \* the limit that /auth/login read, NoLimit if there was no row
    answer,     \* status of the response, 0 before
    (* what a transaction has written so far *)
    newToken,   \* the token of the session it inserted
    limitOp,    \* what it did to its sender's limit: "none" | "set" | "delete"
    newRow,     \* can_login and user_level of `person`, and whether the body disables it
    cut,        \* tokens of the sessions it deleted
    (* scheduled job clear_expired_sessions *)
    expired,    \* tokens its subquery chose
    (* history *)
    issued,     \* tokens generated so far
    failures,   \* sender -> attempts answered 401 since its limit was last cleared
    raced,      \* senders of which two attempts overlapped, or an attempt and the job
    slipping,   \* logins that overlapped a change disabling their user
    slipped     \* the tokens they issued

tableVars == <<canLogin, level, sessions, limits>>
infoVars == <<route, token, sender, reqTime, actor, actorLevel>>
writeVars == <<newToken, limitOp, newRow, cut>>
historyVars == <<issued, failures, raced, slipping, slipped>>
vars == <<clock, tableVars, pc, infoVars, person, seen, answer, writeVars, expired, historyVars>>

Level == {"admin", "user"}
UserRow == [canLogin : BOOLEAN, level : Level, disables : BOOLEAN]
NoRow == [canLogin |-> TRUE, level |-> "user", disables |-> FALSE]

LoginStep == {"credentials", "found", "failed", "session", "commit_200", "commit_401"}
UpdateStep == {"update", "cut", "commit_update"}
Step == {"new", "auth", "handler", "done"} \cup LoginStep \cup UpdateStep

TypeOK ==
    /\ clock \in Nat
    /\ canLogin \in [Users -> BOOLEAN] /\ level \in [Users -> Level]
    /\ sessions \in [Tokens -> Session \cup {NoSession}]
    /\ limits \in [Senders -> Limit \cup {NoLimit}]
    /\ pc \in [Requests -> Step]
    /\ route \in [Requests -> AllRoutes]
    /\ token \in [Requests -> Tokens \cup {NoToken}]
    /\ sender \in [Requests -> Senders]
    /\ reqTime \in [Requests -> Nat]
    /\ actor \in [Requests -> Users \cup {NoUser}] /\ actorLevel \in [Requests -> Level]
    /\ person \in [Requests -> Users \cup {NoUser}]
    /\ seen \in [Requests -> Limit \cup {NoLimit}]
    /\ answer \in [Requests -> {0, 200, 400, 401, 403, 429, 500}]
    /\ newToken \in [Requests -> Tokens \cup {NoToken}]
    /\ limitOp \in [Requests -> {"none", "set", "delete"}]
    /\ newRow \in [Requests -> UserRow]
    /\ cut \in [Requests -> SUBSET Tokens]
    /\ expired \in SUBSET Tokens
    /\ issued \in SUBSET Tokens
    /\ failures \in [Senders -> Nat]
    /\ raced \in SUBSET Senders
    /\ slipping \in SUBSET Requests
    /\ slipped \in SUBSET Tokens

Init ==
    /\ clock = 0
    /\ canLogin = [u \in Users |-> TRUE]
    /\ level = [u \in Users |-> IF u \in Admins THEN "admin" ELSE "user"]
    /\ sessions = [k \in Tokens |->
                      IF k \in DOMAIN FirstSessions
                      THEN [user |-> FirstSessions[k], exp |-> Lifetime] ELSE NoSession]
    /\ limits = [s \in Senders |-> NoLimit]
    /\ pc = [r \in Requests |-> "new"]
    /\ route \in [Requests -> {"other"}]
    /\ token = [r \in Requests |-> NoToken]
    /\ sender \in [Requests -> Senders]
    /\ reqTime = [r \in Requests |-> 0]
    /\ actor = [r \in Requests |-> NoUser]
    /\ actorLevel = [r \in Requests |-> "user"]
    /\ person = [r \in Requests |-> NoUser]
    /\ seen = [r \in Requests |-> NoLimit]
    /\ answer = [r \in Requests |-> 0]
    /\ newToken = [r \in Requests |-> NoToken]
    /\ limitOp = [r \in Requests |-> "none"]
    /\ newRow = [r \in Requests |-> NoRow]
    /\ cut = [r \in Requests |-> {}]
    /\ expired = {}
    /\ issued = DOMAIN FirstSessions
    /\ failures = [s \in Senders |-> 0]
    /\ raced = {} /\ slipping = {} /\ slipped = {}


Tick ==
    /\ clock < MaxTime
    /\ clock' = clock + 1
    /\ UNCHANGED <<tableVars, pc, infoVars, person, seen, answer, writeVars, expired, historyVars>>

Finish(r, status) ==
    /\ pc' = [pc EXCEPT ![r] = "done"]
    /\ answer' = [answer EXCEPT ![r] = status]

\* Mutant: the transaction is left open.
LeftOpen(r) == UNCHANGED <<newToken, limitOp, newRow, cut>>

\* The end of a transaction.
Discard(r) ==
    /\ newToken' = [newToken EXCEPT ![r] = NoToken]
    /\ limitOp' = [limitOp EXCEPT ![r] = "none"]
    /\ newRow' = [newRow EXCEPT ![r] = NoRow]
    /\ cut' = [cut EXCEPT ![r] = {}]

-----------------------------------------------------------------------------
(* The auth middleware *)

\* Tokens a client may hold: those of finished logins.
Known == {k \in issued : \A r \in Requests : newToken[r] # k}

Arrive(r) ==
    /\ pc[r] = "new"
    /\ \E a \in Routes, k \in Known \cup {NoToken} :
          /\ route' = [route EXCEPT ![r] = a]
          /\ token' = [token EXCEPT ![r] = k]
    /\ reqTime' = [reqTime EXCEPT ![r] = clock]
    /\ pc' = [pc EXCEPT ![r] = "auth"]
    /\ UNCHANGED <<clock, tableVars, sender, actor, actorLevel, person, seen, answer, writeVars,
                   expired, historyVars>>

Anonymous(r) == token[r] = NoToken

\* The session that the UPDATE of prolong_access_token_and_get_user_info finds,
\* and what its SELECT adds to the condition.
Valid(r) ==
    /\ ~ Anonymous(r)
    /\ sessions[token[r]] # NoSession
    /\ sessions[token[r]].exp > reqTime[r]
Authorized(r) == Valid(r) /\ canLogin[sessions[token[r]].user]

\* Mutant: a session is prolonged by adding to what is left of it.
ProlongedByAdding(r) == sessions[token[r]].exp + Lifetime

Prolonged(r) == reqTime[r] + Lifetime

\* The status the middleware refuses request r with, 0 if it does not: an
\* invalid token, then the route checks of auth/route_access.
Refusal(r) ==
    CASE ~ Anonymous(r) /\ ~ Authorized(r) /\ route[r] \notin TolerantRoutes -> 401
      [] Anonymous(r) /\ route[r] \in {"logout", "users_update"}           -> 401
      [] ~ Anonymous(r) /\ route[r] = "login"                             -> 403
      [] OTHER                                                            -> 0

\* The UPDATE waits for a transaction that deletes the session, and commits by
\* itself: the session is prolonged even when the user can't log in.
Authenticate(r) ==
    /\ pc[r] = "auth"
    /\ \A q \in Requests : token[r] \notin cut[q]
    /\ sessions' = IF Valid(r) THEN [sessions EXCEPT ![token[r]].exp = Prolonged(r)] ELSE sessions
    /\ IF Authorized(r)
       THEN /\ actor' = [actor EXCEPT ![r] = sessions[token[r]].user]
            /\ actorLevel' = [actorLevel EXCEPT ![r] = level[sessions[token[r]].user]]
       ELSE UNCHANGED <<actor, actorLevel>>
    /\ IF Refusal(r) = 0
       THEN pc' = [pc EXCEPT ![r] = "handler"] /\ UNCHANGED answer
       ELSE Finish(r, Refusal(r))
    /\ UNCHANGED <<clock, canLogin, level, limits, route, token, sender, reqTime, person, seen,
                   writeVars, expired, historyVars>>

\* Routes that leave these tables alone.  The middleware adds the expiration
\* time to the response; it has none for an invalid token.
Respond(r) ==
    /\ pc[r] = "handler"
    /\ route[r] \in {"settings_view", "other"}
    /\ Finish(r, IF ~ Anonymous(r) /\ actor[r] = NoUser THEN 500 ELSE 200)
    /\ UNCHANGED <<clock, tableVars, infoVars, person, seen, writeVars, expired, historyVars>>

Logout(r) ==
    /\ pc[r] = "handler"
    /\ route[r] = "logout"
    /\ \A q \in Requests : token[r] \notin cut[q]
    /\ sessions' = [sessions EXCEPT ![token[r]] = NoSession]
    /\ Finish(r, 200)
    /\ UNCHANGED <<clock, canLogin, level, limits, infoVars, person, seen, writeVars, expired,
                   historyVars>>

-----------------------------------------------------------------------------
(* /auth/login *)

Attempting(r) == pc[r] \in LoginStep
SameSender(q, r) == sender[q] = sender[r]

\* Mutant: after the last delay there is none.
DelaysRunOut(attempts) ==
    IF attempts < FreeAttempts \/ attempts >= FreeAttempts + Len(Delays)
    THEN - Past ELSE Delays[attempts - FreeAttempts + 1]

\* get_login_attempts_timeout_in_seconds
Timeout(attempts) ==
    CASE attempts < FreeAttempts                -> - Past
      [] attempts >= FreeAttempts + Len(Delays) -> LongestDelay
      [] OTHER                                  -> Delays[attempts - FreeAttempts + 1]

\* get_request_sender_login_rate_limit
Limited(r) == limits[sender[r]] # NoLimit /\ limits[sender[r]].until > reqTime[r]

Overlapped(r) == \E q \in Requests \ {r} : SameSender(q, r) /\ Attempting(q)

ReadLimit(r) ==
    /\ pc[r] = "handler"
    /\ route[r] = "login"
    /\ IF Limited(r)
       THEN Finish(r, 429) /\ UNCHANGED <<seen, raced>>
       ELSE /\ pc' = [pc EXCEPT ![r] = "credentials"]
            /\ seen' = [seen EXCEPT ![r] = limits[sender[r]]]
            /\ raced' = IF Overlapped(r) THEN raced \cup {sender[r]} ELSE raced
            /\ UNCHANGED answer
    /\ UNCHANGED <<clock, tableVars, infoVars, person, writeVars, expired, issued, failures,
                   slipping, slipped>>

\* Mutant: whether the user can log in is not asked.
AnyUserFound(r) ==
    /\ pc[r] = "credentials"
    /\ \/ pc' = [pc EXCEPT ![r] = "failed"] /\ UNCHANGED person
       \/ /\ pc' = [pc EXCEPT ![r] = "found"]
          /\ \E u \in Users : person' = [person EXCEPT ![r] = u]
    /\ UNCHANGED <<clock, tableVars, infoVars, seen, answer, writeVars, expired, historyVars>>

\* Malformed credentials, or no such user, or a user.  The transaction starts.
CheckCredentials(r) ==
    /\ pc[r] = "credentials"
    /\ \/ pc' = [pc EXCEPT ![r] = "failed"] /\ UNCHANGED <<person, answer>>
       \/ \E u \in Users :
             IF canLogin[u]
             THEN /\ pc' = [pc EXCEPT ![r] = "found"]
                  /\ person' = [person EXCEPT ![r] = u]
                  /\ UNCHANGED answer
             ELSE Finish(r, 403) /\ UNCHANGED person
    /\ UNCHANGED <<clock, tableVars, infoVars, seen, writeVars, expired, historyVars>>

\* The row of the sender is not locked by another transaction.
LimitUnlocked(r) == \A q \in Requests \ {r} : SameSender(q, r) => limitOp[q] = "none"

\* increase_request_sender_login_rate_limit
IncreaseLimit(r) ==
    /\ pc[r] = "failed"
    /\ LimitUnlocked(r)
    /\ pc' = [pc EXCEPT ![r] = "commit_401"]
    /\ limitOp' = [limitOp EXCEPT ![r] = "set"]
    /\ UNCHANGED <<clock, tableVars, infoVars, person, seen, answer, newToken, newRow, cut, expired,
                   historyVars>>

\* Mutant: the token is made from something that comes again.
ReusedTokens == Tokens \ {k \in Tokens : sessions[k] # NoSession}

FreshTokens == Tokens \ issued

AddSession(r) ==
    /\ pc[r] = "found"
    /\ \E k \in FreshTokens :
          /\ newToken' = [newToken EXCEPT ![r] = k]
          /\ issued' = issued \cup {k}
    /\ pc' = [pc EXCEPT ![r] = "session"]
    /\ UNCHANGED <<clock, tableVars, infoVars, person, seen, answer, limitOp, newRow, cut, expired,
                   failures, raced, slipping, slipped>>

\* delete_request_sender_login_rate_limit: a row it does not see it leaves alone.
DeleteLimit(r) ==
    /\ pc[r] = "session"
    /\ \/ limits[sender[r]] = NoLimit /\ UNCHANGED limitOp
       \/ /\ limits[sender[r]] # NoLimit
          /\ LimitUnlocked(r)
          /\ limitOp' = [limitOp EXCEPT ![r] = "delete"]
    /\ pc' = [pc EXCEPT ![r] = "commit_200"]
    /\ UNCHANGED <<clock, tableVars, infoVars, person, seen, answer, newToken, newRow, cut, expired,
                   historyVars>>

SeenCount(r) == IF seen[r] = NoLimit THEN 0 ELSE seen[r].count

\* Mutant: the delay is looked up with the old count and not increased.
LimitNotIncreased(r) ==
    [count |-> SeenCount(r), until |-> reqTime[r] + Timeout(SeenCount(r))]

NewLimit(r) ==
    [count |-> SeenCount(r) + 1, until |-> reqTime[r] + Timeout(SeenCount(r))]

\* Mutant: a refused login is rolled back like any other exception.
LimitsRolledBack(r) ==
    IF limitOp[r] = "delete" THEN [limits EXCEPT ![sender[r]] = NoLimit] ELSE limits

LimitsAfter(r) ==
    CASE limitOp[r] = "none"   -> limits
      [] limitOp[r] = "set"    -> [limits EXCEPT ![sender[r]] = NewLimit(r)]
      [] limitOp[r] = "delete" -> [limits EXCEPT ![sender[r]] = NoLimit]

\* A transaction has deleted the sessions of u and not committed yet.
BeingDisabled(u) ==
    \E q \in Requests : pc[q] = "commit_update" /\ newRow[q].disables /\ person[q] = u

CommitLogin(r) ==
    LET k == newToken[r] IN
    /\ pc[r] = "commit_200"
    /\ sessions' = [sessions EXCEPT ![k] = [user |-> person[r], exp |-> reqTime[r] + Lifetime]]
    /\ limits' = LimitsAfter(r)
    /\ Discard(r)
    /\ Finish(r, 200)
    /\ failures' = [failures EXCEPT ![sender[r]] = 0]
    /\ slipped' = IF r \in slipping \/ BeingDisabled(person[r]) THEN slipped \cup {k} ELSE slipped
    /\ slipping' = slipping \ {r}
    /\ UNCHANGED <<clock, canLogin, level, infoVars, person, seen, expired, issued, raced>>

\* IncorrectCredentialsException: the middleware commits, then answers 401.
CommitRefusal(r) ==
    /\ pc[r] = "commit_401"
    /\ limits' = LimitsAfter(r)
    /\ Discard(r)
    /\ Finish(r, 401)
    /\ failures' = [failures EXCEPT ![sender[r]] = @ + 1]
    /\ UNCHANGED <<clock, canLogin, level, sessions, infoVars, person, seen, expired, issued, raced,
                   slipping, slipped>>

-----------------------------------------------------------------------------
(* /users/update *)

\* authorize_user_update: others, and privileges, are for admins to change.
\* validate_user_update_issuer: the password is theirs, or it is a 400.  What
\* non-admins may change of themselves is not in these variables.
CheckIssuer(r) ==
    /\ pc[r] = "handler"
    /\ route[r] = "users_update"
    /\ \/ Finish(r, 400) /\ UNCHANGED person
       \/ actorLevel[r] # "admin" /\ (Finish(r, 200) \/ Finish(r, 403)) /\ UNCHANGED person
       \/ /\ actorLevel[r] = "admin"
          /\ pc' = [pc EXCEPT ![r] = "update"]
          /\ \E u \in Users : person' = [person EXCEPT ![r] = u]
          /\ UNCHANGED answer
    /\ UNCHANGED <<clock, tableVars, infoVars, seen, writeVars, expired, historyVars>>

UserUnlocked(r) ==
    \A q \in Requests \ {r} : pc[q] \in {"cut", "commit_update"} => person[q] # person[r]

\* UPDATE users: can_login and user_level keep their value unless given.
UpdateUser(r) ==
    LET u == person[r] IN
    /\ pc[r] = "update"
    /\ UserUnlocked(r)
    /\ \E can \in {canLogin[u], TRUE}, lev \in Level :
          newRow' = [newRow EXCEPT ![r] = [canLogin |-> can, level |-> lev, disables |-> FALSE]]
    /\ pc' = [pc EXCEPT ![r] = "commit_update"]
    /\ UNCHANGED <<clock, tableVars, infoVars, person, seen, answer, newToken, limitOp, cut, expired,
                   historyVars>>

\* The same, where the body sets can_login to false.
DisableUser(r) ==
    /\ pc[r] = "update"
    /\ UserUnlocked(r)
    /\ \E lev \in Level :
          newRow' = [newRow EXCEPT ![r] = [canLogin |-> FALSE, level |-> lev, disables |-> TRUE]]
    /\ pc' = [pc EXCEPT ![r] = "cut"]
    /\ UNCHANGED <<clock, tableVars, infoVars, person, seen, answer, newToken, limitOp, cut, expired,
                   historyVars>>

\* Mutant: the issuer's sessions are deleted, not the user's.
SessionsOfIssuer(r) == {k \in Tokens : sessions[k] # NoSession /\ sessions[k].user = actor[r]}

SessionsCut(r) == {k \in Tokens : sessions[k] # NoSession /\ sessions[k].user = person[r]}

\* delete_user_sessions, of a user who can no longer log in.
CutSessions(r) ==
    /\ pc[r] = "cut"
    /\ cut' = [cut EXCEPT ![r] = SessionsCut(r)]
    /\ pc' = [pc EXCEPT ![r] = "commit_update"]
    /\ UNCHANGED <<clock, tableVars, infoVars, person, seen, answer, newToken, limitOp, newRow,
                   expired, historyVars>>

\* Logins past their check of the user.
LoggingIn(u) ==
    {q \in Requests : pc[q] \in {"found", "session", "commit_200"} /\ person[q] = u}

CommitUpdate(r) ==
    LET u == person[r] IN
    /\ pc[r] = "commit_update"
    /\ canLogin' = [canLogin EXCEPT ![u] = newRow[r].canLogin]
    /\ level' = [level EXCEPT ![u] = newRow[r].level]
    /\ sessions' = [k \in Tokens |-> IF k \in cut[r] THEN NoSession ELSE sessions[k]]
    /\ Discard(r)
    /\ Finish(r, 200)
    /\ slipping' = IF newRow[r].disables THEN slipping \cup LoggingIn(u) ELSE slipping
    /\ UNCHANGED <<clock, limits, infoVars, person, seen, expired, issued, failures, raced, slipped>>

-----------------------------------------------------------------------------
(* Failures and scheduled jobs *)

\* Any other exception, or the end of the process: the transaction, if there is
\* one, is rolled back.  (400 stands for every status of such an answer.)
Fail(r) ==
    /\ pc[r] \notin {"new", "done"}
    /\ Discard(r)
    /\ Finish(r, 400)
    /\ slipping' = slipping \ {r}
    /\ UNCHANGED <<clock, tableVars, infoVars, person, seen, expired, issued, failures, raced,
                   slipped>>

\* clear_expired_sessions: the subquery chooses tokens ...
SelectExpired ==
    /\ expired = {}
    /\ expired' = {k \in Tokens : /\ sessions[k] # NoSession
                                  /\ sessions[k].exp < clock \/ ~ canLogin[sessions[k].user]}
    /\ expired' # {}
    /\ UNCHANGED <<clock, tableVars, pc, infoVars, person, seen, answer, writeVars, historyVars>>

\* ... and the DELETE, row by row, waits for transactions that delete some of
\* them; what was prolonged in the meantime is deleted too.
DeleteExpired ==
    /\ expired # {}
    /\ \A r \in Requests : expired \cap cut[r] = {}
    /\ sessions' = [k \in Tokens |-> IF k \in expired THEN NoSession ELSE sessions[k]]
    /\ expired' = {}
    /\ UNCHANGED <<clock, canLogin, level, limits, pc, infoVars, person, seen, answer, writeVars,
                   historyVars>>

Outdated == {s \in Senders : limits[s] # NoLimit /\ limits[s].until < clock - Retention}

\* clear_expired_login_limits
ClearLimits ==
    /\ Outdated # {}
    /\ \A r \in Requests : limitOp[r] # "none" => sender[r] \notin Outdated
    /\ limits' = [s \in Senders |-> IF s \in Outdated THEN NoLimit ELSE limits[s]]
    /\ failures' = [s \in Senders |-> IF s \in Outdated THEN 0 ELSE failures[s]]
    /\ raced' = raced \cup {s \in Outdated : \E r \in Requests : sender[r] = s /\ Attempting(r)}
    /\ UNCHANGED <<clock, canLogin, level, sessions, pc, infoVars, person, seen, answer, writeVars,
                   expired, issued, slipping, slipped>>

-----------------------------------------------------------------------------
LoginStepOf(r) ==
    \/ ReadLimit(r) \/ CheckCredentials(r) \/ IncreaseLimit(r) \/ CommitRefusal(r)
    \/ AddSession(r) \/ DeleteLimit(r) \/ CommitLogin(r)

UpdateStepOf(r) == 
    \/ CheckIssuer(r) \/ UpdateUser(r) \/ DisableUser(r) \/ CutSessions(r) \/ CommitUpdate(r)

RequestStep(r) ==
    Authenticate(r) \/ Respond(r) \/ Logout(r) \/ LoginStepOf(r) \/ UpdateStepOf(r)

Next ==
    \/ Tick
    \/ \E r \in Requests : Arrive(r) \/ RequestStep(r) \/ Fail(r)
    \/ SelectExpired \/ DeleteExpired \/ ClearLimits

Spec == Init /\ [][Next]_vars

\* The event loop runs every request it holds, and Postgres answers.
FairSpec == Spec /\ \A r \in Requests : WF_vars(RequestStep(r))

-----------------------------------------------------------------------------
(* Properties *)

\* A session ends one lifetime after its last use at the latest, and a login
\* rate limit one longest delay after its last attempt: no clock reading is
\* added twice, whatever the order requests with older readings run in.
TimesLapse ==
    /\ \A k \in Tokens : sessions[k] # NoSession => sessions[k].exp <= clock + Lifetime
    /\ \A s \in Senders : limits[s] # NoLimit => limits[s].until <= clock + LongestDelay

\* An attempt answered 401 leaves a limit behind, though its request failed,
\* until a login or the job clears it.
RefusalsLeaveALimit == \A s \in Senders : failures[s] > 0 => limits[s] # NoLimit

\* The limit counts every attempt answered 401 since it was last cleared, if no
\* two attempts of the sender overlapped: it is read before the transaction and
\* written from what was read.
FailuresAreCounted ==
    \A s \in Senders \ raced : failures[s] = IF limits[s] = NoLimit THEN 0 ELSE limits[s].count

\* Once attempts are delayed, one more failure never ends the delay earlier.
DelaysOnlyGrow ==
    [][\A s \in Senders \ raced' :
          limits[s] # NoLimit /\ limits'[s] # NoLimit /\ limits[s].count >= FreeAttempts
              => limits'[s].until >= limits[s].until]_vars

\* A user who can't log in has no session, except from logins that overlapped
\* the change: routes/users.py deletes the sessions in the same transaction,
\* login checks the user in a transaction of its own.
DisabledSessionsSlipped ==
    \A k \in Tokens : sessions[k] # NoSession => canLogin[sessions[k].user] \/ k \in slipped

\* A token without a session never gets one again: neither a late prolongation
\* nor a late commit revives what a logout, an update or the job deleted.
Dead(k) == k \in Known /\ sessions[k] = NoSession
DeadTokensStayDead == [][\A k \in Tokens : Dead(k) => Dead(k)']_vars

\* Every request is answered: row locks are waited for in an order without cycles.
RequestsEnd == \A r \in Requests : pc[r] # "new" ~> pc[r] = "done"

\* routes/users.py: "Delete user sessions, if he can no longer log in".
DisabledUsersHaveNoSessions ==
    \A k \in Tokens : sessions[k] # NoSession => canLogin[sessions[k].user]

\* middlewares/auth.py: "Allow invalid tokens for some routes".
InvalidTokensAreTolerated ==
    \A r \in Requests : route[r] \in TolerantRoutes => answer[r] # 500

-----------------------------------------------------------------------------
(* What makes the properties inductive *)

RequestShape ==
    \A r \in Requests :
        /\ reqTime[r] <= clock
        /\ pc[r] \in {"found", "session", "commit_200"} \cup UpdateStep => person[r] \in Users
        /\ pc[r] \in {"session", "commit_200"} => newToken[r] \in Tokens
        /\ pc[r] \notin {"commit_200", "commit_401"} => limitOp[r] = "none"
        /\ pc[r] = "commit_401" => limitOp[r] = "set"
        /\ pc[r] = "commit_200" => limitOp[r] # "set"
        /\ pc[r] = "cut" => newRow[r].disables
        /\ newRow[r].disables => ~ newRow[r].canLogin

\* Row locks: no two updates hold the row of one user, so that what one read of
\* it stays true until it commits.
UpdatesExclude ==
    \A q, r \in Requests :
        q # r /\ pc[q] \in {"cut", "commit_update"} /\ pc[r] \in {"cut", "commit_update"}
            => person[q] # person[r]

KeptDisabled ==
    \A r \in Requests :
        pc[r] = "commit_update" /\ ~ newRow[r].canLogin /\ ~ newRow[r].disables
            => ~ canLogin[person[r]]

\* An update about to disable a user has deleted all sessions of theirs but those
\* of logins that committed later.
CutCovers ==
    \A r \in Requests : pc[r] = "commit_update" /\ newRow[r].disables =>
        \A k \in Tokens :
            sessions[k] # NoSession /\ sessions[k].user = person[r] => k \in cut[r] \cup slipped

LoginsMayEnter ==
    \A r \in Requests : pc[r] \in {"found", "session", "commit_200"} =>
        canLogin[person[r]] \/ r \in slipping

\* What an attempt has read of the limit allowed it, and is still there unless
\* attempts overlapped.
SeenIsOver ==
    \A r \in Requests : Attempting(r) /\ seen[r] # NoLimit => seen[r].until <= reqTime[r]

AttemptsAreAlone ==
    \A r \in Requests : Attempting(r) /\ sender[r] \notin raced =>
        /\ seen[r] = limits[sender[r]]
        /\ \A q \in Requests \ {r} : Attempting(q) => sender[q] # sender[r]
        /\ pc[r] = "commit_200" /\ limitOp[r] = "none" => limits[sender[r]] = NoLimit

\* What a user may do, and what a sender may, as it follows from what their
\* requests hold: inductive, and the runs check it as it is proved.
IInv ==
    /\ TypeOK
    /\ RequestShape
    /\ UpdatesExclude
    /\ KeptDisabled
    /\ CutCovers
    /\ LoginsMayEnter
    /\ SeenIsOver
    /\ AttemptsAreAlone
    /\ TimesLapse
    /\ RefusalsLeaveALimit
    /\ FailuresAreCounted
    /\ DisabledSessionsSlipped

=============================================================================
