------------------------------- MODULE AuthProofs -------------------------------
(***************************************************************************)
(* Proofs about Auth, for every set of users, tokens, senders and          *)
(* requests, every table of delays and every lifetime.                     *)
(***************************************************************************)
EXTENDS Auth, TLAPS

-----------------------------------------------------------------------------
(* Type correctness *)

\* A delay is an integer, and the longest one is the longest.
LEMMA TimeoutBounds ==
  ASSUME NEW n \in Nat
  PROVE  Timeout(n) \in Int /\ Timeout(n) <= LongestDelay
  <1> USE TimesAreNaturals, DelaysAreAtMostLongest
  <1>1. CASE n < FreeAttempts
    BY <1>1 DEF Timeout
  <1>2. CASE n >= FreeAttempts + Len(Delays)
    BY <1>2 DEF Timeout
  <1>3. CASE ~ (n < FreeAttempts) /\ ~ (n >= FreeAttempts + Len(Delays))
    <2>1. n - FreeAttempts + 1 \in 1 .. Len(Delays)
      BY <1>3
    <2>2. Delays[n - FreeAttempts + 1] \in Nat /\ Delays[n - FreeAttempts + 1] <= LongestDelay
      BY <2>1
    <2> QED
      BY <1>3, <2>2 DEF Timeout
  <1> QED
    BY <1>1, <1>2, <1>3

\* Once attempts are delayed, no delay is negative.
LEMMA TimeoutGrows ==
  ASSUME NEW n \in Nat, n >= FreeAttempts
  PROVE  Timeout(n) >= 0
  <1> USE TimesAreNaturals
  <1>1. CASE n >= FreeAttempts + Len(Delays)
    BY <1>1 DEF Timeout
  <1>2. CASE ~ (n >= FreeAttempts + Len(Delays))
    <2>1. n - FreeAttempts + 1 \in 1 .. Len(Delays)
      BY <1>2
    <2>2. Delays[n - FreeAttempts + 1] \in Nat
      BY <2>1
    <2> QED
      BY <1>2, <2>2 DEF Timeout
  <1> QED
    BY <1>1, <1>2

\* The limit an attempt writes is one, and no limit is not.
LEMMA NewLimitType ==
  ASSUME TypeOK, NEW r \in Requests
  PROVE  /\ SeenCount(r) \in Nat
         /\ NewLimit(r) \in Limit /\ NewLimit(r) # NoLimit
  <1>1. SeenCount(r) \in Nat
    BY DEF TypeOK, SeenCount, Limit
  <1>2. Timeout(SeenCount(r)) \in Int /\ reqTime[r] \in Nat
    BY <1>1, TimeoutBounds DEF TypeOK
  <1>3. NewLimit(r) \in Limit
    BY <1>1, <1>2 DEF NewLimit, Limit
  <1> QED
    BY <1>1, <1>3, NothingIsNoRow

\* A transaction touches the limit of its sender only.
LEMMA LimitsAfterType ==
  ASSUME TypeOK, NEW r \in Requests
  PROVE  LimitsAfter(r) \in [Senders -> Limit \cup {NoLimit}]
  BY NewLimitType DEF TypeOK, LimitsAfter

\* The initial state is well typed.
LEMMA InitTypeOK == Init => TypeOK
  BY NothingIsNot, SessionsOfUsers, TimesAreNaturals
     DEF Init, TypeOK, Session, Step, LoginStep, UpdateStep, AllRoutes, Level, UserRow, NoRow

\* The middleware preserves the types.
LEMMA MiddlewareTypeOK ==
  ASSUME TypeOK, NEW r \in Requests,
         Arrive(r) \/ Authenticate(r) \/ Respond(r) \/ Logout(r)
  PROVE  TypeOK'
  <1> USE DEF TypeOK, Step, Finish, tableVars, infoVars, writeVars, historyVars
  <1>1. CASE Arrive(r)
    BY <1>1, NothingIsNot DEF Arrive, Known, AllRoutes
  <1>2. CASE Authenticate(r)
    <2>1. Prolonged(r) \in Int
      BY TimesAreNaturals DEF Prolonged
    <2>2. sessions' \in [Tokens -> Session \cup {NoSession}]
      BY <1>2, <2>1 DEF Authenticate, Valid, Anonymous, Session
    <2>3. actor' \in [Requests -> Users \cup {NoUser}] /\ actorLevel' \in [Requests -> Level]
      <3>1. CASE Authorized(r)
        <4>1. sessions[token[r]].user \in Users
          BY <3>1 DEF Authorized, Valid, Anonymous, Session
        <4>2. level[sessions[token[r]].user] \in Level
          BY <4>1
        <4>3. /\ actor' = [actor EXCEPT ![r] = sessions[token[r]].user]
              /\ actorLevel' = [actorLevel EXCEPT ![r] = level[sessions[token[r]].user]]
          BY <1>2, <3>1 DEF Authenticate
        <4> QED
          BY <4>1, <4>2, <4>3
      <3>2. CASE ~ Authorized(r)
        BY <1>2, <3>2 DEF Authenticate
      <3> QED
        BY <3>1, <3>2
    <2>4. pc' \in [Requests -> Step] /\ answer' \in [Requests -> {0, 200, 400, 401, 403, 429, 500}]
      BY <1>2 DEF Authenticate, Refusal
    <2> QED
      BY <1>2, <2>2, <2>3, <2>4 DEF Authenticate
  <1>3. CASE Respond(r)
    BY <1>3 DEF Respond
  <1>4. CASE Logout(r)
    BY <1>4 DEF Logout
  <1> QED
    BY <1>1, <1>2, <1>3, <1>4

\* So does /auth/login.
LEMMA LoginTypeOK ==
  ASSUME TypeOK, RequestShape, NEW r \in Requests, LoginStepOf(r)
  PROVE  TypeOK'
  <1> USE DEF TypeOK, Step, LoginStep, Finish, Discard, tableVars, infoVars, writeVars, historyVars
  <1>1. CASE ReadLimit(r)
    BY <1>1 DEF ReadLimit
  <1>2. CASE CheckCredentials(r)
    BY <1>2 DEF CheckCredentials
  <1>3. CASE IncreaseLimit(r)
    BY <1>3 DEF IncreaseLimit
  <1>4. CASE CommitRefusal(r)
    <2>1. limits' \in [Senders -> Limit \cup {NoLimit}]
      BY <1>4, LimitsAfterType DEF CommitRefusal
    <2>2. failures' \in [Senders -> Nat]
      BY <1>4 DEF CommitRefusal
    <2>3. newRow' \in [Requests -> UserRow]
      BY <1>4 DEF CommitRefusal, NoRow, UserRow, Level
    <2> QED
      BY <1>4, <2>1, <2>2, <2>3 DEF CommitRefusal
  <1>5. CASE AddSession(r)
    BY <1>5 DEF AddSession, FreshTokens
  <1>6. CASE DeleteLimit(r)
    BY <1>6 DEF DeleteLimit
  <1>7. CASE CommitLogin(r)
    <2>1. limits' \in [Senders -> Limit \cup {NoLimit}]
      BY <1>7, LimitsAfterType DEF CommitLogin
    <2>2. person[r] \in Users /\ newToken[r] \in Tokens
      BY <1>7 DEF CommitLogin, RequestShape
    <2>3. [user |-> person[r], exp |-> reqTime[r] + Lifetime] \in Session
      BY <2>2, TimesAreNaturals DEF Session
    <2>4. sessions' \in [Tokens -> Session \cup {NoSession}] /\ slipped' \in SUBSET Tokens
      BY <1>7, <2>2, <2>3 DEF CommitLogin
    <2> QED
      BY <1>7, <2>1, <2>4 DEF CommitLogin, NoRow, UserRow, Level
  <1> QED
    BY <1>1, <1>2, <1>3, <1>4, <1>5, <1>6, <1>7 DEF LoginStepOf

\* And /users/update.
LEMMA UpdateTypeOK ==
  ASSUME TypeOK, RequestShape, NEW r \in Requests, UpdateStepOf(r) \/ Fail(r)
  PROVE  TypeOK'
  <1> USE DEF TypeOK, Step, UpdateStep, Finish, Discard, tableVars, infoVars, writeVars, historyVars
  <1>1. CASE CheckIssuer(r)
    BY <1>1 DEF CheckIssuer
  <1>2. CASE UpdateUser(r)
    <2>1. person[r] \in Users
      BY <1>2 DEF UpdateUser, RequestShape
    <2>2. PICK can \in {canLogin[person[r]], TRUE}, lev \in Level :
            newRow' = [newRow EXCEPT ![r] = [canLogin |-> can, level |-> lev, disables |-> FALSE]]
      BY <1>2 DEF UpdateUser
    <2>3. can \in BOOLEAN
      <3>1. canLogin \in [Users -> BOOLEAN]
        BY DEF TypeOK
      <3>2. canLogin[person[r]] \in BOOLEAN
        BY ONLY <2>1, <3>1, Zenon
      <3> QED
        BY ONLY <3>2, Zenon
    <2>4. [canLogin |-> can, level |-> lev, disables |-> FALSE] \in UserRow
      BY ONLY <2>3, Zenon DEF UserRow
    <2>5. newRow' \in [Requests -> UserRow]
      BY <2>2, <2>4
    <2> QED
      BY <1>2, <2>5 DEF UpdateUser
  <1>3. CASE DisableUser(r)
    BY <1>3 DEF DisableUser, UserRow, Level
  <1>4. CASE CutSessions(r)
    BY <1>4 DEF CutSessions, SessionsCut
  <1>5. CASE CommitUpdate(r)
    <2>1. canLogin' \in [Users -> BOOLEAN] /\ level' \in [Users -> Level]
      BY <1>5 DEF CommitUpdate, UserRow
    <2>2. sessions' \in [Tokens -> Session \cup {NoSession}] /\ slipping' \in SUBSET Requests
      BY <1>5 DEF CommitUpdate, LoggingIn
    <2>3. newRow' \in [Requests -> UserRow]
      BY <1>5 DEF CommitUpdate, NoRow, UserRow, Level
    <2> QED
      BY <1>5, <2>1, <2>2, <2>3 DEF CommitUpdate
  <1>6. CASE Fail(r)
    BY <1>6 DEF Fail, NoRow, UserRow, Level
  <1> QED
    BY <1>1, <1>2, <1>3, <1>4, <1>5, <1>6 DEF UpdateStepOf

\* And the clock and the jobs.
LEMMA JobTypeOK ==
  ASSUME TypeOK, Tick \/ SelectExpired \/ DeleteExpired \/ ClearLimits
  PROVE  TypeOK'
  <1> USE DEF TypeOK, tableVars, infoVars, writeVars, historyVars
  <1>1. CASE Tick
    BY <1>1 DEF Tick
  <1>2. CASE SelectExpired
    BY <1>2 DEF SelectExpired
  <1>3. CASE DeleteExpired
    BY <1>3 DEF DeleteExpired
  <1>4. CASE ClearLimits
    BY <1>4 DEF ClearLimits, Outdated
  <1> QED
    BY <1>1, <1>2, <1>3, <1>4

-----------------------------------------------------------------------------
(* The parts of the inductive invariant, one lemma for each *)

\* What a request is doing says what it holds.
LEMMA StepRequestShape ==
  ASSUME TypeOK, RequestShape, Next
  PROVE  RequestShape'
  <1> USE DEF TypeOK, tableVars, infoVars, writeVars, historyVars, Finish, Discard, UpdateStep,
              NoRow
  <1>1. CASE Tick
    BY <1>1 DEF Tick, RequestShape
  <1>2. CASE SelectExpired \/ DeleteExpired \/ ClearLimits
    BY <1>2 DEF SelectExpired, DeleteExpired, ClearLimits, RequestShape
  <1>3. ASSUME NEW r \in Requests, Arrive(r) \/ Authenticate(r) \/ Respond(r) \/ Logout(r)
        PROVE  RequestShape'
    BY <1>3 DEF Arrive, Authenticate, Respond, Logout, RequestShape
  <1>4. ASSUME NEW r \in Requests, ReadLimit(r) \/ CheckCredentials(r) \/ IncreaseLimit(r)
        PROVE  RequestShape'
    BY <1>4 DEF ReadLimit, CheckCredentials, IncreaseLimit, RequestShape
  <1>5. ASSUME NEW r \in Requests, AddSession(r) \/ DeleteLimit(r)
        PROVE  RequestShape'
    BY <1>5 DEF AddSession, FreshTokens, DeleteLimit, RequestShape
  <1>6. ASSUME NEW r \in Requests, CommitRefusal(r) \/ CommitLogin(r) \/ CommitUpdate(r) \/ Fail(r)
        PROVE  RequestShape'
    BY <1>6 DEF CommitRefusal, CommitLogin, CommitUpdate, Fail, RequestShape
  <1>7. ASSUME NEW r \in Requests, CheckIssuer(r) \/ UpdateUser(r) \/ DisableUser(r) \/ CutSessions(r)
        PROVE  RequestShape'
    BY <1>7 DEF CheckIssuer, UpdateUser, DisableUser, CutSessions, RequestShape
  <1> QED
    BY <1>1, <1>2, <1>3, <1>4, <1>5, <1>6, <1>7
       DEF Next, RequestStep, LoginStepOf, UpdateStepOf

\* An update takes the row of its user when no other update holds it.
LEMMA StepUpdatesExclude ==
  ASSUME TypeOK, RequestShape, UpdatesExclude, Next
  PROVE  UpdatesExclude'
  <1> USE DEF TypeOK, tableVars, infoVars, writeVars, historyVars, Finish, Discard, UpdateStep
  <1>1. CASE Tick \/ SelectExpired \/ DeleteExpired \/ ClearLimits
    BY <1>1 DEF Tick, SelectExpired, DeleteExpired, ClearLimits, Outdated, UpdatesExclude
  <1>2. ASSUME NEW r \in Requests, Arrive(r) \/ Authenticate(r) \/ Respond(r) \/ Logout(r)
        PROVE  UpdatesExclude'
    BY <1>2 DEF Arrive, Authenticate, Respond, Logout, UpdatesExclude
  <1>3. ASSUME NEW r \in Requests, ReadLimit(r) \/ CheckCredentials(r) \/ IncreaseLimit(r)
        PROVE  UpdatesExclude'
    BY <1>3 DEF ReadLimit, CheckCredentials, IncreaseLimit, UpdatesExclude
  <1>4. ASSUME NEW r \in Requests, AddSession(r) \/ DeleteLimit(r)
        PROVE  UpdatesExclude'
    BY <1>4 DEF AddSession, DeleteLimit, UpdatesExclude
  <1>5. ASSUME NEW r \in Requests, CommitRefusal(r) \/ CommitLogin(r)
        PROVE  UpdatesExclude'
    BY <1>5 DEF CommitRefusal, CommitLogin, UpdatesExclude
  <1>6. ASSUME NEW r \in Requests, CheckIssuer(r) \/ UpdateUser(r) \/ DisableUser(r) \/ CutSessions(r)
        PROVE  UpdatesExclude'
    BY <1>6 DEF CheckIssuer, UpdateUser, DisableUser, CutSessions, UserUnlocked, UpdatesExclude
  <1>7. ASSUME NEW r \in Requests, CommitUpdate(r) \/ Fail(r)
        PROVE  UpdatesExclude'
    BY <1>7 DEF CommitUpdate, Fail, UpdatesExclude
  <1> QED
    BY <1>1, <1>2, <1>3, <1>4, <1>5, <1>6, <1>7
       DEF Next, RequestStep, LoginStepOf, UpdateStepOf

\* What an update has read of its user's row stays true until it commits.
LEMMA StepKeptDisabled ==
  ASSUME TypeOK, RequestShape, UpdatesExclude, KeptDisabled, Next
  PROVE  KeptDisabled'
  <1> USE DEF TypeOK, tableVars, infoVars, writeVars, historyVars, Finish, Discard, UpdateStep,
              NoRow
  <1>1. CASE Tick \/ SelectExpired \/ DeleteExpired \/ ClearLimits
    BY <1>1 DEF Tick, SelectExpired, DeleteExpired, ClearLimits, Outdated, KeptDisabled
  <1>2. ASSUME NEW r \in Requests, Arrive(r) \/ Authenticate(r) \/ Respond(r) \/ Logout(r)
        PROVE  KeptDisabled'
    BY <1>2 DEF Arrive, Authenticate, Respond, Logout, KeptDisabled
  <1>3. ASSUME NEW r \in Requests, ReadLimit(r) \/ CheckCredentials(r) \/ IncreaseLimit(r)
        PROVE  KeptDisabled'
    BY <1>3 DEF ReadLimit, CheckCredentials, IncreaseLimit, KeptDisabled
  <1>4. ASSUME NEW r \in Requests, AddSession(r) \/ DeleteLimit(r)
        PROVE  KeptDisabled'
    BY <1>4 DEF AddSession, DeleteLimit, KeptDisabled
  <1>5. ASSUME NEW r \in Requests, CommitRefusal(r) \/ CommitLogin(r)
        PROVE  KeptDisabled'
    BY <1>5 DEF CommitRefusal, CommitLogin, KeptDisabled
  <1>6. ASSUME NEW r \in Requests, CheckIssuer(r) \/ UpdateUser(r) \/ DisableUser(r) \/ CutSessions(r)
        PROVE  KeptDisabled'
    <2>1. CASE CheckIssuer(r) \/ DisableUser(r)
      BY <1>6, <2>1 DEF CheckIssuer, DisableUser, KeptDisabled
    <2>2. CASE UpdateUser(r)
      <3>1. PICK can \in {canLogin[person[r]], TRUE}, lev \in Level :
              newRow' = [newRow EXCEPT ![r] = [canLogin |-> can, level |-> lev, disables |-> FALSE]]
        BY <2>2 DEF UpdateUser
      <3>2. newRow'[r].canLogin = can
        BY <3>1
      <3>3. ~ can => ~ canLogin[person[r]]
        BY ONLY <3>1, Zenon
      <3>4. \A q \in Requests \ {r} : newRow'[q] = newRow[q] /\ pc'[q] = pc[q]
        BY <2>2, <3>1 DEF UpdateUser
      <3>5. person' = person /\ canLogin' = canLogin
        BY <2>2 DEF UpdateUser
      <3> QED
        BY ONLY KeptDisabled, <3>2, <3>3, <3>4, <3>5, Zenon DEF KeptDisabled
    <2>3. CASE CutSessions(r)
      BY <2>3 DEF CutSessions, RequestShape, KeptDisabled
    <2> QED
      BY <1>6, <2>1, <2>2, <2>3
  <1>7. ASSUME NEW r \in Requests, CommitUpdate(r) \/ Fail(r)
        PROVE  KeptDisabled'
    <2>1. CASE CommitUpdate(r)
      <3>1. \A q \in Requests : pc'[q] = "commit_update" =>
               q # r /\ pc[q] = "commit_update" /\ newRow'[q] = newRow[q]
        BY <2>1 DEF CommitUpdate
      <3>2. \A q \in Requests : pc'[q] = "commit_update" => person[q] # person[r]
        BY <2>1, <3>1 DEF CommitUpdate, UpdatesExclude
      <3>3. person[r] \in Users /\ \A q \in Requests : pc'[q] = "commit_update" => person[q] \in Users
        BY <2>1, <3>1 DEF CommitUpdate, RequestShape
      <3>4. \A q \in Requests : pc'[q] = "commit_update" =>
               canLogin'[person[q]] = canLogin[person[q]] /\ person'[q] = person[q]
        BY <2>1, <3>2, <3>3 DEF CommitUpdate
      <3> QED
        BY ONLY KeptDisabled, <3>1, <3>4, Zenon DEF KeptDisabled
    <2>2. CASE Fail(r)
      BY <2>2 DEF Fail, KeptDisabled
    <2> QED
      BY <1>7, <2>1, <2>2
  <1> QED
    BY <1>1, <1>2, <1>3, <1>4, <1>5, <1>6, <1>7
       DEF Next, RequestStep, LoginStepOf, UpdateStepOf

\* A session of a user about to be disabled is deleted, or slipped in.
LEMMA StepCutCovers ==
  ASSUME TypeOK, RequestShape, CutCovers, Next
  PROVE  CutCovers'
  <1> USE DEF TypeOK, tableVars, infoVars, writeVars, historyVars, Finish, Discard, UpdateStep,
              NoRow, Session
  <1>1. CASE Tick \/ SelectExpired \/ DeleteExpired \/ ClearLimits
    BY <1>1 DEF Tick, SelectExpired, DeleteExpired, ClearLimits, Outdated, CutCovers
  <1>2. ASSUME NEW r \in Requests, Arrive(r) \/ Authenticate(r) \/ Respond(r) \/ Logout(r)
        PROVE  CutCovers'
    BY <1>2 DEF Arrive, Authenticate, Respond, Logout, Valid, Anonymous, CutCovers
  <1>3. ASSUME NEW r \in Requests, ReadLimit(r) \/ CheckCredentials(r) \/ IncreaseLimit(r)
        PROVE  CutCovers'
    BY <1>3 DEF ReadLimit, CheckCredentials, IncreaseLimit, CutCovers
  <1>4. ASSUME NEW r \in Requests, AddSession(r) \/ DeleteLimit(r)
        PROVE  CutCovers'
    BY <1>4 DEF AddSession, DeleteLimit, CutCovers
  <1>5. ASSUME NEW r \in Requests, CommitRefusal(r) \/ CommitLogin(r)
        PROVE  CutCovers'
    BY <1>5 DEF CommitRefusal, CommitLogin, BeingDisabled, CutCovers
  <1>6. ASSUME NEW r \in Requests, CheckIssuer(r) \/ UpdateUser(r) \/ DisableUser(r) \/ CutSessions(r)
        PROVE  CutCovers'
    BY <1>6 DEF CheckIssuer, UpdateUser, DisableUser, CutSessions, SessionsCut, CutCovers
  <1>7. ASSUME NEW r \in Requests, CommitUpdate(r) \/ Fail(r)
        PROVE  CutCovers'
    BY <1>7 DEF CommitUpdate, Fail, CutCovers
  <1> QED
    BY <1>1, <1>2, <1>3, <1>4, <1>5, <1>6, <1>7
       DEF Next, RequestStep, LoginStepOf, UpdateStepOf

\* A login under way is of a user who can log in, or has overlapped a change.
LEMMA StepLoginsMayEnter ==
  ASSUME TypeOK, RequestShape, KeptDisabled, LoginsMayEnter, Next
  PROVE  LoginsMayEnter'
  <1> USE DEF TypeOK, tableVars, infoVars, writeVars, historyVars, Finish, Discard, UpdateStep,
              NoRow, UserRow
  <1>1. CASE Tick \/ SelectExpired \/ DeleteExpired \/ ClearLimits
    BY <1>1 DEF Tick, SelectExpired, DeleteExpired, ClearLimits, Outdated, LoginsMayEnter
  <1>2. ASSUME NEW r \in Requests, Arrive(r) \/ Authenticate(r) \/ Respond(r) \/ Logout(r)
        PROVE  LoginsMayEnter'
    BY <1>2 DEF Arrive, Authenticate, Respond, Logout, LoginsMayEnter
  <1>3. ASSUME NEW r \in Requests, ReadLimit(r) \/ CheckCredentials(r) \/ IncreaseLimit(r)
        PROVE  LoginsMayEnter'
    BY <1>3 DEF ReadLimit, CheckCredentials, IncreaseLimit, LoginsMayEnter
  <1>4. ASSUME NEW r \in Requests, AddSession(r) \/ DeleteLimit(r)
        PROVE  LoginsMayEnter'
    BY <1>4 DEF AddSession, DeleteLimit, LoginsMayEnter
  <1>5. ASSUME NEW r \in Requests, CommitRefusal(r) \/ CommitLogin(r)
        PROVE  LoginsMayEnter'
    BY <1>5 DEF CommitRefusal, CommitLogin, LoginsMayEnter
  <1>6. ASSUME NEW r \in Requests, CheckIssuer(r) \/ UpdateUser(r) \/ DisableUser(r) \/ CutSessions(r)
        PROVE  LoginsMayEnter'
    BY <1>6 DEF CheckIssuer, UpdateUser, DisableUser, CutSessions, LoginsMayEnter
  <1>7. ASSUME NEW r \in Requests, CommitUpdate(r) \/ Fail(r)
        PROVE  LoginsMayEnter'
    <2>1. CASE CommitUpdate(r)
      <3> SUFFICES ASSUME NEW q \in Requests, pc'[q] \in {"found", "session", "commit_200"},
                          ~ canLogin'[person'[q]]
                   PROVE  q \in slipping'
        BY DEF LoginsMayEnter
      <3>1. /\ pc[q] \in {"found", "session", "commit_200"}
            /\ person'[q] = person[q] /\ slipping \subseteq slipping'
        BY <2>1 DEF CommitUpdate
      <3>2. CASE person[q] = person[r]
        <4>1. ~ newRow[r].canLogin
          BY <2>1, <3>1, <3>2 DEF CommitUpdate, RequestShape
        <4>2. CASE newRow[r].disables
          BY <2>1, <3>1, <3>2, <4>2 DEF CommitUpdate, LoggingIn
        <4>3. CASE ~ newRow[r].disables
          <5>1. ~ canLogin[person[q]]
            BY <2>1, <3>2, <4>1, <4>3 DEF CommitUpdate, KeptDisabled
          <5> QED
            BY ONLY LoginsMayEnter, <3>1, <5>1, Zenon DEF LoginsMayEnter
        <4> QED
          BY ONLY <4>2, <4>3, Zenon
      <3>3. CASE person[q] # person[r]
        <4>1. canLogin'[person[q]] = canLogin[person[q]]
          BY <2>1, <3>1, <3>3 DEF CommitUpdate, RequestShape
        <4>2. ~ canLogin[person[q]]
          BY <3>1, <4>1
        <4> QED
          BY ONLY LoginsMayEnter, <3>1, <4>2, Zenon DEF LoginsMayEnter
      <3> QED
        BY ONLY <3>2, <3>3, Zenon
    <2>2. CASE Fail(r)
      BY <2>2 DEF Fail, LoginsMayEnter
    <2> QED
      BY <1>7, <2>1, <2>2
  <1> QED
    BY <1>1, <1>2, <1>3, <1>4, <1>5, <1>6, <1>7
       DEF Next, RequestStep, LoginStepOf, UpdateStepOf

\* What an attempt has read of the limit had ended.
LEMMA StepSeenIsOver ==
  ASSUME TypeOK, RequestShape, SeenIsOver, Next
  PROVE  SeenIsOver'
  <1> USE DEF TypeOK, tableVars, infoVars, writeVars, historyVars, Finish, Discard, UpdateStep,
              Attempting, LoginStep, Limit
  <1>1. CASE Tick \/ SelectExpired \/ DeleteExpired \/ ClearLimits
    BY <1>1 DEF Tick, SelectExpired, DeleteExpired, ClearLimits, SeenIsOver
  <1>2. ASSUME NEW r \in Requests, Arrive(r) \/ Authenticate(r) \/ Respond(r) \/ Logout(r)
        PROVE  SeenIsOver'
    BY <1>2 DEF Arrive, Authenticate, Respond, Logout, SeenIsOver
  <1>3. ASSUME NEW r \in Requests, ReadLimit(r) \/ CheckCredentials(r) \/ IncreaseLimit(r)
        PROVE  SeenIsOver'
    BY <1>3 DEF ReadLimit, CheckCredentials, IncreaseLimit, Limited, SeenIsOver
  <1>4. ASSUME NEW r \in Requests, AddSession(r) \/ DeleteLimit(r)
        PROVE  SeenIsOver'
    BY <1>4 DEF AddSession, DeleteLimit, SeenIsOver
  <1>5. ASSUME NEW r \in Requests, CommitRefusal(r) \/ CommitLogin(r)
        PROVE  SeenIsOver'
    BY <1>5 DEF CommitRefusal, CommitLogin, SeenIsOver
  <1>6. ASSUME NEW r \in Requests, CheckIssuer(r) \/ UpdateUser(r) \/ DisableUser(r) \/ CutSessions(r)
        PROVE  SeenIsOver'
    BY <1>6 DEF CheckIssuer, UpdateUser, DisableUser, CutSessions, SeenIsOver
  <1>7. ASSUME NEW r \in Requests, CommitUpdate(r) \/ Fail(r)
        PROVE  SeenIsOver'
    BY <1>7 DEF CommitUpdate, Fail, SeenIsOver
  <1> QED
    BY <1>1, <1>2, <1>3, <1>4, <1>5, <1>6, <1>7
       DEF Next, RequestStep, LoginStepOf, UpdateStepOf

\* No other attempt, nor the job, has written the limit an attempt has read.
LEMMA StepAttemptsAreAlone ==
  ASSUME TypeOK, RequestShape, AttemptsAreAlone, Next
  PROVE  AttemptsAreAlone'
  <1> USE DEF TypeOK, tableVars, infoVars, writeVars, historyVars, Finish, Discard, UpdateStep,
              Attempting, LoginStep, SameSender
  <1>1. CASE Tick \/ SelectExpired \/ DeleteExpired \/ ClearLimits
    BY <1>1 DEF Tick, SelectExpired, DeleteExpired, ClearLimits, Outdated, AttemptsAreAlone
  <1>2. ASSUME NEW r \in Requests, Arrive(r) \/ Authenticate(r) \/ Respond(r) \/ Logout(r)
        PROVE  AttemptsAreAlone'
    BY <1>2 DEF Arrive, Authenticate, Respond, Logout, AttemptsAreAlone
  <1>3. ASSUME NEW r \in Requests, ReadLimit(r) \/ CheckCredentials(r) \/ IncreaseLimit(r)
        PROVE  AttemptsAreAlone'
    BY <1>3 DEF ReadLimit, CheckCredentials, IncreaseLimit, Limited, Overlapped, AttemptsAreAlone
  <1>4. ASSUME NEW r \in Requests, AddSession(r) \/ DeleteLimit(r)
        PROVE  AttemptsAreAlone'
    BY <1>4 DEF AddSession, DeleteLimit, AttemptsAreAlone
  <1>5. ASSUME NEW r \in Requests, CommitRefusal(r) \/ CommitLogin(r)
        PROVE  AttemptsAreAlone'
    BY <1>5 DEF CommitRefusal, CommitLogin, LimitsAfter, AttemptsAreAlone
  <1>6. ASSUME NEW r \in Requests, CheckIssuer(r) \/ UpdateUser(r) \/ DisableUser(r) \/ CutSessions(r)
        PROVE  AttemptsAreAlone'
    BY <1>6 DEF CheckIssuer, UpdateUser, DisableUser, CutSessions, AttemptsAreAlone
  <1>7. ASSUME NEW r \in Requests, CommitUpdate(r) \/ Fail(r)
        PROVE  AttemptsAreAlone'
    BY <1>7 DEF CommitUpdate, Fail, AttemptsAreAlone
  <1> QED
    BY <1>1, <1>2, <1>3, <1>4, <1>5, <1>6, <1>7
       DEF Next, RequestStep, LoginStepOf, UpdateStepOf

\* The limits after the commit of a refusal and of a login.
LEMMA CommittedLimits ==
  ASSUME TypeOK, RequestShape, NEW r \in Requests
  PROVE  /\ CommitRefusal(r) => limits' = [limits EXCEPT ![sender[r]] = NewLimit(r)]
         /\ CommitLogin(r) => \/ limitOp[r] = "none" /\ limits' = limits
                             \/ limits' = [limits EXCEPT ![sender[r]] = NoLimit]
         /\ sender[r] \in Senders
  BY DEF TypeOK, RequestShape, CommitRefusal, CommitLogin, LimitsAfter

\* The limit a refusal writes ends one longest delay after its request at most.
LEMMA NewLimitEnds ==
  ASSUME TypeOK, RequestShape, NEW r \in Requests
  PROVE  /\ NewLimit(r).until \in Int /\ NewLimit(r).until <= clock + LongestDelay
         /\ NewLimit(r).until = reqTime[r] + Timeout(SeenCount(r))
         /\ NewLimit(r).count = SeenCount(r) + 1
  <1>1. SeenCount(r) \in Nat
    BY NewLimitType
  <1>2. Timeout(SeenCount(r)) \in Int /\ Timeout(SeenCount(r)) <= LongestDelay
    BY <1>1, TimeoutBounds
  <1>3. reqTime[r] \in Nat /\ clock \in Nat /\ reqTime[r] <= clock
    BY DEF TypeOK, RequestShape
  <1> QED
    BY <1>2, <1>3, TimesAreNaturals DEF NewLimit

\* Expirations are reckoned from the time of a request that has arrived.
LEMMA StepTimesLapse ==
  ASSUME TypeOK, RequestShape, TimesLapse, Next
  PROVE  TimesLapse'
  <1> DEFINE SessionsLapse ==
               \A k \in Tokens : sessions[k] # NoSession => sessions[k].exp <= clock + Lifetime
             LimitsLapse ==
               \A s \in Senders : limits[s] # NoLimit => limits[s].until <= clock + LongestDelay
  <1>1. SessionsLapse /\ LimitsLapse
    BY DEF TimesLapse
  <1>2. clock \in Nat /\ Lifetime \in Nat /\ LongestDelay \in Nat
    BY TimesAreNaturals DEF TypeOK
  <1>3. ASSUME UNCHANGED <<sessions, limits>>, clock' \in Nat, clock' >= clock  PROVE TimesLapse'
    <2>1. \A k \in Tokens : sessions[k] # NoSession => sessions[k].exp \in Int
      BY DEF TypeOK, Session
    <2>2. \A s \in Senders : limits[s] # NoLimit => limits[s].until \in Int
      BY DEF TypeOK, Limit
    <2> QED
      BY <1>1, <1>2, <1>3, <2>1, <2>2 DEF TimesLapse
  <1>4. ASSUME NEW gone \in SUBSET Tokens, UNCHANGED <<limits, clock>>,
               sessions' = [k \in Tokens |-> IF k \in gone THEN NoSession ELSE sessions[k]]
        PROVE  TimesLapse'
    BY <1>1, <1>4 DEF TimesLapse
  <1>5. CASE Tick
    BY <1>2, <1>3, <1>5 DEF Tick, tableVars
  <1>6. CASE SelectExpired
    BY <1>2, <1>3, <1>6 DEF SelectExpired, tableVars
  <1>7. CASE DeleteExpired
    BY <1>4, <1>7 DEF DeleteExpired, TypeOK
  <1>8. CASE ClearLimits
    BY <1>1, <1>8 DEF ClearLimits, Outdated, TimesLapse
  <1>9. ASSUME NEW r \in Requests, Arrive(r) \/ Respond(r) PROVE TimesLapse'
    BY <1>2, <1>3, <1>9 DEF Arrive, Respond, tableVars
  <1>10. ASSUME NEW r \in Requests, Authenticate(r) PROVE TimesLapse'
    <2>1. /\ UNCHANGED <<limits, clock>>
          /\ \/ sessions' = sessions
             \/ Valid(r) /\ sessions' = [sessions EXCEPT ![token[r]].exp = Prolonged(r)]
      BY <1>10 DEF Authenticate
    <2>2. Prolonged(r) <= clock + Lifetime
      BY <1>2 DEF Prolonged, TypeOK, RequestShape
    <2>3. SessionsLapse'
      <3>1. CASE sessions' = sessions
        BY <1>1, <2>1, <3>1
      <3>2. CASE Valid(r) /\ sessions' = [sessions EXCEPT ![token[r]].exp = Prolonged(r)]
        <4>1. token[r] \in Tokens /\ sessions[token[r]] \in Session
          BY <3>2 DEF Valid, Anonymous, TypeOK
        <4>2. sessions'[token[r]].exp = Prolonged(r)
          BY <3>2, <4>1 DEF Session, TypeOK
        <4>3. \A k \in Tokens \ {token[r]} : sessions'[k] = sessions[k]
          BY <3>2 DEF TypeOK
        <4> QED
          BY <1>1, <2>1, <2>2, <4>2, <4>3
      <3> QED
        BY <2>1, <3>1, <3>2
    <2> QED
      BY <1>1, <2>1, <2>3 DEF TimesLapse
  <1>11. ASSUME NEW r \in Requests, Logout(r) PROVE TimesLapse'
    BY <1>1, <1>11 DEF Logout, TimesLapse, TypeOK
  <1>12. ASSUME NEW r \in Requests, ReadLimit(r) \/ CheckCredentials(r) \/ IncreaseLimit(r)
        PROVE  TimesLapse'
    BY <1>2, <1>3, <1>12 DEF ReadLimit, CheckCredentials, IncreaseLimit, tableVars
  <1>13. ASSUME NEW r \in Requests, AddSession(r) \/ DeleteLimit(r)
        PROVE  TimesLapse'
    BY <1>2, <1>3, <1>13 DEF AddSession, DeleteLimit, tableVars
  <1>14. ASSUME NEW r \in Requests, CommitRefusal(r) PROVE TimesLapse'
    <2>1. UNCHANGED <<sessions, clock>>
      BY <1>14 DEF CommitRefusal
    <2>2. LimitsLapse'
      BY <1>1, <1>14, <2>1, CommittedLimits, NewLimitEnds DEF TypeOK
    <2> QED
      BY <1>1, <2>1, <2>2 DEF TimesLapse
  <1>15. ASSUME NEW r \in Requests, CommitLogin(r) PROVE TimesLapse'
    <2> DEFINE new == [user |-> person[r], exp |-> reqTime[r] + Lifetime]
    <2>1. UNCHANGED clock /\ sessions' = [sessions EXCEPT ![newToken[r]] = new]
      BY <1>15 DEF CommitLogin
    <2>2. new.exp <= clock + Lifetime
      BY <1>2 DEF TypeOK, RequestShape
    <2>3. SessionsLapse'
      BY <1>1, <2>1, <2>2 DEF TypeOK
    <2>4. LimitsLapse'
      BY <1>1, <1>15, <2>1, CommittedLimits DEF TypeOK
    <2> QED
      BY <2>3, <2>4 DEF TimesLapse
  <1>16. ASSUME NEW r \in Requests, CheckIssuer(r) \/ UpdateUser(r) \/ DisableUser(r) \/ CutSessions(r)
        PROVE  TimesLapse'
    BY <1>2, <1>3, <1>16 DEF CheckIssuer, UpdateUser, DisableUser, CutSessions, tableVars
  <1>17. ASSUME NEW r \in Requests, CommitUpdate(r) PROVE TimesLapse'
    <2>1. UNCHANGED <<limits, clock>>
          /\ sessions' = [k \in Tokens |-> IF k \in cut[r] THEN NoSession ELSE sessions[k]]
      BY <1>17 DEF CommitUpdate
    <2>2. cut[r] \in SUBSET Tokens
      BY DEF TypeOK
    <2> QED
      BY <1>4, <2>1, <2>2
  <1>18. ASSUME NEW r \in Requests, Fail(r) PROVE TimesLapse'
    BY <1>2, <1>3, <1>18 DEF Fail, tableVars
  <1> QED
    BY <1>5, <1>6, <1>7, <1>8, <1>9, <1>10, <1>11, <1>12, <1>13, <1>14, <1>15, <1>16, <1>17, <1>18
       DEF Next, RequestStep, LoginStepOf, UpdateStepOf

\* A refusal commits the limit it has written.
LEMMA StepRefusalsLeaveALimit ==
  ASSUME TypeOK, RequestShape, RefusalsLeaveALimit, Next
  PROVE  RefusalsLeaveALimit'
  <1> USE DEF TypeOK, tableVars, infoVars, writeVars, historyVars, Finish, Discard
  <1>1. CASE Tick \/ SelectExpired \/ DeleteExpired \/ ClearLimits
    BY <1>1 DEF Tick, SelectExpired, DeleteExpired, ClearLimits, Outdated, RefusalsLeaveALimit
  <1>2. ASSUME NEW r \in Requests, Arrive(r) \/ Authenticate(r) \/ Respond(r) \/ Logout(r)
        PROVE  RefusalsLeaveALimit'
    BY <1>2 DEF Arrive, Authenticate, Respond, Logout, RefusalsLeaveALimit
  <1>3. ASSUME NEW r \in Requests, ReadLimit(r) \/ CheckCredentials(r) \/ IncreaseLimit(r)
        PROVE  RefusalsLeaveALimit'
    BY <1>3 DEF ReadLimit, CheckCredentials, IncreaseLimit, RefusalsLeaveALimit
  <1>4. ASSUME NEW r \in Requests, AddSession(r) \/ DeleteLimit(r)
        PROVE  RefusalsLeaveALimit'
    BY <1>4 DEF AddSession, DeleteLimit, RefusalsLeaveALimit
  <1>5. ASSUME NEW r \in Requests, CommitRefusal(r) \/ CommitLogin(r)
        PROVE  RefusalsLeaveALimit'
    <2>1. CASE CommitRefusal(r)
      <3>1. /\ sender[r] \in Senders /\ limits \in [Senders -> Limit \cup {NoLimit}]
            /\ limits' = [limits EXCEPT ![sender[r]] = NewLimit(r)] /\ NewLimit(r) # NoLimit
            /\ failures' = [failures EXCEPT ![sender[r]] = @ + 1] /\ failures \in [Senders -> Nat]
        BY <2>1, CommittedLimits, NewLimitType DEF CommitRefusal
      <3> QED
        BY ONLY RefusalsLeaveALimit, <3>1 DEF RefusalsLeaveALimit
    <2>2. CASE CommitLogin(r)
      <3>1. /\ sender[r] \in Senders /\ limits \in [Senders -> Limit \cup {NoLimit}]
            /\ limits' = limits \/ limits' = [limits EXCEPT ![sender[r]] = NoLimit]
            /\ failures' = [failures EXCEPT ![sender[r]] = 0] /\ failures \in [Senders -> Nat]
        BY <2>2, CommittedLimits DEF CommitLogin
      <3> QED
        BY ONLY RefusalsLeaveALimit, <3>1 DEF RefusalsLeaveALimit
    <2> QED
      BY <1>5, <2>1, <2>2
  <1>6. ASSUME NEW r \in Requests, CheckIssuer(r) \/ UpdateUser(r) \/ DisableUser(r) \/ CutSessions(r)
        PROVE  RefusalsLeaveALimit'
    BY <1>6 DEF CheckIssuer, UpdateUser, DisableUser, CutSessions, RefusalsLeaveALimit
  <1>7. ASSUME NEW r \in Requests, CommitUpdate(r) \/ Fail(r)
        PROVE  RefusalsLeaveALimit'
    BY <1>7 DEF CommitUpdate, Fail, RefusalsLeaveALimit
  <1> QED
    BY <1>1, <1>2, <1>3, <1>4, <1>5, <1>6, <1>7
       DEF Next, RequestStep, LoginStepOf, UpdateStepOf

\* An attempt alone writes one more than it has read.
LEMMA StepFailuresAreCounted ==
  ASSUME TypeOK, RequestShape, AttemptsAreAlone, FailuresAreCounted, Next
  PROVE  FailuresAreCounted'
  <1> USE DEF TypeOK, tableVars, infoVars, writeVars, historyVars, Finish, Discard, Limit
  <1>1. CASE Tick \/ SelectExpired \/ DeleteExpired \/ ClearLimits
    BY <1>1 DEF Tick, SelectExpired, DeleteExpired, ClearLimits, Outdated, FailuresAreCounted
  <1>2. ASSUME NEW r \in Requests, Arrive(r) \/ Authenticate(r) \/ Respond(r) \/ Logout(r)
        PROVE  FailuresAreCounted'
    BY <1>2 DEF Arrive, Authenticate, Respond, Logout, FailuresAreCounted
  <1>3. ASSUME NEW r \in Requests, ReadLimit(r) \/ CheckCredentials(r) \/ IncreaseLimit(r)
        PROVE  FailuresAreCounted'
    BY <1>3 DEF ReadLimit, CheckCredentials, IncreaseLimit, FailuresAreCounted
  <1>4. ASSUME NEW r \in Requests, AddSession(r) \/ DeleteLimit(r)
        PROVE  FailuresAreCounted'
    BY <1>4 DEF AddSession, DeleteLimit, FailuresAreCounted
  <1>5. ASSUME NEW r \in Requests, CommitRefusal(r) \/ CommitLogin(r)
        PROVE  FailuresAreCounted'
    <2>1. CASE CommitRefusal(r)
      <3>1. sender[r] \notin raced => seen[r] = limits[sender[r]]
        BY <2>1 DEF CommitRefusal, AttemptsAreAlone, Attempting, LoginStep
      <3>2. NewLimit(r).count = SeenCount(r) + 1 /\ NewLimit(r) # NoLimit
        BY NewLimitEnds, NewLimitType
      <3>3. sender[r] \notin raced => failures[sender[r]] = SeenCount(r)
        BY <3>1, CommittedLimits DEF SeenCount, FailuresAreCounted
      <3>4. /\ sender[r] \in Senders /\ limits \in [Senders -> Limit \cup {NoLimit}]
            /\ limits' = [limits EXCEPT ![sender[r]] = NewLimit(r)] /\ raced' = raced
            /\ failures' = [failures EXCEPT ![sender[r]] = @ + 1] /\ failures \in [Senders -> Nat]
        BY <2>1, CommittedLimits DEF CommitRefusal
      <3> QED
        BY ONLY FailuresAreCounted, <3>2, <3>3, <3>4 DEF FailuresAreCounted
    <2>2. CASE CommitLogin(r)
      <3>1. sender[r] \notin raced /\ limitOp[r] = "none" => limits[sender[r]] = NoLimit
        BY <2>2 DEF CommitLogin, AttemptsAreAlone, Attempting, LoginStep
      <3>2. /\ sender[r] \in Senders /\ limits \in [Senders -> Limit \cup {NoLimit}]
            /\ \/ limitOp[r] = "none" /\ limits' = limits
               \/ limits' = [limits EXCEPT ![sender[r]] = NoLimit]
            /\ failures' = [failures EXCEPT ![sender[r]] = 0] /\ failures \in [Senders -> Nat]
            /\ raced' = raced
        BY <2>2, CommittedLimits DEF CommitLogin
      <3> QED
        BY ONLY FailuresAreCounted, <3>1, <3>2 DEF FailuresAreCounted
    <2> QED
      BY <1>5, <2>1, <2>2
  <1>6. ASSUME NEW r \in Requests, CheckIssuer(r) \/ UpdateUser(r) \/ DisableUser(r) \/ CutSessions(r)
        PROVE  FailuresAreCounted'
    BY <1>6 DEF CheckIssuer, UpdateUser, DisableUser, CutSessions, FailuresAreCounted
  <1>7. ASSUME NEW r \in Requests, CommitUpdate(r) \/ Fail(r)
        PROVE  FailuresAreCounted'
    BY <1>7 DEF CommitUpdate, Fail, FailuresAreCounted
  <1> QED
    BY <1>1, <1>2, <1>3, <1>4, <1>5, <1>6, <1>7
       DEF Next, RequestStep, LoginStepOf, UpdateStepOf

\* A disabled user keeps no session but those that slipped in.
LEMMA StepDisabledSessionsSlipped ==
  ASSUME TypeOK, RequestShape, CutCovers, KeptDisabled, LoginsMayEnter, UpdatesExclude,
         DisabledSessionsSlipped, Next
  PROVE  DisabledSessionsSlipped'
  <1> USE DEF TypeOK, tableVars, infoVars, writeVars, historyVars, Finish, Discard, UpdateStep,
              Session
  <1>1. CASE Tick \/ SelectExpired \/ DeleteExpired \/ ClearLimits
    BY <1>1 DEF Tick, SelectExpired, DeleteExpired, ClearLimits, DisabledSessionsSlipped
  <1>2. ASSUME NEW r \in Requests, Arrive(r) \/ Authenticate(r) \/ Respond(r) \/ Logout(r)
        PROVE  DisabledSessionsSlipped'
    BY <1>2 DEF Arrive, Authenticate, Respond, Logout, Valid, Anonymous, DisabledSessionsSlipped
  <1>3. ASSUME NEW r \in Requests, ReadLimit(r) \/ CheckCredentials(r) \/ IncreaseLimit(r)
        PROVE  DisabledSessionsSlipped'
    BY <1>3 DEF ReadLimit, CheckCredentials, IncreaseLimit, DisabledSessionsSlipped
  <1>4. ASSUME NEW r \in Requests, AddSession(r) \/ DeleteLimit(r)
        PROVE  DisabledSessionsSlipped'
    BY <1>4 DEF AddSession, DeleteLimit, DisabledSessionsSlipped
  <1>5. ASSUME NEW r \in Requests, CommitRefusal(r) \/ CommitLogin(r)
        PROVE  DisabledSessionsSlipped'
    BY <1>5 DEF CommitRefusal, CommitLogin, LoginsMayEnter, DisabledSessionsSlipped
  <1>6. ASSUME NEW r \in Requests, CheckIssuer(r) \/ UpdateUser(r) \/ DisableUser(r) \/ CutSessions(r)
        PROVE  DisabledSessionsSlipped'
    BY <1>6 DEF CheckIssuer, UpdateUser, DisableUser, CutSessions, DisabledSessionsSlipped
  <1>7. ASSUME NEW r \in Requests, CommitUpdate(r) \/ Fail(r)
        PROVE  DisabledSessionsSlipped'
    BY <1>7 DEF CommitUpdate, Fail, CutCovers, KeptDisabled, DisabledSessionsSlipped
  <1> QED
    BY <1>1, <1>2, <1>3, <1>4, <1>5, <1>6, <1>7
       DEF Next, RequestStep, LoginStepOf, UpdateStepOf

-----------------------------------------------------------------------------
(* The inductive invariant *)

\* It holds at the start, when nobody is disabled and no request runs.
LEMMA InitIInv == Init => IInv
  <1> SUFFICES ASSUME Init PROVE IInv
    OBVIOUS
  <1>1. TypeOK
    BY InitTypeOK
  <1>2. RequestShape /\ UpdatesExclude /\ KeptDisabled /\ CutCovers /\ LoginsMayEnter
    BY TimesAreNaturals
       DEF Init, UpdateStep, NoRow, RequestShape, UpdatesExclude, KeptDisabled, CutCovers,
           LoginsMayEnter
  <1>3. SeenIsOver /\ AttemptsAreAlone
    BY DEF Init, Attempting, LoginStep, SeenIsOver, AttemptsAreAlone
  <1>4. TimesLapse
    BY TimesAreNaturals DEF Init, TimesLapse
  <1>5. RefusalsLeaveALimit /\ FailuresAreCounted
    BY DEF Init, RefusalsLeaveALimit, FailuresAreCounted
  <1>6. DisabledSessionsSlipped
    BY SessionsOfUsers DEF Init, DisabledSessionsSlipped
  <1> QED
    BY <1>1, <1>2, <1>3, <1>4, <1>5, <1>6 DEF IInv

\* Every step preserves the types.
LEMMA NextTypeOK ==
  ASSUME TypeOK, RequestShape, Next
  PROVE  TypeOK'
  BY MiddlewareTypeOK, LoginTypeOK, UpdateTypeOK, JobTypeOK DEF Next, RequestStep

\* Every step preserves the invariant.
LEMMA NextIInv == IInv /\ Next => IInv'
  BY NextTypeOK, StepRequestShape, StepUpdatesExclude, StepKeptDisabled, StepCutCovers,
     StepLoginsMayEnter, StepSeenIsOver, StepAttemptsAreAlone, StepTimesLapse,
     StepRefusalsLeaveALimit, StepFailuresAreCounted, StepDisabledSessionsSlipped
     DEF IInv

\* A step that changes nothing does, too.
LEMMA StutterIInv == IInv /\ UNCHANGED vars => IInv'
  <1> SUFFICES ASSUME IInv, UNCHANGED vars PROVE IInv'
    OBVIOUS
  <1> USE DEF vars, tableVars, infoVars, writeVars, historyVars
  <1>1. TypeOK'
    BY DEF IInv, TypeOK
  <1>2. (RequestShape /\ UpdatesExclude /\ KeptDisabled /\ CutCovers /\ LoginsMayEnter)'
    BY DEF IInv, RequestShape, UpdatesExclude, KeptDisabled, CutCovers, LoginsMayEnter
  <1>3. (SeenIsOver /\ AttemptsAreAlone /\ TimesLapse)'
    BY DEF IInv, Attempting, SeenIsOver, AttemptsAreAlone, TimesLapse
  <1>4. (RefusalsLeaveALimit /\ FailuresAreCounted /\ DisabledSessionsSlipped)'
    BY DEF IInv, RefusalsLeaveALimit, FailuresAreCounted, DisabledSessionsSlipped
  <1> QED
    BY <1>1, <1>2, <1>3, <1>4 DEF IInv

\* The invariant of every behaviour of users, sessions and limits.
THEOREM InductiveInvariant == Spec => []IInv
  <1>1. Init => IInv
    BY InitIInv
  <1>2. IInv /\ [Next]_vars => IInv'
    BY NextIInv, StutterIInv
  <1> QED
    BY <1>1, <1>2, PTL DEF Spec

-----------------------------------------------------------------------------
(* What follows from it *)

\* Every variable keeps its type.
THEOREM TypeCorrect == Spec => []TypeOK
  <1>1. IInv => TypeOK
    BY DEF IInv
  <1> QED
    BY <1>1, InductiveInvariant, PTL

\* No session outlives its last use by more than its lifetime, and no delay the
\* last attempt by more than the longest one.
THEOREM TimesDoLapse == Spec => []TimesLapse
  <1>1. IInv => TimesLapse
    BY DEF IInv
  <1> QED
    BY <1>1, InductiveInvariant, PTL

\* A refused login leaves a limit, though its request fails, and attempts that
\* do not overlap are all counted in it.
THEOREM RefusalsAreKept == Spec => [](RefusalsLeaveALimit /\ FailuresAreCounted)
  <1>1. IInv => RefusalsLeaveALimit /\ FailuresAreCounted
    BY DEF IInv
  <1> QED
    BY <1>1, InductiveInvariant, PTL

\* A refused login leaves a limit, though its request fails: the transaction that writes it
\* is committed.  (connection_middleware, CredentialsNotFound.)
THEOREM RefusalsLeaveLimits == Spec => []RefusalsLeaveALimit
  <1>1. IInv => RefusalsLeaveALimit
    BY DEF IInv
  <1> QED
    BY <1>1, InductiveInvariant, PTL

\* A session of a disabled user is one of a login that overlapped the change.
THEOREM DisabledUsersKeepOut == Spec => []DisabledSessionsSlipped
  <1>1. IInv => DisabledSessionsSlipped
    BY DEF IInv
  <1> QED
    BY <1>1, InductiveInvariant, PTL

-----------------------------------------------------------------------------
(* Action properties *)

\* A refusal that overlapped no other attempt never ends a delay earlier.
LEMMA RefusalDelays ==
  ASSUME IInv, NEW r \in Requests, CommitRefusal(r), sender[r] \notin raced,
         limits[sender[r]] # NoLimit, limits[sender[r]].count >= FreeAttempts
  PROVE  NewLimit(r).until >= limits[sender[r]].until
  <1>1. TypeOK /\ RequestShape
    BY DEF IInv
  <1>2. Attempting(r)
    BY DEF CommitRefusal, Attempting, LoginStep
  <1>3. seen[r] = limits[sender[r]]
    BY <1>2 DEF IInv, AttemptsAreAlone
  <1>4. seen[r].until <= reqTime[r]
    BY <1>2, <1>3 DEF IInv, SeenIsOver
  <1>5. SeenCount(r) = limits[sender[r]].count
    BY <1>3 DEF SeenCount
  <1>6. Timeout(SeenCount(r)) \in Int /\ Timeout(SeenCount(r)) >= 0
    BY <1>1, <1>5, NewLimitType, TimeoutBounds, TimeoutGrows
  <1>7. limits[sender[r]].until \in Int /\ reqTime[r] \in Nat
    BY <1>1 DEF TypeOK, Limit
  <1> QED
    BY <1>1, <1>3, <1>4, <1>6, <1>7, NewLimitEnds

\* Only an attempt, a login or the job change a limit.
LEMMA LimitChanges ==
  ASSUME IInv, Next, limits' # limits
  PROVE  \/ ClearLimits
         \/ \E r \in Requests : CommitLogin(r) \/ CommitRefusal(r)
  <1> USE DEF tableVars, infoVars, writeVars, historyVars
  <1>1. ~ (Tick \/ SelectExpired \/ DeleteExpired)
    BY DEF Tick, SelectExpired, DeleteExpired
  <1>2. \A r \in Requests : ~ (Arrive(r) \/ Authenticate(r) \/ Respond(r) \/ Logout(r) \/ Fail(r))
    BY DEF Arrive, Authenticate, Respond, Logout, Fail
  <1>3. \A r \in Requests :
           ~ (ReadLimit(r) \/ CheckCredentials(r) \/ IncreaseLimit(r) \/ AddSession(r) \/ DeleteLimit(r))
    BY DEF ReadLimit, CheckCredentials, IncreaseLimit, AddSession, DeleteLimit
  <1>4. \A r \in Requests : ~ UpdateStepOf(r)
    BY DEF UpdateStepOf, CheckIssuer, UpdateUser, DisableUser, CutSessions, CommitUpdate
  <1> QED
    BY <1>1, <1>2, <1>3, <1>4 DEF Next, RequestStep, LoginStepOf

\* Once attempts of a sender are delayed, no attempt ends a delay earlier,
\* unless attempts overlap.
THEOREM DelaysGrow == Spec => DelaysOnlyGrow
  <1> DEFINE Grows ==
        \A s \in Senders \ raced' :
          limits[s] # NoLimit /\ limits'[s] # NoLimit /\ limits[s].count >= FreeAttempts
              => limits'[s].until >= limits[s].until
  <1>1. ASSUME IInv, limits' = limits PROVE Grows
    <2>1. \A s \in Senders : limits[s] # NoLimit => limits[s].until \in Int
      BY <1>1 DEF IInv, TypeOK, Limit
    <2> QED
      BY <1>1, <2>1
  <1>2. ASSUME IInv, ClearLimits PROVE Grows
    <2>1. \A s \in Senders : limits[s] # NoLimit => limits[s].until \in Int
      BY <1>2 DEF IInv, TypeOK, Limit
    <2> QED
      BY <1>2, <2>1 DEF ClearLimits
  <1>3. ASSUME IInv, NEW r \in Requests, CommitLogin(r) PROVE Grows
    <2>1. \/ limits' = limits
          \/ limits' = [limits EXCEPT ![sender[r]] = NoLimit] /\ sender[r] \in Senders
      BY <1>3, CommittedLimits DEF IInv
    <2>2. \A s \in Senders : limits[s] # NoLimit => limits[s].until \in Int
      BY <1>3 DEF IInv, TypeOK, Limit
    <2>3. limits \in [Senders -> Limit \cup {NoLimit}]
      BY <1>3 DEF IInv, TypeOK
    <2> QED
      BY ONLY <2>1, <2>2, <2>3
  <1>4. ASSUME IInv, NEW r \in Requests, CommitRefusal(r) PROVE Grows
    <2>1. limits' = [limits EXCEPT ![sender[r]] = NewLimit(r)] /\ sender[r] \in Senders
      BY <1>4, CommittedLimits DEF IInv
    <2>2. \A s \in Senders : limits[s] # NoLimit => limits[s].until \in Int
      BY <1>4 DEF IInv, TypeOK, Limit
    <2>3. limits \in [Senders -> Limit \cup {NoLimit}]
      BY <1>4 DEF IInv, TypeOK
    <2>4. raced' = raced
      BY <1>4 DEF CommitRefusal
    <2>5. sender[r] \notin raced /\ limits[sender[r]] # NoLimit /\ limits[sender[r]].count >= FreeAttempts
             => NewLimit(r).until >= limits[sender[r]].until
      BY <1>4, RefusalDelays
    <2> QED
      BY ONLY <2>1, <2>2, <2>3, <2>4, <2>5
  <1>5. IInv /\ [Next]_vars => [Grows]_vars
    BY <1>1, <1>2, <1>3, <1>4, LimitChanges
  <1> QED
    BY <1>5, InductiveInvariant, PTL DEF Spec, DelaysOnlyGrow

\* A token that has lost its session never gets one again.
THEOREM TokensStayDead == Spec => DeadTokensStayDead
  <1> DEFINE Stays == \A k \in Tokens : Dead(k) => Dead(k)'
  <1> USE DEF tableVars, infoVars, writeVars, historyVars
  <1>1. ASSUME UNCHANGED <<sessions, issued, newToken>> PROVE Stays
    BY <1>1 DEF Dead, Known
  <1>2. ASSUME NEW gone \in SUBSET Tokens, UNCHANGED issued, NEW r \in Requests, TypeOK,
               newToken' = newToken \/ newToken' = [newToken EXCEPT ![r] = NoToken],
               sessions' = [k \in Tokens |-> IF k \in gone THEN NoSession ELSE sessions[k]]
        PROVE  Stays
    BY <1>2, NothingIsNot DEF Dead, Known, TypeOK
  <1>3. ASSUME TypeOK, DeleteExpired PROVE Stays
    BY <1>3 DEF DeleteExpired, Dead, Known
  <1>4. ASSUME Tick \/ SelectExpired \/ ClearLimits PROVE Stays
    BY <1>1, <1>4 DEF Tick, SelectExpired, ClearLimits
  <1>5. ASSUME NEW r \in Requests, Arrive(r) \/ Respond(r) PROVE Stays
    BY <1>1, <1>5 DEF Arrive, Respond
  <1>6. ASSUME TypeOK, NEW r \in Requests, Authenticate(r) PROVE Stays
    BY <1>6 DEF Authenticate, Valid, Dead, Known, TypeOK
  <1>7. ASSUME TypeOK, NEW r \in Requests, Logout(r) PROVE Stays
    BY <1>7 DEF Logout, Dead, Known, TypeOK
  <1>8. ASSUME NEW r \in Requests,
               ReadLimit(r) \/ CheckCredentials(r) \/ IncreaseLimit(r) \/ DeleteLimit(r)
        PROVE  Stays
    BY <1>1, <1>8 DEF ReadLimit, CheckCredentials, IncreaseLimit, DeleteLimit
  <1>9. ASSUME TypeOK, NEW r \in Requests, AddSession(r) PROVE Stays
    BY <1>9 DEF AddSession, FreshTokens, Dead, Known, TypeOK
  <1>10. ASSUME TypeOK, NEW r \in Requests, CommitRefusal(r) \/ Fail(r) PROVE Stays
    BY <1>10, NothingIsNot DEF CommitRefusal, Fail, Discard, Dead, Known, TypeOK
  <1>11. ASSUME TypeOK, NEW r \in Requests, CommitLogin(r) PROVE Stays
    BY <1>11, NothingIsNot DEF CommitLogin, Discard, Dead, Known, TypeOK
  <1>12. ASSUME NEW r \in Requests, CheckIssuer(r) \/ UpdateUser(r) \/ DisableUser(r) \/ CutSessions(r)
         PROVE  Stays
    BY <1>1, <1>12 DEF CheckIssuer, UpdateUser, DisableUser, CutSessions
  <1>13. ASSUME TypeOK, NEW r \in Requests, CommitUpdate(r) PROVE Stays
    BY <1>13, NothingIsNot DEF CommitUpdate, Discard, Dead, Known, TypeOK
  <1>14. TypeOK /\ [Next]_vars => [Stays]_vars
    BY <1>3, <1>4, <1>5, <1>6, <1>7, <1>8, <1>9, <1>10, <1>11, <1>12, <1>13
       DEF Next, RequestStep, LoginStepOf, UpdateStepOf
  <1> QED
    BY <1>14, TypeCorrect, PTL DEF Spec, DeadTokensStayDead

=============================================================================
