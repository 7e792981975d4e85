----------------------------- MODULE AccountsProofs -----------------------------
(***************************************************************************)
(* Proofs about Accounts, for every set of names, passwords, requests and  *)
(* bodies and every table of users at the start; among them, that Accounts *)
(* implements AccountStore.                                                *)
(***************************************************************************)
EXTENDS Accounts, TLAPS

-----------------------------------------------------------------------------
(* The inductive invariant *)

Holding == {"login", "username", "commit"}

\* Where the handler of each route goes.
StepsOf(route) ==
    IF route = "register" THEN {"setting", "insert"} \cup Holding
    ELSE IF route = "users_update" THEN {"password", "lock"} \cup Holding
    ELSE IF route = "settings_update" THEN {"set"}
    ELSE IF route = "users_view" THEN {"view_users"} ELSE {"view_settings"}

Shape(r) ==
    /\ pc[r] = "new" => body[r] = NoBody /\ answer[r] = 0
    /\ pc[r] # "new" => body[r] \in Bodies
    /\ Open(r) => answer[r] = 0 /\ pc[r] \in StepsOf(body[r].route)
    /\ Holds(r) <=> pc[r] \in Holding
    /\ Holds(r) => target[r] \in UserIds

\* What r has put is what its body makes of the row that is there now.
Written(r) ==
    Holds(r) =>
        /\ body[r].route = "register" =>
              /\ users[target[r]] = NoRow /\ target[r] <= lastUser
              /\ row[r] = Merged(Defaults, body[r])
        /\ body[r].route = "users_update" =>
              /\ target[r] = body[r].user /\ users[target[r]] # NoRow
              /\ row[r] = Merged(users[target[r]], body[r])

\* A name that is in the index is that of no other user, and of no other transaction.
LoginIsFree(r) ==
    pc[r] \in {"username", "commit"} =>
        /\ \A u \in Existing(users) \ {target[r]} : users[u].login # row[r].login
        /\ \A q \in Requests \ {r} : pc[q] \in {"username", "commit"} => row[q].login # row[r].login

UsernameIsFree(r) ==
    pc[r] = "commit" =>
        /\ \A u \in Existing(users) \ {target[r]} : users[u].username # row[r].username
        /\ \A q \in Requests \ {r} : pc[q] = "commit" => row[q].username # row[r].username

\* What r was allowed on still holds, unless others changed its issuer or the setting.
Authority(r) ==
    Open(r) =>
        /\ Refusal(body[r], actor[r], actorLevel[r]) = 0
        /\ actor[r] = NoUser => actorLevel[r] = "user"
        /\ pc[r] = "setting" => actorLevel[r] # "admin"
        /\ actor[r] # NoUser => users[actor[r]] # NoRow
        /\ actor[r] # NoUser /\ actor[r] \notin changed[r] =>
              /\ users[actor[r]].level = actorLevel[r] /\ users[actor[r]].canLogin = "yes"
              /\ body[r].route = "users_update" /\ pc[r] # "password" =>
                    users[actor[r]].password = body[r].given
        /\ body[r].route = "register" /\ actorLevel[r] # "admin" /\ pc[r] # "setting" =>
              /\ ~SetsPrivileges(body[r])
              /\ allowed = "yes" \/ r \in overruled

\* A request that could be carried out still can, unless others changed something.
StaysFeasible(r) ==
    Open(r) /\ r \in feasible =>
        changed[r] # {} \/ r \in overruled \/ Feasible(body[r], actor[r], actorLevel[r])

FeasibleArrived == \A r \in feasible : pc[r] # "new"

IdsAreTaken == \A u \in UserIds : users[u] # NoRow => u <= lastUser

TargetsDiffer == \A q, r \in Requests : q # r /\ Holds(q) /\ Holds(r) => target[q] # target[r]

IInv ==
    /\ TypeOK
    /\ \A r \in Requests : Shape(r) /\ Written(r)
    /\ \A r \in Requests : LoginIsFree(r) /\ UsernameIsFree(r)
    /\ \A r \in Requests : Authority(r) /\ StaysFeasible(r)
    /\ FeasibleArrived /\ IdsAreTaken /\ TargetsDiffer
    /\ NamesAreUnique
    /\ RefusalsHaveCause

-----------------------------------------------------------------------------
(* Rows and bodies *)

\* The constant that no body has as its route.
LEMMA BodiesAreAsked ==
  ASSUME NEW b \in Bodies
  PROVE  b \in Body /\ b # NoBody /\ b.route \in Writers \cup Readers
  <1>1. b \in Body
    BY AccountAssumption
  <1>2. b.route \in Writers \cup Readers
    BY <1>1 DEF Body
  <1>3. b.route # "none"
    BY <1>2 DEF Writers, Readers
  <1> QED
    BY <1>1, <1>2, <1>3 DEF NoBody

\* An update of a row is a row.
LEMMA MergedRow ==
  ASSUME NEW b \in Bodies, NEW old \in UserRow
  PROVE  Merged(old, b) \in UserRow
  <1>1. b \in Body
    BY AccountAssumption
  <1> QED
    BY <1>1 DEF Body, UserRow, Merged, Given

\* So is a registration, with the names its body gives.
LEMMA RegisteredRow ==
  ASSUME NEW b \in Bodies, b.route = "register"
  PROVE  /\ Merged(Defaults, b) \in UserRow
         /\ Merged(Defaults, b).login = b.login /\ Merged(Defaults, b).username = b.username
  <1>1. b \in Body /\ Keep \notin {b.login, b.username, b.password}
    BY AccountAssumption
  <1>2. Merged(Defaults, b) = [login |-> b.login, username |-> b.username, password |-> b.password,
            level |-> Given(b.level, "user"), canLogin |-> Given(b.canLogin, "yes"),
            canEdit |-> Given(b.canEdit, "yes")]
    BY <1>1 DEF Merged, Given, Defaults
  <1>3. /\ b.login \in Logins /\ b.username \in Usernames /\ b.password \in Passwords
        /\ Given(b.level, "user") \in Level /\ Given(b.canLogin, "yes") \in Flag
        /\ Given(b.canEdit, "yes") \in Flag
    BY <1>1 DEF Body, Given, Level, Flag
  <1> QED
    BY <1>2, <1>3 DEF UserRow

\* A request that holds a row writes users.
LEMMA HoldersWrite ==
  ASSUME NEW r \in Requests, Shape(r), Holds(r)
  PROVE  /\ pc[r] \in Holding /\ Open(r) /\ target[r] \in UserIds
         /\ body[r] \in Bodies /\ body[r].route \in {"register", "users_update"}
  <1>1. pc[r] \in Holding /\ pc[r] # "new" /\ Open(r) /\ target[r] \in UserIds
    BY DEF Shape, Holding, Open
  <1>2. body[r] \in Bodies /\ pc[r] \in StepsOf(body[r].route)
    BY <1>1 DEF Shape
  <1>3. body[r].route \in {"register", "users_update"}
    BY <1>1, <1>2 DEF StepsOf, Holding
  <1> QED
    BY <1>1, <1>2, <1>3

\* It has taken its id from the sequence.
LEMMA TargetsAreTaken ==
  ASSUME IInv, NEW r \in Requests, Holds(r)
  PROVE  target[r] <= lastUser
  BY HoldersWrite DEF IInv, Written, IdsAreTaken

-----------------------------------------------------------------------------
(* The kinds of steps *)

\* What a step of r leaves alone of the other requests.
OthersSame(r) ==
    \A q \in Requests \ {r} :
        /\ pc'[q] = pc[q] /\ answer'[q] = answer[q]
        /\ body'[q] = body[q] /\ actor'[q] = actor[q] /\ actorLevel'[q] = actorLevel[q]
        /\ target'[q] = target[q] /\ row'[q] = row[q]

LEMMA SameFeasible ==
  ASSUME UNCHANGED <<users, allowed>>, NEW b, NEW i, NEW l
  PROVE  Feasible(b, i, l)' = Feasible(b, i, l)
  BY DEF Feasible, Conflicts, Existing

\* A step of r that changes no table keeps the invariant if r keeps its part of it.
LEMMA LocalStep ==
  ASSUME IInv, NEW r \in Requests, TypeOK', OthersSame(r),
         UNCHANGED <<users, allowed, changed, overruled>>,
         lastUser' \in Nat /\ lastUser <= lastUser',
         feasible' \in {feasible, feasible \cup {r}}, pc'[r] # "new",
         Shape(r)', Written(r)', LoginIsFree(r)', UsernameIsFree(r)', Authority(r)', StaysFeasible(r)',
         Holds(r)' =>
             \/ target'[r] = target[r] /\ Holds(r)
             \/ \A q \in Requests \ {r} : Holds(q) => target[q] # target'[r],
         r \in feasible' /\ answer'[r] \in {400, 401, 403, 404} => changed[r] # {} \/ r \in overruled
  PROVE  IInv'
  <1>1. \A q \in Requests \ {r} : Shape(q)'
    BY DEF IInv, OthersSame, Shape, Open, Holds
  <1>2. \A q \in Requests \ {r} : Written(q)'
    <2> SUFFICES ASSUME NEW q \in Requests \ {r}, Holds(q)
                 PROVE  Written(q)'
      BY DEF OthersSame, Written, Holds
    <2>1. target[q] \in UserIds /\ lastUser \in Nat
      BY DEF IInv, Shape, TypeOK
    <2> QED
      BY <2>1 DEF IInv, OthersSame, Written, UserIds
  <1>3. \A q \in Requests \ {r} : LoginIsFree(q)'
    BY DEF IInv, OthersSame, LoginIsFree, Existing
  <1>4. \A q \in Requests \ {r} : UsernameIsFree(q)'
    BY DEF IInv, OthersSame, UsernameIsFree, Existing
  <1>5. \A q \in Requests \ {r} : Authority(q)'
    BY DEF IInv, OthersSame, Authority, Open
  <1>6. \A q \in Requests \ {r} : StaysFeasible(q)'
    BY SameFeasible DEF IInv, OthersSame, StaysFeasible, Open
  <1>7. IdsAreTaken'
    BY DEF IInv, IdsAreTaken, TypeOK, UserIds
  <1>8. FeasibleArrived'
    BY DEF IInv, OthersSame, FeasibleArrived, TypeOK
  <1>9. TargetsDiffer'
    BY DEF IInv, OthersSame, TargetsDiffer, Holds
  <1>10. NamesAreUnique'
    BY DEF IInv, NamesAreUnique, UniqueNames, Existing
  <1>11. RefusalsHaveCause'
    <2> SUFFICES ASSUME NEW q \in feasible', answer'[q] \in {400, 401, 403, 404}, q # r
                 PROVE  changed[q] # {} \/ q \in overruled
      BY DEF RefusalsHaveCause
    <2>1. q \in feasible /\ q \in Requests
      BY DEF IInv, TypeOK
    <2> QED
      BY <2>1 DEF IInv, RefusalsHaveCause, OthersSame
  <1> QED
    BY <1>1, <1>2, <1>3, <1>4, <1>5, <1>6, <1>7, <1>8, <1>9, <1>10, <1>11 DEF IInv

\* A request that is answered keeps nothing.
LEMMA Ended ==
  ASSUME IInv, NEW r \in Requests, Open(r), NEW s \in {200, 400, 401, 403, 404, 500}, End(r, s),
         UNCHANGED <<tableVars, requestVars, historyVars>>,
         r \in feasible /\ s \in {400, 401, 403, 404} => changed[r] # {} \/ r \in overruled
  PROVE  IInv'
  <1>1. /\ pc'[r] = "done" /\ answer'[r] = s /\ row'[r] = NoRow
        /\ body'[r] = body[r]
    BY DEF End, Goto, IInv, TypeOK, requestVars
  <1>2. TypeOK'
    BY DEF End, Goto, IInv, TypeOK, tableVars, requestVars, historyVars, Step
  <1>3. OthersSame(r)
    BY DEF End, Goto, IInv, TypeOK, requestVars, OthersSame
  <1>4. UNCHANGED <<users, allowed, lastUser, changed, overruled, feasible>> /\ lastUser \in Nat
    BY DEF tableVars, historyVars, IInv, TypeOK
  <1>5. Shape(r)' /\ ~Holds(r)' /\ ~Open(r)'
    BY <1>1 DEF IInv, Shape, Open, Holds, Holding
  <1>6. Written(r)' /\ LoginIsFree(r)' /\ UsernameIsFree(r)' /\ Authority(r)' /\ StaysFeasible(r)'
    BY <1>1, <1>5 DEF Written, LoginIsFree, UsernameIsFree, Authority, StaysFeasible
  <1> QED
    BY <1>1, <1>2, <1>3, <1>4, <1>5, <1>6, LocalStep

\* A request that goes on without writing.
LEMMA Advanced ==
  ASSUME IInv, NEW r \in Requests, Open(r), NEW step \in StepsOf(body[r].route) \cap Step, Goto(r, step),
         Holds(r) <=> step \in Holding,
         UNCHANGED <<tableVars, answer, requestVars, writeVars, historyVars>>,
         LoginIsFree(r)', UsernameIsFree(r)',
         pc[r] = "password" => users[actor[r]].password = body[r].given,
         pc[r] = "setting" => allowed = "yes" /\ ~SetsPrivileges(body[r]), step # "setting"
  PROVE  IInv'
  <1>1. /\ pc'[r] = step /\ step \notin {"new", "done"}
        /\ answer'[r] = answer[r] /\ row'[r] = row[r] /\ target'[r] = target[r]
        /\ body'[r] = body[r] /\ actor'[r] = actor[r] /\ actorLevel'[r] = actorLevel[r]
    BY DEF Goto, IInv, TypeOK, requestVars, writeVars, StepsOf, Holding
  <1>2. TypeOK'
    BY DEF Goto, IInv, TypeOK, tableVars, requestVars, historyVars, writeVars
  <1>3. OthersSame(r)
    BY DEF Goto, IInv, TypeOK, requestVars, writeVars, OthersSame
  <1>4. UNCHANGED <<users, allowed, lastUser, changed, overruled, feasible>> /\ lastUser \in Nat
    BY DEF tableVars, historyVars, IInv, TypeOK
  <1>5. Shape(r)' /\ (Holds(r)' <=> Holds(r)) /\ Open(r)'
    BY <1>1 DEF IInv, Shape, Open, Holds
  <1>6. Written(r)'
    BY <1>1, <1>4, <1>5 DEF IInv, Written
  <1>7. Authority(r)'
    BY <1>1, <1>4 DEF IInv, Authority
  <1>8. StaysFeasible(r)'
    BY <1>1, <1>4, SameFeasible DEF IInv, StaysFeasible
  <1>9. answer'[r] = 0
    BY <1>1 DEF IInv, Shape
  <1> QED
    BY <1>1, <1>2, <1>3, <1>4, <1>5, <1>6, <1>7, <1>8, <1>9, LocalStep

\* A request that puts its row, which is no other's.
LEMMA Puts ==
  ASSUME IInv, NEW r \in Requests, pc[r] \in {"insert", "lock"}, Open(r), Goto(r, "login"),
         NEW u \in UserIds, NEW new \in UserRow,
         target' = [target EXCEPT ![r] = u], row' = [row EXCEPT ![r] = new],
         UNCHANGED <<users, allowed, answer, requestVars, historyVars>>,
         lastUser' \in 0 .. MaxUser, lastUser <= lastUser',
         body[r].route = "register" => users[u] = NoRow /\ u <= lastUser' /\ new = Merged(Defaults, body[r]),
         body[r].route = "users_update" =>
             u = body[r].user /\ users[u] # NoRow /\ new = Merged(users[u], body[r]),
         \A q \in Requests \ {r} : Holds(q) => target[q] # u
  PROVE  IInv'
  <1>1. /\ pc'[r] = "login" /\ answer'[r] = answer[r] /\ row'[r] = new /\ target'[r] = u
        /\ body'[r] = body[r] /\ actor'[r] = actor[r] /\ actorLevel'[r] = actorLevel[r]
    BY DEF Goto, IInv, TypeOK, requestVars
  <1>2. TypeOK'
    BY DEF Goto, IInv, TypeOK, requestVars, historyVars, Step
  <1>3. OthersSame(r)
    BY DEF Goto, IInv, TypeOK, requestVars, OthersSame
  <1>4. UNCHANGED <<users, allowed, changed, overruled, feasible>> /\ lastUser' \in Nat
    BY DEF historyVars, IInv, TypeOK
  <1>5. Open(r)' /\ Holds(r)' /\ new # NoRow
    BY <1>1, AccountAssumption DEF Open, Holds
  <1>6. Shape(r)'
    <2>1. pc[r] \in StepsOf(body[r].route)
      BY DEF IInv, Shape
    <2>2. "login" \in StepsOf(body[r].route)
      BY <2>1 DEF StepsOf, Holding
    <2> QED
      BY <1>1, <1>5, <2>2 DEF IInv, Shape, Open, Holding
  <1>7. Written(r)'
    BY <1>1, <1>4 DEF Written
  <1>8. LoginIsFree(r)' /\ UsernameIsFree(r)'
    BY <1>1 DEF LoginIsFree, UsernameIsFree
  <1>9. Authority(r)'
    BY <1>1, <1>4 DEF IInv, Authority
  <1>10. StaysFeasible(r)'
    BY <1>1, <1>4, SameFeasible DEF IInv, StaysFeasible
  <1>11. answer'[r] = 0
    BY <1>1 DEF IInv, Shape
  <1>12. Holds(r)' => (target'[r] = target[r] /\ Holds(r)) \/ \A q \in Requests \ {r} : Holds(q) => target[q] # target'[r]
    BY <1>1
  <1> QED
    BY <1>1, <1>2, <1>3, <1>4, <1>6, <1>7, <1>8, <1>9, <1>10, <1>11, <1>12, LocalStep

-----------------------------------------------------------------------------
(* The actions *)

\* What is known of an open request.
LEMMA OpenRequest ==
  ASSUME IInv, NEW r \in Requests, Open(r)
  PROVE  /\ body[r] \in Bodies /\ body[r] \in Body /\ body[r].route \in Writers \cup Readers
         /\ pc[r] \in StepsOf(body[r].route)
         /\ r \in feasible => \/ changed[r] # {} \/ r \in overruled
                              \/ Feasible(body[r], actor[r], actorLevel[r])
  BY BodiesAreAsked DEF IInv, Shape, StaysFeasible, Open

LEMMA RouteOfStep ==
  ASSUME IInv, NEW r \in Requests
  PROVE  /\ pc[r] \in {"setting", "insert"} => body[r].route = "register"
         /\ pc[r] \in {"password", "lock"} => body[r].route = "users_update"
         /\ pc[r] = "set" => body[r].route = "settings_update"
         /\ pc[r] = "view_users" => body[r].route = "users_view"
         /\ pc[r] = "view_settings" => body[r].route = "settings_view"
  <1>1. Open(r) => pc[r] \in StepsOf(body[r].route) /\ body[r].route \in Writers \cup Readers
    BY OpenRequest
  <1> QED
    BY <1>1 DEF Open, StepsOf, Holding, Writers, Readers

LEMMA ReadSettingKeeps ==
  ASSUME IInv, NEW r \in Requests, ReadSetting(r)
  PROVE  IInv'
  <1>1. Open(r) /\ body[r].route = "register" /\ ~Holds(r)
    BY RouteOfStep DEF ReadSetting, Open, IInv, Shape, Holding
  <1>2. CASE allowed = "no" \/ SetsPrivileges(body[r])
    <2>1. actorLevel[r] # "admin"
      BY <1>1 DEF IInv, Authority, ReadSetting
    <2>2. r \in feasible => changed[r] # {} \/ r \in overruled
      BY <1>1, <1>2, <2>1, OpenRequest DEF Feasible
    <2> QED
      BY <1>1, <1>2, <2>2, Ended DEF ReadSetting
  <1>3. CASE ~(allowed = "no" \/ SetsPrivileges(body[r]))
    <2>1. "insert" \in StepsOf(body[r].route) \cap Step
      BY <1>1 DEF StepsOf, Step
    <2>2. allowed = "yes"
      BY <1>3 DEF IInv, TypeOK, Flag
    <2>3. pc'[r] = "insert"
      BY <1>3 DEF ReadSetting, Goto, IInv, TypeOK
    <2>4. LoginIsFree(r)' /\ UsernameIsFree(r)'
      BY <2>3 DEF LoginIsFree, UsernameIsFree
    <2> QED
      BY <1>1, <1>3, <2>1, <2>2, <2>4, Advanced DEF ReadSetting, Holding
  <1> QED
    BY <1>2, <1>3

LEMMA InsertUserKeeps ==
  ASSUME IInv, NEW r \in Requests, InsertUser(r)
  PROVE  IInv'
  <1>1. Open(r) /\ body[r].route = "register" /\ body[r] \in Bodies
    BY RouteOfStep, OpenRequest DEF InsertUser, Open
  <1>2. Merged(Defaults, body[r]) \in UserRow
    BY <1>1, RegisteredRow
  <1>3. lastUser \in 0 .. MaxUser /\ lastUser + 1 \in UserIds /\ lastUser' = lastUser + 1 /\ MaxUser \in Nat
    BY AccountAssumption DEF InsertUser, IInv, TypeOK, UserIds
  <1>4. users[lastUser + 1] = NoRow
    BY <1>3 DEF IInv, IdsAreTaken, UserIds
  <1>5. \A q \in Requests \ {r} : Holds(q) => target[q] # lastUser + 1
    BY <1>3, TargetsAreTaken
  <1>6. lastUser' \in 0 .. MaxUser /\ lastUser <= lastUser' /\ lastUser + 1 <= lastUser'
    BY <1>3 DEF UserIds
  <1> QED
    BY <1>1, <1>2, <1>3, <1>4, <1>5, <1>6, Puts DEF InsertUser

LEMMA CheckPasswordKeeps ==
  ASSUME IInv, NEW r \in Requests, CheckPassword(r)
  PROVE  IInv'
  <1>1. Open(r) /\ body[r].route = "users_update" /\ ~Holds(r)
    BY RouteOfStep DEF CheckPassword, Open, IInv, Shape, Holding
  <1>2. CASE users[actor[r]].password = body[r].given
    <2>1. "lock" \in StepsOf(body[r].route) \cap Step
      BY <1>1 DEF StepsOf, Step
    <2>3. pc'[r] = "lock" /\ pc[r] = "password"
      BY <1>2 DEF CheckPassword, Goto, IInv, TypeOK
    <2>4. LoginIsFree(r)' /\ UsernameIsFree(r)'
      BY <2>3 DEF LoginIsFree, UsernameIsFree
    <2> QED
      BY <1>1, <1>2, <2>1, <2>3, <2>4, Advanced DEF CheckPassword, Holding
  <1>3. CASE users[actor[r]].password # body[r].given
    <2>1. r \in feasible => changed[r] # {} \/ r \in overruled
      BY <1>1, <1>3, OpenRequest DEF Feasible
    <2> QED
      BY <1>1, <1>3, <2>1, Ended DEF CheckPassword
  <1> QED
    BY <1>2, <1>3

LEMMA LockUserKeeps ==
  ASSUME IInv, NEW r \in Requests, LockUser(r)
  PROVE  IInv'
  <1>1. Open(r) /\ body[r].route = "users_update" /\ body[r] \in Bodies /\ body[r].user \in UserIds
    BY RouteOfStep, OpenRequest DEF LockUser, Open, Body
  <1> DEFINE u == body[r].user
  <1>2. CASE u \in Existing(users)
    <2>1. users[u] \in UserRow /\ users[u] # NoRow
      BY <1>2 DEF Existing, IInv, TypeOK
    <2>2. Merged(users[u], body[r]) \in UserRow
      BY <1>1, <2>1, MergedRow
    <2>3. \A q \in Requests \ {r} : Holds(q) => target[q] # u
      BY DEF LockUser, Blocked, WaitsFor
    <2>4. lastUser' \in 0 .. MaxUser /\ lastUser <= lastUser'
      BY DEF LockUser, tableVars, IInv, TypeOK
    <2> QED
      BY <1>1, <1>2, <2>1, <2>2, <2>3, <2>4, Puts DEF LockUser, tableVars
  <1>3. CASE u \notin Existing(users)
    <2>1. r \in feasible => changed[r] # {} \/ r \in overruled
      BY <1>1, <1>3, OpenRequest DEF Feasible
    <2> QED
      BY <1>1, <1>3, <2>1, Ended DEF LockUser
  <1> QED
    BY <1>2, <1>3

\* The row that r has put conflicts with no other, if r is still feasible.
LEMMA NoConflict ==
  ASSUME IInv, NEW r \in Requests, Holds(r), Feasible(body[r], actor[r], actorLevel[r])
  PROVE  \A u \in Existing(users) \ {target[r]} :
             users[u].login # row[r].login /\ users[u].username # row[r].username
  <1>1. Shape(r) /\ Written(r)
    BY DEF IInv
  <1>2. body[r] \in Bodies /\ body[r].route \in {"register", "users_update"}
    BY <1>1, HoldersWrite
  <1>3. CASE body[r].route = "register"
    <2>1. row[r].login = body[r].login /\ row[r].username = body[r].username
      BY <1>1, <1>2, <1>3, RegisteredRow DEF Written
    <2>2. Conflicts(NoUser, body[r]) = {}
      BY <1>3 DEF Feasible
    <2>3. NoUser \notin Existing(users)
      BY AccountAssumption DEF Existing
    <2> QED
      BY <2>1, <2>2, <2>3 DEF Conflicts
  <1>4. CASE body[r].route = "users_update"
    <2>1. target[r] = body[r].user /\ row[r] = Merged(users[target[r]], body[r])
      BY <1>1, <1>4 DEF Written
    <2>2. Conflicts(body[r].user, Merged(users[body[r].user], body[r])) = {}
      BY <1>4 DEF Feasible
    <2> QED
      BY <2>1, <2>2 DEF Conflicts
  <1> QED
    BY <1>2, <1>3, <1>4

LEMMA EnterLoginKeeps ==
  ASSUME IInv, NEW r \in Requests, EnterLogin(r)
  PROVE  IInv'
  <1>1. Open(r) /\ Holds(r) /\ pc[r] = "login"
    BY DEF EnterLogin, Open, IInv, Shape, Holding
  <1> DEFINE taken == \E u \in Existing(users) \ {target[r]} : users[u].login = row[r].login
  <1>2. CASE taken
    <2>1. r \in feasible => changed[r] # {} \/ r \in overruled
      BY <1>1, <1>2, OpenRequest, NoConflict
    <2> QED
      BY <1>1, <1>2, <2>1, Ended DEF EnterLogin
  <1>3. CASE ~taken
    <2>1. "username" \in StepsOf(body[r].route) \cap Step
      BY <1>1, OpenRequest DEF StepsOf, Step, Holding
    <2>2. \A q \in Requests \ {r} : pc[q] \in {"username", "commit"} => row[q].login # row[r].login
      BY <1>1 DEF EnterLogin, Blocked, WaitsFor, HeldLogins
    <2>3. /\ pc'[r] = "username" /\ UNCHANGED <<users, target, row>>
          /\ \A q \in Requests \ {r} : pc'[q] = pc[q]
      BY <1>3 DEF EnterLogin, Goto, IInv, TypeOK, tableVars, writeVars
    <2>4. LoginIsFree(r)' /\ UsernameIsFree(r)'
      BY <1>3, <2>2, <2>3 DEF LoginIsFree, UsernameIsFree, Existing
    <2> QED
      BY <1>1, <1>3, <2>1, <2>4, Advanced DEF EnterLogin, Holding
  <1> QED
    BY <1>2, <1>3

LEMMA EnterUsernameKeeps ==
  ASSUME IInv, NEW r \in Requests, EnterUsername(r)
  PROVE  IInv'
  <1>1. Open(r) /\ Holds(r) /\ pc[r] = "username"
    BY DEF EnterUsername, Open, IInv, Shape, Holding
  <1> DEFINE taken == \E u \in Existing(users) \ {target[r]} : users[u].username = row[r].username
  <1>2. CASE taken
    <2>1. r \in feasible => changed[r] # {} \/ r \in overruled
      BY <1>1, <1>2, OpenRequest, NoConflict
    <2> QED
      BY <1>1, <1>2, <2>1, Ended DEF EnterUsername
  <1>3. CASE ~taken
    <2>1. "commit" \in StepsOf(body[r].route) \cap Step
      BY <1>1, OpenRequest DEF StepsOf, Step, Holding
    <2>2. \A q \in Requests \ {r} : pc[q] = "commit" => row[q].username # row[r].username
      BY <1>1 DEF EnterUsername, Blocked, WaitsFor, HeldUsernames
    <2>3. /\ pc'[r] = "commit" /\ UNCHANGED <<users, target, row>>
          /\ \A q \in Requests \ {r} : pc'[q] = pc[q]
      BY <1>3 DEF EnterUsername, Goto, IInv, TypeOK, tableVars, writeVars
    <2>4. LoginIsFree(r)
      BY DEF IInv
    <2>5. LoginIsFree(r)' /\ UsernameIsFree(r)'
      BY <1>1, <1>3, <2>2, <2>3, <2>4 DEF LoginIsFree, UsernameIsFree, Existing
    <2> QED
      BY <1>1, <1>3, <2>1, <2>5, Advanced DEF EnterUsername, Holding
  <1> QED
    BY <1>2, <1>3

LEMMA BeginKeeps ==
  ASSUME IInv, NEW r \in Requests, Begin(r)
  PROVE  IInv'
  <1> DEFINE Level0(i) == IF i = NoUser THEN "user" ELSE users[i].level
  <1>1. PICK b \in Bodies, i \in {NoUser} \cup {u \in Existing(users) : users[u].canLogin = "yes"} :
          /\ body' = [body EXCEPT ![r] = b]
          /\ actor' = [actor EXCEPT ![r] = i]
          /\ actorLevel' = [actorLevel EXCEPT ![r] = Level0(i)]
          /\ feasible' = IF Feasible(b, i, Level0(i)) THEN feasible \cup {r} ELSE feasible
          /\ IF Refusal(b, i, Level0(i)) # 0 THEN End(r, Refusal(b, i, Level0(i)))
             ELSE Goto(r, FirstStep(b, Level0(i))) /\ UNCHANGED <<answer, writeVars>>
    BY DEF Begin
  <1> DEFINE lev == Level0(i)
  <1>2. /\ pc[r] = "new" /\ answer[r] = 0 /\ row[r] = NoRow
        /\ UNCHANGED <<users, allowed, lastUser, changed, overruled>>
    BY DEF Begin, tableVars, IInv, Shape, Holds, Holding
  <1>3. b \in Body /\ b.route \in Writers \cup Readers
    BY BodiesAreAsked
  <1>4. lev \in Level /\ i \in UserIds \cup {NoUser} /\ (i # NoUser => users[i] # NoRow)
        /\ (i # NoUser => users[i].level = lev /\ users[i].canLogin = "yes") /\ (i = NoUser => lev = "user")
    <2>1. CASE i = NoUser
      BY <2>1 DEF Level
    <2>2. CASE i # NoUser
      <3>1. i \in Existing(users) /\ users[i].canLogin = "yes"
        BY <2>2
      <3>2. users[i] \in UserRow /\ i \in UserIds
        BY <3>1 DEF IInv, TypeOK, Existing
      <3> QED
        BY <2>2, <3>1, <3>2 DEF UserRow, Existing
    <2> QED
      BY <2>1, <2>2
  <1>5. Refusal(b, i, lev) \in {0, 401, 403}
    BY DEF Refusal
  <1>6. /\ body'[r] = b /\ actor'[r] = i /\ actorLevel'[r] = lev
    BY <1>1 DEF IInv, TypeOK
  <1>7. FirstStep(b, lev) \in StepsOf(b.route) \cap Step /\ FirstStep(b, lev) \notin Holding
        /\ (FirstStep(b, lev) = "setting" => lev # "admin")
        /\ (FirstStep(b, lev) # "setting" /\ b.route = "register" => lev = "admin")
        /\ (b.route = "users_update" => FirstStep(b, lev) = "password")
    <2>1. CASE b.route = "register"
      BY <2>1 DEF FirstStep, StepsOf, Step, Holding
    <2>2. CASE b.route = "users_update"
      BY <2>2 DEF FirstStep, StepsOf, Step, Holding
    <2>3. CASE b.route = "settings_update"
      BY <2>3 DEF FirstStep, StepsOf, Step, Holding
    <2>4. CASE b.route = "users_view"
      BY <2>4 DEF FirstStep, StepsOf, Step, Holding
    <2>5. CASE b.route = "settings_view"
      BY <2>5 DEF FirstStep, StepsOf, Step, Holding
    <2> QED
      BY <1>3, <2>1, <2>2, <2>3, <2>4, <2>5 DEF Writers, Readers
  <1>8. /\ row' = row \/ row' = [row EXCEPT ![r] = NoRow]
        /\ target' = target \/ target' = [target EXCEPT ![r] = NoUser]
        /\ answer' = answer \/ answer' = [answer EXCEPT ![r] = Refusal(b, i, lev)]
        /\ pc' = [pc EXCEPT ![r] = "done"] \/ pc' = [pc EXCEPT ![r] = FirstStep(b, lev)]
    BY <1>1 DEF End, Goto, writeVars
  <1>9. TypeOK'
    BY <1>1, <1>2, <1>3, <1>4, <1>5, <1>7, <1>8 DEF IInv, TypeOK, Step
  <1>10. OthersSame(r)
    BY <1>1, <1>8 DEF IInv, TypeOK, OthersSame
  <1>11. row'[r] = NoRow /\ ~Holds(r)'
    BY <1>2, <1>8 DEF IInv, TypeOK, Holds
  <1>12. lastUser' \in Nat /\ lastUser <= lastUser'
    BY <1>2 DEF IInv, TypeOK
  <1>13. feasible' \in {feasible, feasible \cup {r}} /\ pc'[r] # "new"
    BY <1>1, <1>7, <1>8 DEF IInv, TypeOK, StepsOf, Holding
  <1>14. CASE Refusal(b, i, lev) # 0
    <2>1. pc'[r] = "done" /\ answer'[r] = Refusal(b, i, lev) /\ ~Open(r)'
      BY <1>1, <1>14 DEF End, Goto, IInv, TypeOK, Open
    <2>2. Shape(r)'
      BY <1>6, <1>11, <2>1 DEF Shape, Open, Holding
    <2>3. Written(r)' /\ LoginIsFree(r)' /\ UsernameIsFree(r)' /\ Authority(r)' /\ StaysFeasible(r)'
      BY <1>11, <2>1 DEF Written, LoginIsFree, UsernameIsFree, Authority, StaysFeasible
    <2>4. ~Feasible(b, i, lev)
      BY <1>14 DEF Feasible
    <2>5. r \in feasible' => changed[r] # {} \/ r \in overruled
      <3>1. feasible' = feasible
        BY <1>1, <2>4
      <3> QED
        BY <3>1, <1>2 DEF IInv, FeasibleArrived
    <2> QED
      BY <1>2, <1>9, <1>10, <1>11, <1>12, <1>13, <2>2, <2>3, <2>5, LocalStep
  <1>15. CASE Refusal(b, i, lev) = 0
    <2>1. pc'[r] = FirstStep(b, lev) /\ answer'[r] = 0
      BY <1>1, <1>2, <1>15 DEF Goto, IInv, TypeOK
    <2>2. Shape(r)'
      BY <1>6, <1>7, <1>11, <2>1 DEF Shape, Open, Holding, StepsOf
    <2>3. Written(r)' /\ LoginIsFree(r)' /\ UsernameIsFree(r)'
      BY <1>7, <1>11, <2>1 DEF Written, LoginIsFree, UsernameIsFree, Holding
    <2>4. Authority(r)'
      BY <1>2, <1>4, <1>6, <1>7, <1>15, <2>1 DEF Authority
    <2>5. StaysFeasible(r)'
      <3>1. r \in feasible' => Feasible(b, i, lev)
        BY <1>1, <1>2 DEF IInv, FeasibleArrived
      <3> QED
        BY <1>2, <1>6, <3>1, SameFeasible DEF StaysFeasible
    <2> QED
      BY <1>2, <1>9, <1>10, <1>11, <1>12, <1>13, <2>1, <2>2, <2>3, <2>4, <2>5, LocalStep
  <1> QED
    BY <1>14, <1>15

\* A commit tells every other open request that the user has changed.
LEMMA CommitKeeps ==
  ASSUME IInv, NEW r \in Requests, Commit(r)
  PROVE  IInv'
  <1> DEFINE t == target[r]
  <1>1. pc[r] = "commit" /\ Open(r) /\ Holds(r) /\ t \in UserIds /\ row[r] \in UserRow /\ t <= lastUser
    BY TargetsAreTaken DEF Commit, Open, Holds, Holding, IInv, Shape, TypeOK
  <1>2. /\ pc'[r] = "done" /\ answer'[r] = 200 /\ ~Holds(r)' /\ ~Open(r)' /\ body'[r] = body[r]
        /\ OthersSame(r)
    BY DEF Commit, End, Goto, IInv, TypeOK, Holds, Open, OthersSame, requestVars
  <1>3. /\ users'[t] = row[r] /\ \A u \in UserIds \ {t} : users'[u] = users[u]
        /\ UNCHANGED <<allowed, lastUser, feasible, overruled>>
    BY <1>1 DEF Commit, IInv, TypeOK
  <1>4. Existing(users') = Existing(users) \cup {t}
    BY <1>1, <1>3, AccountAssumption DEF Existing
  <1>5. \A q \in Requests \ {r} :
            (changed[q] \subseteq changed'[q]) /\ (Open(q) => changed'[q] = changed[q] \cup {t})
    BY DEF Commit
  <1>6. TypeOK'
    BY <1>1 DEF Commit, End, Goto, IInv, TypeOK, requestVars, Step
  <1>7. Shape(r)' /\ Written(r)' /\ LoginIsFree(r)' /\ UsernameIsFree(r)' /\ Authority(r)' /\ StaysFeasible(r)'
    BY <1>1, <1>2 DEF IInv, Shape, Written, LoginIsFree, UsernameIsFree, Authority, StaysFeasible, Holding
  <1>8. ASSUME NEW q \in Requests \ {r}
        PROVE  /\ Shape(q)' /\ Written(q)' /\ LoginIsFree(q)' /\ UsernameIsFree(q)'
               /\ Authority(q)' /\ StaysFeasible(q)'
    <2>1. Shape(q)'
      BY <1>2 DEF IInv, OthersSame, Shape, Open, Holds
    <2>2. Written(q)'
      <3> SUFFICES ASSUME Holds(q)
                   PROVE  Written(q)'
        BY <1>2 DEF OthersSame, Written, Holds
      <3>1. target[q] \in UserIds \ {t}
        BY <1>1 DEF IInv, Shape, TargetsDiffer
      <3> QED
        BY <1>2, <1>3, <3>1 DEF IInv, OthersSame, Written
    <2>3. LoginIsFree(q)'
      <3> SUFFICES ASSUME pc[q] \in {"username", "commit"}
                   PROVE  LoginIsFree(q)'
        BY <1>2 DEF OthersSame, LoginIsFree
      <3>1. row[r].login # row[q].login
        BY <1>1 DEF IInv, LoginIsFree
      <3>2. \A u \in Existing(users') \ {target[q]} : users'[u].login # row[q].login
        BY <1>3, <1>4, <3>1 DEF IInv, LoginIsFree, Existing
      <3>3. \A p \in Requests \ {q} : pc'[p] \in {"username", "commit"} => row'[p].login # row[q].login
        BY <1>2 DEF IInv, LoginIsFree, OthersSame
      <3> QED
        BY <1>2, <3>2, <3>3 DEF OthersSame, LoginIsFree
    <2>4. UsernameIsFree(q)'
      <3> SUFFICES ASSUME pc[q] = "commit"
                   PROVE  UsernameIsFree(q)'
        BY <1>2 DEF OthersSame, UsernameIsFree
      <3>1. row[r].username # row[q].username
        BY <1>1 DEF IInv, UsernameIsFree
      <3>2. \A u \in Existing(users') \ {target[q]} : users'[u].username # row[q].username
        BY <1>3, <1>4, <3>1 DEF IInv, UsernameIsFree, Existing
      <3>3. \A p \in Requests \ {q} : pc'[p] = "commit" => row'[p].username # row[q].username
        BY <1>2 DEF IInv, UsernameIsFree, OthersSame
      <3> QED
        BY <1>2, <3>2, <3>3 DEF OthersSame, UsernameIsFree
    <2>5. Authority(q)'
      <3> SUFFICES ASSUME Open(q)
                   PROVE  Authority(q)'
        BY <1>2 DEF OthersSame, Authority, Open
      <3>1. Authority(q) /\ actor[q] \in UserIds \cup {NoUser} /\ NoUser \notin UserIds
        BY AccountAssumption DEF IInv, TypeOK
      <3>2. actor[q] # NoUser => users'[actor[q]] # NoRow
        BY <1>1, <1>3, <3>1, AccountAssumption DEF Authority
      <3>3. changed'[q] = changed[q] \cup {t}
        BY <1>5
      <3>4. actor[q] # NoUser /\ actor[q] \notin changed'[q] =>
              actor[q] \notin changed[q] /\ users'[actor[q]] = users[actor[q]]
        BY <1>3, <3>1, <3>3
      <3>5. /\ pc'[q] = pc[q] /\ body'[q] = body[q] /\ actor'[q] = actor[q]
            /\ actorLevel'[q] = actorLevel[q] /\ allowed' = allowed /\ overruled' = overruled
        BY <1>2, <1>3 DEF OthersSame
      <3> QED
        BY <3>1, <3>2, <3>4, <3>5 DEF Authority, Open
    <2>6. StaysFeasible(q)'
      BY <1>2, <1>5 DEF OthersSame, StaysFeasible, Open
    <2> QED
      BY <2>1, <2>2, <2>3, <2>4, <2>5, <2>6
  <1>9. FeasibleArrived' /\ IdsAreTaken' /\ TargetsDiffer'
    <2>1. FeasibleArrived'
      BY <1>2, <1>3 DEF IInv, OthersSame, FeasibleArrived, TypeOK
    <2>2. IdsAreTaken'
      BY <1>1, <1>3 DEF IInv, IdsAreTaken
    <2>3. TargetsDiffer'
      BY <1>2 DEF IInv, OthersSame, TargetsDiffer, Holds
    <2> QED
      BY <2>1, <2>2, <2>3
  <1>10. NamesAreUnique'
    <2>1. \A u \in Existing(users) \ {t} : users[u].login # row[r].login /\ users[u].username # row[r].username
      BY <1>1 DEF IInv, LoginIsFree, UsernameIsFree
    <2>2. \A u \in Existing(users) \ {t} : users'[u] = users[u]
      BY <1>3 DEF Existing
    <2>3. \A u, v \in Existing(users) :
             users[u].login = users[v].login \/ users[u].username = users[v].username => u = v
      BY DEF IInv, NamesAreUnique, UniqueNames
    <2> QED
      BY <1>3, <1>4, <2>1, <2>2, <2>3 DEF NamesAreUnique, UniqueNames
  <1>11. RefusalsHaveCause'
    <2> SUFFICES ASSUME NEW q \in feasible', answer'[q] \in {400, 401, 403, 404}
                 PROVE  changed'[q] # {} \/ q \in overruled'
      BY DEF RefusalsHaveCause
    <2>1. q \in feasible /\ q \in Requests \ {r}
      BY <1>2, <1>3 DEF IInv, TypeOK
    <2>2. changed[q] # {} \/ q \in overruled
      BY <1>2, <2>1 DEF IInv, RefusalsHaveCause, OthersSame
    <2>3. changed[q] \subseteq changed'[q] /\ overruled' = overruled
      BY <1>3, <1>5, <2>1
    <2> QED
      BY <2>2, <2>3
  <1> QED
    BY <1>6, <1>7, <1>8, <1>9, <1>10, <1>11 DEF IInv

\* So does a change of the setting.
LEMMA SetSettingKeeps ==
  ASSUME IInv, NEW r \in Requests, SetSetting(r)
  PROVE  IInv'
  <1>1. Open(r) /\ pc[r] = "set" /\ body[r] \in Body
    BY OpenRequest DEF SetSetting, Open
  <1>2. /\ pc'[r] = "done" /\ answer'[r] = 200 /\ ~Holds(r)' /\ ~Open(r)' /\ body'[r] = body[r]
        /\ OthersSame(r)
    BY DEF SetSetting, End, Goto, IInv, TypeOK, Holds, Open, OthersSame, requestVars
  <1>3. UNCHANGED <<users, lastUser, feasible, changed>> /\ overruled \subseteq overruled'
    BY DEF SetSetting
  <1>4. \A q \in Requests \ {r} : Open(q) => q \in overruled'
    BY DEF SetSetting
  <1>5. Given(body[r].allow, allowed) \in Flag
    BY <1>1 DEF IInv, TypeOK, Body, Given
  <1>6. TypeOK'
    BY <1>5 DEF SetSetting, End, Goto, IInv, TypeOK, requestVars, Step
  <1>7. Shape(r)' /\ Written(r)' /\ LoginIsFree(r)' /\ UsernameIsFree(r)' /\ Authority(r)' /\ StaysFeasible(r)'
    BY <1>1, <1>2 DEF IInv, Shape, Written, LoginIsFree, UsernameIsFree, Authority, StaysFeasible, Holding
  <1>8. ASSUME NEW q \in Requests \ {r}
        PROVE  /\ Shape(q)' /\ Written(q)' /\ LoginIsFree(q)' /\ UsernameIsFree(q)'
               /\ Authority(q)' /\ StaysFeasible(q)'
    <2>1. Shape(q)' /\ Written(q)'
      BY <1>2, <1>3 DEF IInv, OthersSame, Shape, Written, Open, Holds
    <2>2. LoginIsFree(q)'
      BY <1>2, <1>3 DEF IInv, OthersSame, LoginIsFree, Existing
    <2>3. UsernameIsFree(q)'
      BY <1>2, <1>3 DEF IInv, OthersSame, UsernameIsFree, Existing
    <2>4. Authority(q)'
      BY <1>2, <1>3, <1>4 DEF IInv, OthersSame, Authority, Open
    <2>5. StaysFeasible(q)'
      BY <1>2, <1>4 DEF OthersSame, StaysFeasible, Open
    <2> QED
      BY <2>1, <2>2, <2>3, <2>4, <2>5
  <1>9. FeasibleArrived' /\ IdsAreTaken' /\ TargetsDiffer' /\ NamesAreUnique'
    <2>1. FeasibleArrived'
      BY <1>2, <1>3 DEF IInv, OthersSame, FeasibleArrived, TypeOK
    <2>2. IdsAreTaken' /\ NamesAreUnique'
      BY <1>3 DEF IInv, IdsAreTaken, NamesAreUnique, UniqueNames, Existing
    <2>3. TargetsDiffer'
      BY <1>2 DEF IInv, OthersSame, TargetsDiffer, Holds
    <2> QED
      BY <2>1, <2>2, <2>3
  <1>10. RefusalsHaveCause'
    <2> SUFFICES ASSUME NEW q \in feasible', answer'[q] \in {400, 401, 403, 404}
                 PROVE  changed'[q] # {} \/ q \in overruled'
      BY DEF RefusalsHaveCause
    <2>1. q \in feasible /\ q \in Requests \ {r}
      BY <1>2, <1>3 DEF IInv, TypeOK
    <2> QED
      BY <1>2, <1>3, <2>1 DEF IInv, RefusalsHaveCause, OthersSame
  <1> QED
    BY <1>6, <1>7, <1>8, <1>9, <1>10 DEF IInv

LEMMA ViewsKeep ==
  ASSUME IInv, NEW r \in Requests, ViewUsers(r) \/ ViewSettings(r)
  PROVE  IInv'
  <1>1. CASE ViewUsers(r)
    <2>1. Open(r) /\ body[r].route = "users_view"
      BY <1>1, RouteOfStep DEF ViewUsers, Open
    <2>2. CASE body[r].viewed \cap Existing(users) = {}
      <3>1. r \in feasible => changed[r] # {} \/ r \in overruled
        BY <2>1, <2>2, OpenRequest DEF Feasible
      <3> QED
        BY <1>1, <2>1, <2>2, <3>1, Ended DEF ViewUsers
    <2>3. CASE body[r].viewed \cap Existing(users) # {}
      BY <1>1, <2>1, <2>3, Ended DEF ViewUsers
    <2> QED
      BY <2>2, <2>3
  <1>2. CASE ViewSettings(r)
    <2>1. Open(r) /\ body[r].route = "settings_view"
      BY <1>2, RouteOfStep DEF ViewSettings, Open
    <2>2. r \in feasible => changed[r] # {} \/ r \in overruled
      BY <2>1, OpenRequest DEF Feasible
    <2> QED
      BY <1>2, <2>1, <2>2, Ended DEF ViewSettings
  <1> QED
    BY <1>1, <1>2

\* A request that is aborted changes nothing of the others.
LEMMA FailuresKeep ==
  ASSUME IInv, NEW r \in Requests, AbortDeadlocked(r) \/ Fail(r)
  PROVE  IInv'
  <1>1. Open(r)
    <2>1. CASE AbortDeadlocked(r)
      <3>1. \E q \in Requests : WaitsFor(r, q)
        BY <2>1 DEF AbortDeadlocked, Deadlocked
      <3> QED
        BY <3>1 DEF WaitsFor, Open
    <2> QED
      BY <2>1 DEF Fail
  <1> QED
    BY <1>1, Ended DEF AbortDeadlocked, Fail

-----------------------------------------------------------------------------
(* The invariant *)

LEMMA InitHolds ==
  ASSUME Init
  PROVE  IInv
  <1>1. PICK k \in 0 .. MaxUser : DOMAIN FirstUsers = 1 .. k /\ lastUser = k
    BY DEF Init
  <1>2. \A u \in DOMAIN FirstUsers : u \in UserIds /\ FirstUsers[u] \in UserRow
    BY <1>1, FirstUsersAreUnique, AccountAssumption DEF UserIds
  <1>3. /\ users \in [UserIds -> UserRow \cup {NoRow}]
        /\ \A u \in Existing(users) : u \in DOMAIN FirstUsers /\ users[u] = FirstUsers[u]
    BY <1>2 DEF Init, Existing
  <1>4. TypeOK
    BY <1>1, <1>3, FirstUsersAreUnique DEF Init, TypeOK, Step, Level
  <1>5. \A r \in Requests : pc[r] = "new" /\ ~Open(r) /\ ~Holds(r) /\ body[r] = NoBody /\ answer[r] = 0
    BY DEF Init, Open, Holds
  <1>6. \A r \in Requests : Shape(r) /\ Written(r) /\ LoginIsFree(r) /\ UsernameIsFree(r)
    BY <1>5 DEF Shape, Written, LoginIsFree, UsernameIsFree, Holding
  <1>7. \A r \in Requests : Authority(r) /\ StaysFeasible(r)
    BY <1>5 DEF Authority, StaysFeasible
  <1>8. FeasibleArrived /\ TargetsDiffer /\ RefusalsHaveCause
    BY <1>5 DEF Init, FeasibleArrived, TargetsDiffer, RefusalsHaveCause
  <1>9. IdsAreTaken
    BY <1>1, <1>3 DEF IdsAreTaken, Existing
  <1>10. NamesAreUnique
    BY <1>3, FirstUsersAreUnique DEF NamesAreUnique, UniqueNames
  <1> QED
    BY <1>4, <1>6, <1>7, <1>8, <1>9, <1>10 DEF IInv

LEMMA StutterHolds ==
  ASSUME IInv, UNCHANGED vars
  PROVE  IInv'
  <1>1. TypeOK' /\ FeasibleArrived' /\ IdsAreTaken' /\ NamesAreUnique' /\ RefusalsHaveCause'
    BY DEF IInv, vars, tableVars, requestVars, writeVars, historyVars, TypeOK, FeasibleArrived, IdsAreTaken,
           NamesAreUnique, UniqueNames, Existing, RefusalsHaveCause
  <1>2. \A r \in Requests : Shape(r)' /\ Written(r)' /\ Authority(r)'
    BY DEF IInv, vars, tableVars, requestVars, writeVars, historyVars, Shape, Written, Authority, Open, Holds
  <1>3. \A r \in Requests : LoginIsFree(r)' /\ UsernameIsFree(r)'
    BY DEF IInv, vars, tableVars, requestVars, writeVars, historyVars, LoginIsFree, UsernameIsFree, Existing
  <1>4. \A r \in Requests : StaysFeasible(r)'
    BY SameFeasible DEF IInv, vars, tableVars, requestVars, writeVars, historyVars, StaysFeasible, Open
  <1>5. TargetsDiffer'
    BY DEF IInv, vars, writeVars, TargetsDiffer, Holds
  <1> QED
    BY <1>1, <1>2, <1>3, <1>4, <1>5 DEF IInv

LEMMA StepHolds ==
  ASSUME IInv, [Next]_vars
  PROVE  IInv'
  <1>1. CASE UNCHANGED vars
    BY <1>1, StutterHolds
  <1>2. CASE Next
    <2>1. PICK r \in Requests : Begin(r) \/ Work(r) \/ Fail(r)
      BY <1>2 DEF Next
    <2> QED
      BY <2>1, BeginKeeps, ReadSettingKeeps, InsertUserKeeps, CheckPasswordKeeps, LockUserKeeps, EnterLoginKeeps,
         EnterUsernameKeeps, CommitKeeps, SetSettingKeeps, ViewsKeep, FailuresKeep DEF Work
  <1> QED
    BY <1>1, <1>2

\* What requests hold, what they have entered and what they were allowed on agree with the
\* tables in every reachable state: the invariant the other theorems follow from.
\* (db_operations/users.py, auth/route_checks/users.py, auth/route_checks/auth.py.)
THEOREM InductiveInvariant == Spec => []IInv
  BY InitHolds, StepHolds, PTL DEF Spec

\* The tables and what requests hold have their types: rows that omit fields are still
\* rows, and the sequence of ids is not overrun.  (add_user, update_user.)
THEOREM TypeCorrect == Spec => []TypeOK
  <1>1. IInv => TypeOK
    BY DEF IInv
  <1> QED
    BY <1>1, InductiveInvariant, PTL

\* No two users have one login or one username, whoever registers and renames users at the
\* same time.  (add_user, update_user, and the unique columns of users.)
THEOREM NamesStayUnique == Spec => []NamesAreUnique
  <1>1. IInv => NamesAreUnique
    BY DEF IInv
  <1> QED
    BY <1>1, InductiveInvariant, PTL

\* A request that was possible when it arrived is refused only because of what others have
\* committed since.  (The checks of auth/route_checks, and UniqueViolation.)
THEOREM RefusalsExplained == Spec => []RefusalsHaveCause
  <1>1. IInv => RefusalsHaveCause
    BY DEF IInv
  <1> QED
    BY <1>1, InductiveInvariant, PTL

-----------------------------------------------------------------------------
(* Steps of the system as steps of a user's request *)

\* A request answered 200 that writes has committed or set the setting in that step.
LEMMA WhoWrites ==
  ASSUME IInv, NEW p \in Requests, Begin(p) \/ Work(p) \/ Fail(p), NEW r \in Requests,
         answer'[r] = 200, answer[r] # 200, body'[r].route \in Writers
  PROVE  r = p /\ (Commit(p) \/ SetSetting(p))
  <1>1. \A s \in Int : End(p, s) => answer' = [answer EXCEPT ![p] = s]
    BY DEF End
  <1>2. CASE Begin(p)
    <2>1. PICK b, i, level : \/ answer' = answer
                            \/ answer' = [answer EXCEPT ![p] = Refusal(b, i, level)]
      BY <1>2 DEF Begin, End
    <2>2. Refusal(b, i, level) \in {0, 401, 403}
      BY DEF Refusal
    <2> QED
      BY <2>1, <2>2 DEF IInv, TypeOK
  <1>3. CASE ReadSetting(p) \/ InsertUser(p) \/ CheckPassword(p) \/ LockUser(p)
    <2>1. answer' = answer \/ \E s \in {400, 403, 404} : answer' = [answer EXCEPT ![p] = s]
      BY <1>1, <1>3 DEF ReadSetting, InsertUser, CheckPassword, LockUser
    <2> QED
      BY <2>1 DEF IInv, TypeOK
  <1>4. CASE EnterLogin(p) \/ EnterUsername(p) \/ AbortDeadlocked(p) \/ Fail(p)
    <2>1. answer' = answer \/ \E s \in {400, 500} : answer' = [answer EXCEPT ![p] = s]
      BY <1>1, <1>4 DEF EnterLogin, EnterUsername, AbortDeadlocked, Fail
    <2> QED
      BY <2>1 DEF IInv, TypeOK
  <1>5. CASE ViewUsers(p) \/ ViewSettings(p)
    <2>1. body[p].route \notin Writers
      BY <1>5, RouteOfStep DEF ViewUsers, ViewSettings, Writers
    <2>2. body' = body /\ \E s \in {200, 404} : answer' = [answer EXCEPT ![p] = s]
      BY <1>1, <1>5 DEF ViewUsers, ViewSettings, requestVars
    <2> QED
      BY <2>1, <2>2 DEF IInv, TypeOK
  <1>6. CASE Commit(p) \/ SetSetting(p)
    <2>1. answer' = [answer EXCEPT ![p] = 200]
      BY <1>1, <1>6 DEF Commit, SetSetting
    <2> QED
      BY <1>6, <2>1 DEF IInv, TypeOK
  <1> QED
    BY <1>2, <1>3, <1>4, <1>5, <1>6 DEF Work

\* A writer may still do what it does, unless others have changed its issuer or the setting.
LEMMA WritersAreEntitled ==
  ASSUME IInv, NEW r \in Requests, Commit(r) \/ SetSetting(r)
  PROVE  Entitled(r) \/ actor[r] \in changed[r] \/ r \in overruled
  <1> SUFFICES ASSUME actor[r] \notin changed[r], r \notin overruled
               PROVE  Entitled(r)
    OBVIOUS
  <1> DEFINE b == body[r]
             i == actor[r]
  <1>1. Open(r) /\ pc[r] \in {"commit", "set"}
    BY DEF Commit, SetSetting, Open
  <1>2. /\ Refusal(b, i, actorLevel[r]) = 0
        /\ i = NoUser => actorLevel[r] # "admin"
        /\ i # NoUser => users[i].level = actorLevel[r] /\ users[i].canLogin = "yes"
        /\ i # NoUser /\ b.route = "users_update" => users[i].password = b.given
        /\ b.route = "register" /\ actorLevel[r] # "admin" => ~SetsPrivileges(b) /\ allowed = "yes"
    BY <1>1 DEF IInv, Authority
  <1>3. i = NoUser => ~NeedsLogin(b)
    BY <1>2 DEF Refusal
  <1>4. actorLevel[r] # "admin" => ~AsksTooMuch(b, i)
    BY <1>2 DEF Refusal
  <1>5. b.route = "register" => (i # NoUser /\ users[i].level = "admin")
                                \/ (i = NoUser /\ allowed = "yes" /\ ~SetsPrivileges(b))
    BY <1>2, <1>4 DEF AsksTooMuch
  <1>6. b.route = "users_update" => /\ i # NoUser /\ users[i].password = b.given
                                    /\ users[i].level = "admin" \/ (b.user = i /\ ~SetsPrivileges(b))
    BY <1>2, <1>3, <1>4 DEF AsksTooMuch, NeedsLogin
  <1>7. b.route = "settings_update" => i # NoUser /\ users[i].level = "admin"
    BY <1>2, <1>3, <1>4 DEF AsksTooMuch, NeedsLogin
  <1> QED
    BY <1>2, <1>5, <1>6, <1>7 DEF Entitled

\* What takes effect was still allowed at that moment, unless another request changed its
\* issuer or the setting while it ran.  (auth_middleware reads the level once,
\* authorize_user_registration_by_non_admin the setting, validate_user_update_issuer the
\* password, each in a statement before the one that writes.)
THEOREM AuthorityHolds == Spec => AuthorityIsRecent
  <1> DEFINE Recent ==
          \A r \in Requests :
              pc[r] # "done" /\ pc'[r] = "done" /\ answer'[r] = 200 /\ body[r].route \in Writers =>
                  Entitled(r) \/ actor[r] \in changed[r] \/ r \in overruled
  <1>1. ASSUME IInv, Next
        PROVE  Recent
    <2> USE <1>1
    <2> SUFFICES ASSUME NEW r \in Requests, pc[r] # "done", answer'[r] = 200, body[r].route \in Writers
                 PROVE  Entitled(r) \/ actor[r] \in changed[r] \/ r \in overruled
      OBVIOUS
    <2>1. PICK p \in Requests : Begin(p) \/ Work(p) \/ Fail(p)
      BY DEF Next
    <2>2. pc[r] # "new"
      BY DEF IInv, Shape, NoBody, Writers
    <2>3. answer[r] # 200
      BY <2>2 DEF IInv, Shape, Open
    <2>4. body'[r] = body[r]
      <3>1. CASE Begin(p)
        BY <2>2, <3>1 DEF Begin, IInv, TypeOK
      <3>2. CASE Work(p) \/ Fail(p)
        BY <3>2 DEF Work, Fail, ReadSetting, InsertUser, CheckPassword, LockUser, EnterLogin, EnterUsername,
                    Commit, SetSetting, ViewUsers, ViewSettings, AbortDeadlocked, requestVars
      <3> QED
        BY <2>1, <3>1, <3>2
    <2> QED
      BY <2>1, <2>3, <2>4, WhoWrites, WritersAreEntitled
  <1> HIDE DEF Recent
  <1>2. Spec => [][Recent]_vars
    BY <1>1, InductiveInvariant, PTL DEF Spec
  <1> QED
    BY <1>2 DEF AuthorityIsRecent, Recent

-----------------------------------------------------------------------------
(* The store *)

\* The operators of AccountData in both modules are the same.
LEMMA StoreData ==
  /\ Store!UserIds = UserIds /\ Store!UserRow = UserRow /\ Store!Flag = Flag
  /\ Store!NoBody = NoBody /\ Store!Defaults = Defaults
  /\ \A t : Store!Existing(t) = Existing(t)
  /\ \A t : Store!UniqueNames(t) <=> UniqueNames(t)
  /\ \A old, b : Store!Merged(old, b) = Merged(old, b)
  /\ \A n, o : Store!Given(n, o) = Given(n, o)
  BY DEF Store!UserIds, UserIds, Store!UserRow, UserRow, Store!Flag, Flag, Store!Level, Level, Store!NoBody, NoBody,
         Store!Defaults, Defaults, Store!Existing, Existing, Store!UniqueNames, UniqueNames,
         Store!Merged, Merged, Store!Given, Given

\* A commit is the registration or the update.
LEMMA CommitServes ==
  ASSUME IInv, IInv', NEW r \in Requests, Commit(r), Served' = Served \cup {r}, r \notin Served
  PROVE  Store!Register(r) \/ Store!Update(r)
  <1>1. /\ Holds(r) /\ Written(r) /\ Shape(r) /\ body' = body /\ allowed' = allowed
        /\ users' = [users EXCEPT ![target[r]] = row[r]]
    BY DEF IInv, Commit, Shape, Holding, requestVars
  <1>2. /\ body[r] \in Bodies /\ body[r] # NoBody /\ body[r].route \in {"register", "users_update"}
        /\ target[r] \in UserIds
    BY <1>1, HoldersWrite, BodiesAreAsked
  <1>3. UniqueNames(users')
    BY DEF IInv, NamesAreUnique, UniqueNames, Existing
  <1>4. \A route : body[r].route = route => Store!Serve(r, route)
    BY <1>1, <1>2, StoreData DEF Store!Serve
  <1>5. CASE body[r].route = "register"
    <2>1. target[r] \in UserIds \ Existing(users) /\ row[r] = Merged(Defaults, body[r])
      BY <1>1, <1>2, <1>5 DEF Written, Existing
    <2> QED
      BY <1>1, <1>3, <1>4, <1>5, <2>1, StoreData DEF Store!Register
  <1>6. CASE body[r].route = "users_update"
    <2>1. /\ target[r] = body[r].user /\ target[r] \in Existing(users)
          /\ row[r] = Merged(users[target[r]], body[r])
      BY <1>1, <1>2, <1>6 DEF Written, Existing
    <2> QED
      BY <1>1, <1>3, <1>4, <1>6, <2>1, StoreData DEF Store!Update
  <1> QED
    BY <1>2, <1>5, <1>6

\* A step of a request is a step of the store, or none.
LEMMA StepImplements ==
  ASSUME IInv, IInv', NEW p \in Requests, Begin(p) \/ Work(p) \/ Fail(p)
  PROVE  Store!StoreNext \/ UNCHANGED <<users, allowed, body, Served>>
  <1>1. CASE Begin(p)
    <2>1. PICK b \in Bodies : body' = [body EXCEPT ![p] = b]
      BY <1>1 DEF Begin
    <2>2. body[p] = NoBody /\ UNCHANGED <<users, allowed>>
      BY <1>1 DEF Begin, tableVars, IInv, Shape
    <2>3. \A r \in Requests : answer'[r] = 200 /\ body'[r].route \in Writers => answer[r] = 200
      BY <1>1, WhoWrites DEF Begin, Commit, SetSetting
    <2>4. \A r \in Requests : r # p => answer'[r] = answer[r] /\ body'[r] = body[r]
      BY <1>1 DEF Begin, End, IInv, TypeOK
    <2>5. p \notin Served /\ p \notin Served'
      BY <1>1, <2>3 DEF Begin, IInv, Shape, Served
    <2>6. Served' = Served
      BY <2>4, <2>5 DEF Served
    <2>7. Store!Ask(p)
      BY <2>1, <2>2, <2>6, StoreData DEF Store!Ask
    <2> QED
      BY <2>7 DEF Store!StoreNext
  <1>2. CASE Commit(p) \/ SetSetting(p)
    <2>1. /\ body' = body /\ answer' = [answer EXCEPT ![p] = 200] /\ answer[p] = 0
          /\ body[p] \in Bodies /\ body[p] # NoBody /\ body[p].route \in Writers
      <3>1. Open(p)
        BY <1>2 DEF Commit, SetSetting, Open
      <3>2. body[p].route \in Writers
        BY <1>2, <3>1, OpenRequest DEF Commit, SetSetting, StepsOf, Holding, Writers, Readers
      <3> QED
        BY <1>2, <3>1, <3>2, OpenRequest, BodiesAreAsked DEF Commit, SetSetting, End, requestVars, IInv, Shape
    <2>2. Served' = Served \cup {p} /\ p \notin Served
      BY <2>1 DEF Served, IInv, TypeOK
    <2>3. CASE Commit(p)
      BY <2>2, <2>3, CommitServes DEF Store!StoreNext
    <2>4. CASE SetSetting(p)
      <3>1. /\ body[p].route = "settings_update" /\ users' = users
            /\ allowed' = Given(body[p].allow, allowed)
        BY <2>4, RouteOfStep DEF SetSetting
      <3>2. Store!Allow(p)
        BY <2>1, <2>2, <3>1, StoreData DEF Store!Allow, Store!Serve
      <3> QED
        BY <3>2 DEF Store!StoreNext
    <2> QED
      BY <1>2, <2>3, <2>4
  <1>3. ASSUME ~Begin(p), ~Commit(p), ~SetSetting(p)
        PROVE  UNCHANGED <<users, allowed, body, Served>>
    <2>1. UNCHANGED <<users, allowed, body>>
      BY <1>3 DEF Work, Fail, ReadSetting, InsertUser, CheckPassword, LockUser, EnterLogin, EnterUsername,
                  ViewUsers, ViewSettings, AbortDeadlocked, tableVars, requestVars
    <2>2. \A r \in Requests : answer'[r] = 200 /\ body'[r].route \in Writers => answer[r] = 200
      BY <1>3, WhoWrites
    <2>3. \A r \in Requests : answer[r] = 200 => answer'[r] = 200
      <3>1. Open(p)
        BY <1>3 DEF Work, Fail, ReadSetting, InsertUser, CheckPassword, LockUser, EnterLogin, EnterUsername,
                    ViewUsers, ViewSettings, AbortDeadlocked, Deadlocked, WaitsFor, Open
      <3>2. answer[p] = 0
        BY <3>1 DEF IInv, Shape
      <3>3. \A r \in Requests : r # p => answer'[r] = answer[r]
        BY <1>3 DEF Work, Fail, ReadSetting, InsertUser, CheckPassword, LockUser, EnterLogin, EnterUsername,
                    ViewUsers, ViewSettings, AbortDeadlocked, End, IInv, TypeOK
      <3> QED
        BY <3>2, <3>3
    <2> QED
      BY <2>1, <2>2, <2>3 DEF Served
  <1> QED
    BY <1>1, <1>2, <1>3

\* Every request takes effect at one moment or not at all, and does to the row that is there
\* at that moment what its body says: the statements of requests, however they overlap,
\* implement AccountStore.  (add_user, update_user, update_settings.)
THEOREM ImplementsStore == Spec => RequestsAreAtomic
  <1>1. Init => Store!StoreInit
    <2> SUFFICES ASSUME Init
                 PROVE  Store!StoreInit
      OBVIOUS
    <2>1. TypeOK /\ UniqueNames(users)
      BY InitHolds DEF IInv, NamesAreUnique
    <2>2. Served = {}
      BY DEF Init, Served
    <2> QED
      BY <2>1, <2>2, StoreData DEF Init, TypeOK, Store!StoreInit
  <1>2. ASSUME IInv, IInv', [Next]_vars
        PROVE  [Store!StoreNext]_(Store!storeVars)
    <2>1. CASE UNCHANGED vars
      BY <2>1 DEF vars, tableVars, requestVars, Served, Store!storeVars
    <2>2. CASE Next
      <3>1. PICK p \in Requests : Begin(p) \/ Work(p) \/ Fail(p)
        BY <2>2 DEF Next
      <3> QED
        BY <1>2, <3>1, StepImplements DEF Store!storeVars
    <2> QED
      BY <1>2, <2>1, <2>2
  <1> QED
    BY <1>1, <1>2, InductiveInvariant, PTL DEF Spec, RequestsAreAtomic, Store!StoreSpec

=================================================================================
