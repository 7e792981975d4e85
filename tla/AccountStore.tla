------------------------------ MODULE AccountStore ------------------------------
(***************************************************************************)
(* What the store of users and of the setting promises: a request takes    *)
(* effect once, at one moment, and then does to the users there are at     *)
(* that moment what it asked for and nothing else; names stay unique.      *)
(***************************************************************************)
EXTENDS AccountData

VARIABLES
    users,   \* id -> row, or NoRow
    allowed, \* may those who are no admins register?
    asked,   \* what each request asks for
    served   \* the requests that have taken effect

storeVars == <<users, allowed, asked, served>>

StoreInit ==
    /\ users \in [UserIds -> UserRow \cup {NoRow}] /\ UniqueNames(users)
    /\ allowed \in Flag
    /\ asked = [r \in Requests |-> NoBody]
    /\ served = {}

Ask(r) ==
    /\ asked[r] = NoBody
    /\ \E b \in Bodies : asked' = [asked EXCEPT ![r] = b]
    /\ UNCHANGED <<users, allowed, served>>

Serve(r, route) ==
    /\ r \notin served /\ served' = served \cup {r}
    /\ asked[r] # NoBody /\ asked[r].route = route
    /\ UNCHANGED asked

Register(r) ==
    /\ Serve(r, "register")
    /\ \E u \in UserIds \ Existing(users) : users' = [users EXCEPT ![u] = Merged(Defaults, asked[r])]
    /\ UniqueNames(users')
    /\ UNCHANGED allowed

Update(r) ==
    LET u == asked[r].user IN
    /\ Serve(r, "users_update")
    /\ u \in Existing(users)
    /\ users' = [users EXCEPT ![u] = Merged(users[u], asked[r])]
    /\ UniqueNames(users')
    /\ UNCHANGED allowed

Allow(r) ==
    /\ Serve(r, "settings_update")
    /\ allowed' = Given(asked[r].allow, allowed)
    /\ UNCHANGED users

StoreNext == \E r \in Requests : Ask(r) \/ Register(r) \/ Update(r) \/ Allow(r)
StoreSpec == StoreInit /\ [][StoreNext]_storeVars

=============================================================================
