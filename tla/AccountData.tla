------------------------------ MODULE AccountData ------------------------------
(***************************************************************************)
(* Rows of the table `users` and what requests ask of them: shared by the  *)
(* requests (Accounts) and by what they promise (AccountStore).            *)
(***************************************************************************)
EXTENDS Integers

CONSTANTS
    Logins, Usernames, Passwords,
    MaxUser,    \* bound: ids the sequence of users may give out
    Requests,
    Bodies,     \* what a request may ask for
    Keep,       \* a field the body does not set
    NoRow, NoUser

UserIds == 1 .. MaxUser
Level == {"admin", "user"}
Flag == {"yes", "no"}

UserRow == [login : Logins, username : Usernames, password : Passwords,
            level : Level, canLogin : Flag, canEdit : Flag]

Writers == {"register", "users_update", "settings_update"}
Readers == {"users_view", "settings_view"}

\* `user` is the updated user and `given` token_owner_password; `viewed` are the users of
\* a view, and `full` its full_view_mode (or view_all); `allow` is the setting.
Body == [route : Writers \cup Readers, user : UserIds, given : Passwords,
         login : Logins \cup {Keep}, username : Usernames \cup {Keep}, password : Passwords \cup {Keep},
         level : Level \cup {Keep}, canLogin : Flag \cup {Keep}, canEdit : Flag \cup {Keep},
         viewed : SUBSET UserIds, full : BOOLEAN, allow : Flag \cup {Keep}]
NoBody == [route |-> "none"]

ASSUME AccountAssumption ==
    /\ MaxUser \in Nat /\ NoRow \notin UserRow /\ NoUser \notin UserIds
    /\ Keep \notin Logins \cup Usernames \cup Passwords \cup Level \cup Flag
    /\ Bodies \subseteq Body
    /\ \A b \in Bodies : b.route = "register" => Keep \notin {b.login, b.username, b.password}

Existing(table) == {u \in UserIds : table[u] # NoRow}

\* The unique constraints of login and username.
UniqueNames(table) ==
    \A u, v \in Existing(table) :
        table[u].login = table[v].login \/ table[u].username = table[v].username => u = v

Given(new, old) == IF new = Keep THEN old ELSE new

\* model_dump(exclude_none=True): what the body gives replaces what there is.
Merged(row, b) ==
    [login |-> Given(b.login, row.login), username |-> Given(b.username, row.username),
     password |-> Given(b.password, row.password), level |-> Given(b.level, row.level),
     canLogin |-> Given(b.canLogin, row.canLogin), canEdit |-> Given(b.canEdit, row.canEdit)]

\* What a registration starts from; its body gives the other fields.
Defaults == [login |-> Keep, username |-> Keep, password |-> Keep,
             level |-> "user", canLogin |-> "yes", canEdit |-> "yes"]

=============================================================================
