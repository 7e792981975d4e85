------------------------------- MODULE MCAccounts -------------------------------
(* An instance of Accounts for TLC: an admin and a user, and the bodies that meet on *)
(* their rows and names.                                                             *)
EXTENDS Accounts, Sequences, TLC

CONSTANTS l1, l2, l3, n1, n2, n3, p1, p2, r1, r2

Row(l, n, w, lev) ==
    [login |-> l, username |-> n, password |-> w, level |-> lev, canLogin |-> "yes", canEdit |-> "yes"]
TwoUsers == <<Row(l1, n1, p1, "admin"), Row(l2, n2, p2, "user")>>

Blank == [route |-> "users_view", user |-> 1, given |-> p1, login |-> Keep, username |-> Keep,
          password |-> Keep, level |-> Keep, canLogin |-> Keep, canEdit |-> Keep,
          viewed |-> {1}, full |-> FALSE, allow |-> Keep]
Registration(l, n) == [Blank EXCEPT !.route = "register", !.login = l, !.username = n, !.password = p2]
Change(u, w) == [Blank EXCEPT !.route = "users_update", !.user = u, !.given = w]
Setting(flag) == [Blank EXCEPT !.route = "settings_update", !.allow = flag]

Registrations ==
    { Registration(l3, n3), Registration(l3, n2), Registration(l1, n3),
      [Registration(l2, n1) EXCEPT !.level = "admin", !.canEdit = "no"] }
Changes ==
    { [Change(2, p2) EXCEPT !.login = l1], [Change(1, p1) EXCEPT !.login = l2, !.username = n3],
      [Change(2, p2) EXCEPT !.login = l2, !.username = n1, !.password = p1],
      [Change(2, p1) EXCEPT !.level = "admin", !.canEdit = "no"],
      [Change(1, p1) EXCEPT !.level = "user", !.password = p2], [Change(2, p1) EXCEPT !.login = l3, !.canLogin = "no"],
      [Change(3, p1) EXCEPT !.username = n3] }
Views == { [Blank EXCEPT !.viewed = {2, 3}, !.full = TRUE], [Blank EXCEPT !.viewed = {2}, !.full = TRUE],
           [Blank EXCEPT !.viewed = {3}],
           [Blank EXCEPT !.route = "settings_view"], [Blank EXCEPT !.route = "settings_view", !.full = TRUE] }
AllBodies == Registrations \cup Changes \cup Views \cup {Setting("yes"), Setting("no")}

=============================================================================
