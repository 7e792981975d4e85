--------------------------------- MODULE MCObjects ---------------------------------
(* Instances of Objects for TLC: a link that two composite objects share, a to-do  *)
(* list in one of them, and the requests that meet on them.                        *)
EXTENDS Objects, TLC

CONSTANTS r1, r2, u, w

Start ==
    [objects |-> {[id |-> 1, type |-> "link", owner |-> u, published |-> FALSE, by |-> NoOne],
                  [id |-> 2, type |-> "composite", owner |-> u, published |-> FALSE, by |-> NoOne],
                  [id |-> 3, type |-> "to_do_list", owner |-> u, published |-> TRUE, by |-> NoOne]},
     data |-> {[id |-> 1, table |-> "link", by |-> NoOne], [id |-> 2, table |-> "composite", by |-> NoOne],
               [id |-> 3, table |-> "to_do_list", by |-> NoOne]},
     items |-> {[id |-> 2, sub |-> 1, by |-> NoOne], [id |-> 2, sub |-> 3, by |-> NoOne], [id |-> 3, sub |-> 0, by |-> NoOne]}]
RequestSymmetry == Permutations(Requests)

Blank == [NoBody EXCEPT !.issuer = w]
Say(type, owner) == [type |-> type, owner |-> owner, published |-> FALSE]
Only(c, spec) == [x \in Refs |-> IF x = c THEN spec ELSE NoSpec]
Both(c, spec, d, other) == [x \in Refs |-> IF x = c THEN spec ELSE IF x = d THEN other ELSE NoSpec]

Untyped ==
    { \* 2 loses its link 1, marked for full deletion, and gets a new list before 3
      [Blank EXCEPT !.route = "update", !.issuer = u, !.main = 2, !.links = {<<2, 3>>, <<2, -1>>}, !.gone = {1},
                    !.writes = Both(2, Say("composite", Unset), -1, Say("to_do_list", Unset))],
      \* a new composite object takes 1 and rewrites 3, as what it is and as what it is not
      [Blank EXCEPT !.route = "add", !.main = -1, !.links = {<<-1, 1>>, <<-1, 3>>},
                    !.writes = Both(-1, Say("composite", w), 3, Say("to_do_list", w))],
      [Blank EXCEPT !.route = "add", !.issuer = u, !.main = -1, !.links = {<<-1, 3>>},
                    !.writes = Both(-1, Say("composite", u), 3, Say("link", u))],
      [Blank EXCEPT !.route = "add", !.issuer = u, !.main = -1, !.writes = Only(-1, Say("markdown", w))],
      [Blank EXCEPT !.route = "update", !.issuer = u, !.main = 1, !.writes = Only(1, Say("link", Unset))],
      [Blank EXCEPT !.route = "update", !.main = 1, !.writes = Only(1, Say("link", w))] }
Typed2 ==
    { \* a new composite object of a new link, and 2 with it
      [Blank EXCEPT !.route = "bulk_upsert", !.links = {<<-2, -1>>, <<2, 1>>},
                    !.writes = [x \in Refs |-> CASE x = -2 -> Say("composite", w) [] x = -1 -> Say("link", w)
                                                 [] x = 2 -> Say("composite", u) [] OTHER -> NoSpec]],
      [Blank EXCEPT !.route = "bulk_upsert", !.issuer = u, !.gone = {1}, !.writes = Only(3, Say("to_do_list", u))],
      \* a new link, and the deletion of the id it may be given
      [Blank EXCEPT !.route = "bulk_upsert", !.issuer = u, !.gone = {4}, !.writes = Only(-1, Say("link", u))] }
Others ==
    { [Blank EXCEPT !.route = "delete", !.issuer = u, !.gone = {2}, !.withSubobjects = TRUE],
      [Blank EXCEPT !.route = "delete", !.gone = {1, 3}],
      [Blank EXCEPT !.route = "delete", !.issuer = Anonymous, !.gone = {1}],
      [Blank EXCEPT !.route = "view", !.issuer = u, !.ids = {1}, !.dataIds = {2, 3}],
      [Blank EXCEPT !.route = "view", !.issuer = w, !.ids = {3}, !.dataIds = {1, 2, 3, 4}] }
AllBodies == Untyped \cup Typed2 \cup Others

=============================================================================
