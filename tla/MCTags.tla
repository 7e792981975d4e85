--------------------------------- MODULE MCTags ---------------------------------
(* Instances of Tags for TLC: five names of which two differ in case only, and the *)
(* bodies that meet on them.                                                       *)
EXTENDS Tags, Sequences, TLC

CONSTANTS a, A, b, c, d, o1, r1, r2

SmallNames == {a, A, b, c, d}
LowerCase == [n \in SmallNames |-> IF n = A THEN a ELSE n]
TwoTags == <<[name |-> b, published |-> TRUE], [name |-> c, published |-> TRUE]>>
OnePair == {<<o1, 1>>}
RequestSymmetry == Permutations(Requests)

Blank == [NoBody EXCEPT !.issuer = "admin"]
TagByName(ns, ts, gone) ==
    [Blank EXCEPT !.route = "update_tags", !.names = ns, !.ids = ts, !.objects = {o1}, !.removedIds = gone]
Rename(t, n, linked, unlinked) ==
    [Blank EXCEPT !.route = "tags_update", !.ids = {t}, !.names = {n}, !.published = FALSE,
                  !.objects = linked, !.removedFrom = unlinked]
Writers ==
    { TagByName({a, A, d}, {}, {}), TagByName({A, b, d}, {}, {}), TagByName({b, c}, {1}, {2}), Rename(1, c, {o1}, {}), Rename(2, b, {}, {o1}), Rename(1, b, {}, {}),
      Rename(2, A, {o1}, {o1}),
      [Blank EXCEPT !.route = "tags_add", !.names = {A}, !.objects = {o1}],
      [Blank EXCEPT !.route = "tags_delete", !.ids = {1, 2}],
      [TagByName({}, {2}, {1}) EXCEPT !.issuer = "user"] }
Refused == { [TagByName({a}, {}, {}) EXCEPT !.issuer = "user"], [Rename(1, a, {}, {}) EXCEPT !.issuer = "anonymous"] }
Readers ==
    { [Blank EXCEPT !.route = "page", !.names = {A, b, c}, !.first = 1],
      [Blank EXCEPT !.route = "search", !.issuer = "anonymous", !.names = {b, c}, !.ids = {2}],
      [Blank EXCEPT !.route = "view", !.issuer = "user", !.ids = {1}] }
AllBodies == Writers \cup Refused \cup Readers

=============================================================================
