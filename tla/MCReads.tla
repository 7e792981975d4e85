--------------------------------- MODULE MCReads ---------------------------------
\* Instance of Reads: three composites that may form cycles, a leaf shared between
\* two of them, a composite yet to be added, and a tag.  The index holds two rows of
\* one composite.
EXTENDS Reads

CONSTANTS c1, c2, c3, c4, l1, t1

MCLinks == {<<c1, c2>>, <<c1, c3>>, <<c2, c3>>, <<c3, c1>>, <<c3, c4>>, <<c2, l1>>, <<c3, l1>>}

MCIndexed == [i \in Items |-> IF i = c1 THEN 2 ELSE IF i \in {c2, t1} THEN 1 ELSE 0]

Hierarchy(sender, root) ==
    [route |-> "hierarchy", sender |-> sender, root |-> root, excluded |-> {}, first |-> 0, limit |-> 1]
Page(route, sender, first, limit) ==
    [route |-> route, sender |-> sender, root |-> c1, excluded |-> {}, first |-> first, limit |-> limit]

MCQueries ==
    {Hierarchy("other", c1), Hierarchy("admin", l1),
     Page("page", "other", 1, 1), Page("global", "other", 0, 2),
     [Page("search", "other", 0, 1) EXCEPT !.excluded = {c1}]}
==================================================================================
