------------------------------ MODULE ObjectStore ------------------------------
(***************************************************************************)
(* What the store of objects promises: documents that are written and      *)
(* deleted by whole requests.  A request takes effect once, at one moment; *)
(* a document keeps its type, contains documents there are, and a deleted  *)
(* one disappears from the others and never comes back.                    *)
(***************************************************************************)
EXTENDS FiniteSets

CONSTANTS Ids, Types, Requests, NoDoc, NoOne

VARIABLES
    docs,  \* id -> document, or NoDoc
    past,  \* ids that no document will have any more
    saved  \* the requests that have taken effect

storeVars == <<docs, past, saved>>

\* `by` is the request that wrote the document last.
Doc == [type : Types, contents : SUBSET Ids, by : Requests \cup {NoOne}]

Present(table) == {x \in Ids : table[x] # NoDoc}
WrittenBy(table, r) == {x \in Present(table) : table[x].by = r}

StoreInit ==
    /\ docs \in [Ids -> Doc \cup {NoDoc}]
    /\ \A x \in Present(docs) : docs[x].contents \subseteq Present(docs) /\ docs[x].by = NoOne
    /\ past \in SUBSET Ids /\ past \cap Present(docs) = {}
    /\ saved = {}

\* The documents that r writes are new, or keep their type; the others only lose what r
\* deletes.  It may delete one of its own that nobody has seen.
Save(r) ==
    /\ r \notin saved /\ saved' = saved \cup {r}
    /\ docs' \in [Ids -> Doc \cup {NoDoc}]
    /\ past' \in SUBSET Ids /\ past \cup (Present(docs) \ Present(docs')) \subseteq past'
    /\ past' \cap Present(docs') = {}
    /\ Present(docs') \ Present(docs) \subseteq WrittenBy(docs', r)
    /\ \A x \in Present(docs') :
          /\ docs'[x].contents \subseteq Present(docs')
          /\ x \in Present(docs) => docs'[x].type = docs[x].type
          /\ x \notin WrittenBy(docs', r) =>
                docs'[x] = [docs[x] EXCEPT !.contents = @ \cap Present(docs')]

\* Ids that were meant for the documents of a request that failed.
Waste ==
    /\ past' \in SUBSET Ids /\ past \subseteq past'
    /\ past' \cap Present(docs) = {}
    /\ UNCHANGED <<docs, saved>>

StoreNext == Waste \/ \E r \in Requests : Save(r)
StoreSpec == StoreInit /\ [][StoreNext]_storeVars

=============================================================================
