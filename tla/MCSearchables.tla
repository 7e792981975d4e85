----------------------------- MODULE MCSearchables -----------------------------
(* Instances of Searchables for TLC. *)
EXTENDS Searchables, TLC

CONSTANTS t1, o1, o2, r1, r2, r3, j1

RequestSymmetry == Permutations(Requests)

=============================================================================
