--------------------------------- MODULE MCAuth ---------------------------------
(* Instances of Auth for TLC. *)
EXTENDS Auth, TLC

CONSTANTS a1, u1, k1, k2, k3, k4, k5, s1, s2, r1, r2, r3, r4

RequestSymmetry == Permutations(Requests)

OneDelay == <<1>>
NoDelays == <<>>
NoSessions == <<>>
SessionOfAdmin == k1 :> a1
SessionOfUser == k1 :> u1
SessionsOfBoth == k1 :> a1 @@ k2 :> u1

=============================================================================
