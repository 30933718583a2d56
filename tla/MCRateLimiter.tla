----------------------------- MODULE MCRateLimiter -----------------------------
(***************************************************************************)
(* A small instance of RateLimiter: two keys with the same beginning, and  *)
(* a caller with a wrong key of that beginning.                            *)
(***************************************************************************)
EXTENDS RateLimiter, TLC

CONSTANTS r1, r2, r3, r4, p1, p2, k1, k2, k3

MCPrefix == [k \in Keys |-> 1]

Client(known, key) == [known |-> known, user |-> None, key |-> key, host |-> 1]

MCCallerOf == (r1 :> Client(TRUE, k1)) @@ (r2 :> Client(TRUE, k1)) @@ (r3 :> Client(TRUE, k2))
              @@ (r4 :> Client(FALSE, k3))

ProcessSymmetry == Permutations(Processes) \cup Permutations({r1, r2})
================================================================================
