---------------------------- MODULE MCAccessToken ----------------------------
(* AccessToken on a small instance; the requests are interchangeable. *)
EXTENDS AccessToken, TLC

CONSTANTS p1, p2
Requests == {p1, p2}
Symmetry == Permutations(Requests)
=============================================================================
