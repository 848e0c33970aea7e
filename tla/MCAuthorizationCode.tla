------------------------ MODULE MCAuthorizationCode ------------------------
(* AuthorizationCode on small instances; the requests are interchangeable. *)
EXTENDS AuthorizationCode, TLC

Symmetry == Permutations(Req)
=============================================================================
