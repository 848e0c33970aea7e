--------------------------- MODULE MCRegistration ---------------------------
(* Registration on a small instance; requests and addresses are each alike. *)
EXTENDS Registration, TLC

Symmetry == Permutations(Req) \cup Permutations(Email)
=============================================================================
