----------------------------- MODULE MCAccount -----------------------------
(* Account on small instances; the requests are interchangeable. *)
EXTENDS Account, TLC

Symmetry == Permutations(Req)
=============================================================================
