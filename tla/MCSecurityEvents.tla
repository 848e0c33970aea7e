-------------------------- MODULE MCSecurityEvents --------------------------
(* Instance of SecurityEvents for TLC. *)
EXTENDS SecurityEvents, TLC

CONSTANTS e1, e2
Events == {e1, e2}
=============================================================================
