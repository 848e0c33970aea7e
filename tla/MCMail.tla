------------------------------- MODULE MCMail -------------------------------
(* Instance of Mail for TLC. *)
EXTENDS Mail, TLC

CONSTANTS m1, m2
Mails == {m1, m2}
=============================================================================
