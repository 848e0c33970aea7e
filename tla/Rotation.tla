------------------------------ MODULE Rotation ------------------------------
(***************************************************************************)
(* What refresh-token rotation promises about each credential: it becomes  *)
(* current once, is redeemed for at most one successor and only while it   *)
(* is current, and never becomes current again.  A family deletion may     *)
(* close a credential while its redemption is under way; what that         *)
(* redemption answers is stillborn: it is never current.                   *)
(***************************************************************************)
EXTENDS Naturals

CONSTANT MaxCred   \* bound: credentials ever stored

Cred == 1..MaxCred

VARIABLES
    status,  \* where each credential is in its life
    parent   \* the credential it was redeemed for, 0 for a login

Status == {"unborn", "current", "closed", "stillborn"}

Init ==
    /\ status = [c \in Cred |-> "unborn"]
    /\ parent = [c \in Cred |-> 0]

Redeemed(c) == \E d \in Cred : parent[d] = c

Login(c) ==
    /\ status[c] = "unborn"
    /\ status' = [status EXCEPT ![c] = "current"]
    /\ UNCHANGED parent

Redeem(c, d) ==
    /\ status[c] = "current"
    /\ status[d] = "unborn"
    /\ status' = [status EXCEPT ![c] = "closed", ![d] = "current"]
    /\ parent' = [parent EXCEPT ![d] = c]

RedeemTooLate(c, d) ==
    /\ status[c] = "closed"
    /\ ~ Redeemed(c)
    /\ status[d] = "unborn"
    /\ status' = [status EXCEPT ![d] = "stillborn"]
    /\ parent' = [parent EXCEPT ![d] = c]

\* A revocation closes one credential, a family deletion the family's.
Close ==
    /\ status' \in [Cred -> Status]
    /\ \A c \in Cred :
          status'[c] # status[c] => status[c] = "current" /\ status'[c] = "closed"
    /\ UNCHANGED parent

Next ==
    \/ Close
    \/ \E c \in Cred : Login(c)
    \/ \E c, d \in Cred : Redeem(c, d) \/ RedeemTooLate(c, d)

Spec == Init /\ [][Next]_<<status, parent>>
=============================================================================
