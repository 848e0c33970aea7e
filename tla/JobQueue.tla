------------------------------ MODULE JobQueue ------------------------------
(***************************************************************************)
(* What the two queues of the service (send-email, security-event) promise *)
(* to those who put a job into them: an accepted job is settled some day,  *)
(* its effect is had at most Runs times, and never after it was settled.   *)
(* Nothing is promised about a job that was not accepted, nor that the     *)
(* effect was had when the job is settled: there are no retries.           *)
(***************************************************************************)
EXTENDS Naturals

CONSTANTS
    Job,
    Runs   \* runs of one job: the first, and one more after a stall

VARIABLES status, effects
vars == <<status, effects>>

Init ==
    /\ status = [j \in Job |-> "none"]
    /\ effects = [j \in Job |-> 0]

Accept(j) ==
    /\ status[j] = "none"
    /\ status' = [status EXCEPT ![j] = "open"]
    /\ UNCHANGED effects

Perform(j) ==
    /\ status[j] = "open" /\ effects[j] < Runs
    /\ effects' = [effects EXCEPT ![j] = @ + 1]
    /\ UNCHANGED status

Settle(j) ==
    /\ status[j] = "open"
    /\ status' = [status EXCEPT ![j] = "settled"]
    /\ UNCHANGED effects

Next == \E j \in Job : Accept(j) \/ Perform(j) \/ Settle(j)

Spec == Init /\ [][Next]_vars /\ \A j \in Job : WF_vars(Settle(j))
=============================================================================
