------------------------------ MODULE BullQueue ------------------------------
(***************************************************************************)
(* A BullMQ queue with the worker of this process, as the code uses them:  *)
(* default options, so one attempt per job (a job whose `process` throws   *)
(* has failed for good), one job at a time, and a job whose worker died is *)
(* put back once (maxStalledCount).  The library is not in the repository. *)
(* Queue and worker live in a process that may die at any step and is      *)
(* restarted (compose.yaml: restart: unless-stopped).                      *)
(***************************************************************************)
EXTENDS Naturals

CONSTANTS
    Job,
    NoJob,   \* not a job: the worker is free
    MaxCrash \* bound: deaths of the process

ASSUME NoJobAssumption == NoJob \notin Job
ASSUME MaxCrashAssumption == MaxCrash \in Nat

VARIABLES
    job,      \* where each job stands
    stalled,  \* the job was put back once
    working,  \* the job the worker of the live process is busy with
    done,     \* the effect of that job was had in this run
    effects,  \* history: times the effect of each job was had
    up,       \* the process runs
    crashes   \* history: deaths of the process

queueVars == <<job, stalled, working, done, effects>>

QueueTypeOK ==
    /\ job \in [Job -> {"none", "waiting", "active", "completed", "failed"}]
    /\ stalled \in [Job -> BOOLEAN]
    /\ working \in Job \union {NoJob} /\ done \in BOOLEAN
    /\ effects \in [Job -> Nat]

QueueInit ==
    /\ job = [j \in Job |-> "none"]
    /\ stalled = [j \in Job |-> FALSE]
    /\ working = NoJob /\ done = FALSE
    /\ effects = [j \in Job |-> 0]

Put(j, s) == job' = [job EXCEPT ![j] = s]
Free      == working' = NoJob /\ done' = FALSE

Accept(j) ==
    /\ job[j] = "none"
    /\ Put(j, "waiting")
    /\ UNCHANGED <<stalled, working, done, effects>>

Take(j) ==
    /\ working = NoJob /\ job[j] = "waiting"
    /\ Put(j, "active")
    /\ working' = j
    /\ UNCHANGED <<stalled, done, effects>>

Perform(j) ==
    /\ working = j /\ ~ done
    /\ done' = TRUE
    /\ effects' = [effects EXCEPT ![j] = @ + 1]
    /\ UNCHANGED <<job, stalled, working>>

Complete(j) ==
    /\ working = j /\ done
    /\ Put(j, "completed") /\ Free
    /\ UNCHANGED <<stalled, effects>>

\* process threw: before the effect was had, or after it (the answer was lost).
Fail(j) ==
    /\ working = j
    /\ Put(j, "failed") /\ Free
    /\ UNCHANGED <<stalled, effects>>

\* The process died; the job it was busy with stays active.
Abandon == Free /\ UNCHANGED <<job, stalled, effects>>

\* The check for stalled jobs: an active job that nobody works on.
AlwaysPutBack(j) ==                          \* mutant: stalls are not counted
    /\ job[j] = "active" /\ working # j
    /\ Put(j, "waiting")
    /\ UNCHANGED <<stalled, working, done, effects>>
CheckStalled(j) ==
    /\ job[j] = "active" /\ working # j
    /\ Put(j, IF stalled[j] THEN "failed" ELSE "waiting")
    /\ stalled' = [stalled EXCEPT ![j] = TRUE]
    /\ UNCHANGED <<working, done, effects>>

QueueStep(j) == Accept(j) \/ Take(j) \/ Perform(j) \/ Complete(j) \/ Fail(j) \/ CheckStalled(j)
QueueNext == (\E j \in Job : QueueStep(j)) \/ Abandon

Status == [j \in Job |-> CASE job[j] = "none"                  -> "none"
                           [] job[j] \in {"waiting", "active"}  -> "open"
                           [] OTHER                             -> "settled"]

\* Whoever puts jobs into it, the queue keeps the promise of JobQueue, that
\* every accepted job is settled in the end included.
Promise == INSTANCE JobQueue WITH status <- Status, Runs <- 2
ImplementsJobQueue == Promise!Spec
=============================================================================
