-------------------------------- MODULE Mail --------------------------------
(***************************************************************************)
(* The mail pipeline: the six places that hand over a mail, the queue      *)
(* send-email, its worker, the use case of each kind of mail, and Gmail.   *)
(* Producers and worker live in one process.                               *)
(*                                                                         *)
(* A mail is identified with its job.  Of its contents one thing is kept:  *)
(* which of token, code and temporary password it was given and shows.     *)
(***************************************************************************)
EXTENDS BullQueue

VARIABLES
    mail,     \* the producer of each mail, "none" before it is handed over
    adding,   \* the call of Queue.add: "no", "pending", "accepted", "refused", "lost"
    answer,   \* of the request that hands the mail over
    shown     \* history: what the delivered mail shows

mailVars == <<up, mail, adding, answer, shown, crashes>>
vars == <<queueVars, mailVars>>

-----------------------------------------------------------------------------
(* The producers: the name of the job, what it carries, and whether the    *)
(* promise of the add is awaited.                                          *)

Handed(name, carries, awaited) == [name |-> name, carries |-> carries, awaited |-> awaited]

RegisterMail   == Handed("activation", "token", TRUE)
NotAwaited     == Handed("activation", "token", FALSE)   \* mutant: a missing await
ActivationMail == Handed("activation", "token", TRUE)
ResetMail      == Handed("reset-password", "code", TRUE)
BlockMail      == Handed("block-account", "code", FALSE)
UnblockMail    == Handed("unblock-account", "tempPassword", FALSE)
OauthBlockMail == Handed("block-account", "code", FALSE)

Producer == [register |-> RegisterMail, resend |-> ActivationMail, reset |-> ResetMail,
             block |-> BlockMail, oauthBlock |-> OauthBlockMail, unblock |-> UnblockMail]
Given(m) == Producer[mail[m]]

(* The use cases of the worker: what the mail shows. *)

ActivationShows == "token"
ResetShows      == "code"
BlockShows      == "code"
UnblockShowsCode == "code"        \* mutant: the template of another mail
UnblockShows    == "tempPassword"

\* The switch of the worker on the name of the job.
Shows(name) ==
    CASE name = "activation"      -> ActivationShows
      [] name = "reset-password"  -> ResetShows
      [] name = "block-account"   -> BlockShows
      [] name = "unblock-account" -> UnblockShows

-----------------------------------------------------------------------------

TypeOK ==
    /\ QueueTypeOK
    /\ up \in BOOLEAN
    /\ mail \in [Job -> DOMAIN Producer \union {"none"}]
    /\ adding \in [Job -> {"no", "pending", "accepted", "refused", "lost"}]
    /\ answer \in [Job -> {"none", "ok", "error", "broken"}]
    /\ shown \in [Job -> {"nothing", "undefined", "token", "code", "tempPassword"}]
    /\ crashes \in 0..MaxCrash
    /\ working # NoJob => up /\ job[working] = "active"

Init ==
    /\ QueueInit
    /\ up = TRUE
    /\ mail = [m \in Job |-> "none"]
    /\ adding = [m \in Job |-> "no"]
    /\ answer = [m \in Job |-> "none"]
    /\ shown = [m \in Job |-> "nothing"]
    /\ crashes = 0

\* A handler calls Queue.add.
HandOver(m, p) ==
    /\ up /\ mail[m] = "none"
    /\ mail' = [mail EXCEPT ![m] = p]
    /\ adding' = [adding EXCEPT ![m] = "pending"]
    /\ UNCHANGED <<queueVars, up, answer, shown, crashes>>

\* A handler that awaits the add answers with its outcome, another at once.
AddAccepted(m) ==
    /\ up /\ adding[m] = "pending"
    /\ Accept(m)
    /\ adding' = [adding EXCEPT ![m] = "accepted"]
    /\ UNCHANGED <<up, mail, answer, shown, crashes>>

AnswerOnSuccess(m) ==                         \* mutant: a refusal is not answered
    /\ up /\ answer[m] = "none" /\ mail[m] # "none" /\ Given(m).awaited
    /\ adding[m] = "accepted" /\ answer' = [answer EXCEPT ![m] = "ok"]
    /\ UNCHANGED <<queueVars, up, mail, adding, shown, crashes>>
AnswerAfterAdd(m) ==
    /\ up /\ answer[m] = "none" /\ mail[m] # "none" /\ Given(m).awaited
    /\ \/ adding[m] = "accepted" /\ answer' = [answer EXCEPT ![m] = "ok"]
       \/ adding[m] = "refused"  /\ answer' = [answer EXCEPT ![m] = "error"]
    /\ UNCHANGED <<queueVars, up, mail, adding, shown, crashes>>

AnswerAtOnce(m) ==
    /\ up /\ answer[m] = "none" /\ mail[m] # "none" /\ ~ Given(m).awaited
    /\ answer' = [answer EXCEPT ![m] = "ok"]
    /\ UNCHANGED <<queueVars, up, mail, adding, shown, crashes>>

\* The process is gone: with it every pending add, every request without an
\* answer, and the run of the worker.
Die(gone) ==
    /\ up' = FALSE
    /\ adding' = [m \in Job |-> IF m \in gone THEN "refused"
                                ELSE IF adding[m] = "pending" THEN "lost" ELSE adding[m]]
    /\ answer' = [m \in Job |-> IF mail[m] # "none" /\ answer[m] = "none"
                                THEN "broken" ELSE answer[m]]
    /\ crashes' = crashes + 1
    /\ Abandon
    /\ UNCHANGED <<mail, shown>>

\* EmailQueue.add turns the refusal into an error.  Where nobody awaits it, it
\* is an unhandled rejection, which ends a Node process.
AddRefused(m) ==
    /\ up /\ adding[m] = "pending"
    /\ IF Given(m).awaited
       THEN /\ adding' = [adding EXCEPT ![m] = "refused"]
            /\ UNCHANGED <<queueVars, up, mail, answer, shown, crashes>>
       ELSE crashes < MaxCrash /\ Die({m})

Crash == up /\ crashes < MaxCrash /\ Die({})

Restart ==
    /\ ~ up
    /\ up' = TRUE
    /\ UNCHANGED <<queueVars, mail, adding, answer, shown, crashes>>

-----------------------------------------------------------------------------
(* The worker. *)

WorkerTakes(m) == up /\ Take(m) /\ UNCHANGED mailVars

\* The template is rendered with the payload; Gmail takes the message.
Deliver(m) ==
    /\ up /\ Perform(m)
    /\ shown' = [shown EXCEPT ![m] =
           IF Shows(Given(m).name) = Given(m).carries THEN Given(m).carries ELSE "undefined"]
    /\ UNCHANGED <<up, mail, adding, answer, crashes>>

WorkerCompletes(m) == up /\ Complete(m) /\ UNCHANGED mailVars

\* The provider, the template or the configuration failed: every layer
\* rethrows, and the job has failed.
WorkerFails(m) == up /\ Fail(m) /\ UNCHANGED mailVars

StalledChecked(m) == up /\ CheckStalled(m) /\ UNCHANGED mailVars

-----------------------------------------------------------------------------

Request(m) == AddAccepted(m) \/ AddRefused(m) \/ AnswerAfterAdd(m) \/ AnswerAtOnce(m)
Worker(m)  == WorkerTakes(m) \/ Deliver(m) \/ WorkerCompletes(m) \/ WorkerFails(m)

Next ==
    \/ \E m \in Job : \/ \E p \in DOMAIN Producer : HandOver(m, p)
                      \/ Request(m) \/ Worker(m) \/ StalledChecked(m)
    \/ Crash \/ Restart

\* A live process goes on with its requests and with the jobs in its queue,
\* and a dead one is restarted; nobody has to ask for a mail, and no step of
\* a failure has to happen.
Fairness ==
    /\ WF_vars(Restart)
    /\ \A m \in Job : /\ WF_vars(Request(m))
                      /\ WF_vars(Worker(m))
                      /\ WF_vars(StalledChecked(m))

Spec == Init /\ [][Next]_vars /\ Fairness

-----------------------------------------------------------------------------
(* Properties. *)

\* A job that is reported as completed was delivered, and the mail shows the
\* secret its producer stored for the user: the layers between the worker
\* and Gmail report a failure, and the name of the job selects a use case
\* that reads the field the producer filled in.
CompletedWasSent ==
    \A m \in Job : job[m] = "completed" => effects[m] > 0 /\ shown[m] = Given(m).carries

\* What a user is told is true: a registration, a new activation mail or a
\* password reset that is answered with success has its mail in the queue;
\* the mails of a block and of an unblock, which nobody awaits, are on their
\* way there unless the process has died since.
SuccessIsQueued ==
    \A m \in Job : answer[m] = "ok" =>
        \/ adding[m] = "accepted"
        \/ mail[m] \notin {"register", "resend", "reset"} /\ (adding[m] = "pending" \/ crashes > 0)

\* Every request that hands a mail over ends, with an answer or with its process.
EveryRequestEnds == \A m \in Job : mail[m] # "none" ~> answer[m] # "none"
=============================================================================
