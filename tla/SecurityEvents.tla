--------------------------- MODULE SecurityEvents ---------------------------
(***************************************************************************)
(* The security events, from the handler that raises one to the row: the   *)
(* direct login and the OAuth login raise one after they have blocked an   *)
(* account, the refresh after it has deleted a family.  The event goes     *)
(* through the in-process emitter to an asynchronous listener, from there  *)
(* into the queue security-event, and its worker inserts the row.          *)
(*                                                                         *)
(* An event is identified with the request that may raise it and with its  *)
(* job.  One account and one family are enough: the events do not meet.    *)
(***************************************************************************)
EXTENDS BullQueue

VARIABLES
    live,      \* the account is not blocked (deleted_at is NULL)
    family,    \* the token family has not been deleted
    source,    \* what the request of each event is
    step,      \* where that request stands
    listener,  \* of the event: "no", "pending", "accepted", "refused", "lost"
    punished,  \* history: the block or the deletion of this request committed
    faults     \* history: something in the pipeline was refused, failed or died

eventVars == <<up, live, family, source, step, listener, punished, crashes, faults>>
pipelineVars == <<queueVars, eventVars>>

Login  == {"login", "oauthLogin"}
Source == Login \union {"reuse"}

EventTypeOK ==
    /\ QueueTypeOK
    /\ {up, live, family, faults} \subseteq BOOLEAN
    /\ source \in [Job -> Source \union {"none"}]
    /\ step \in [Job -> {"idle", "read", "acted", "raised", "silent", "broken"}]
    /\ listener \in [Job -> {"no", "pending", "accepted", "refused", "lost"}]
    /\ punished \in [Job -> BOOLEAN]
    /\ crashes \in 0..MaxCrash
    /\ \A e \in Job : (job[e] # "none") <=> (listener[e] = "accepted")
    /\ working # NoJob => up /\ job[working] = "active"

EventInit ==
    /\ QueueInit
    /\ up = TRUE /\ live = TRUE /\ family = TRUE
    /\ source = [e \in Job |-> "none"]
    /\ step = [e \in Job |-> "idle"]
    /\ listener = [e \in Job |-> "no"]
    /\ punished = [e \in Job |-> FALSE]
    /\ crashes = 0 /\ faults = FALSE

Goto(e, s) == step' = [step EXCEPT ![e] = s]

-----------------------------------------------------------------------------
(* The handlers. *)

\* One more wrong password when the counter is full.  The look-up throws for
\* an account that is missing or blocked already: no event is raised, and
\* the reason USER_NOT_FOUND is never given.
AttemptTooMany(e, s) ==
    /\ up /\ step[e] = "idle"
    /\ s \in Login
    /\ source' = [source EXCEPT ![e] = s]
    /\ Goto(e, IF live THEN "read" ELSE "silent")
    /\ UNCHANGED <<queueVars, up, live, family, listener, punished, crashes, faults>>

\* How the statement that punishes ends: it committed; it committed and its
\* answer was lost, so that the handler throws and raises nothing; or it, or
\* something before it, failed.
Punishes(e) ==
    /\ punished' = [punished EXCEPT ![e] = TRUE]
    /\ \/ Goto(e, "acted") /\ UNCHANGED faults
       \/ Goto(e, "broken") /\ faults' = TRUE
Fails(e) == Goto(e, "silent") /\ UNCHANGED <<punished, faults>>

\* The account is blocked.
Block(e) ==
    /\ up /\ step[e] = "read"
    /\ \/ live' = FALSE /\ Punishes(e)
       \/ Fails(e) /\ UNCHANGED live
    /\ UNCHANGED <<queueVars, up, family, source, listener, crashes>>

\* A refresh token that is marked as used.
ReuseUnpunished(e) ==                         \* mutant: the event is raised first
    /\ up /\ step[e] = "idle"
    /\ source' = [source EXCEPT ![e] = "reuse"]
    /\ Goto(e, "acted")
    /\ UNCHANGED <<queueVars, up, live, family, listener, punished, crashes, faults>>
Reuse(e) ==
    /\ up /\ step[e] = "idle"
    /\ source' = [source EXCEPT ![e] = "reuse"]
    /\ \/ family' = FALSE /\ Punishes(e)
       \/ Fails(e) /\ UNCHANGED family
    /\ UNCHANGED <<queueVars, up, live, listener, crashes>>

\* The event is handed to the emitter; the listener is asynchronous, and the
\* request answers without it.
EmitOauthForgotten(e) ==                      \* mutant: no event after an OAuth block
    /\ up /\ step[e] = "acted"
    /\ Goto(e, "raised")
    /\ listener' = [listener EXCEPT ![e] = IF source[e] = "oauthLogin" THEN "no" ELSE "pending"]
    /\ UNCHANGED <<queueVars, up, live, family, source, punished, crashes, faults>>
Emit(e) ==
    /\ up /\ step[e] = "acted"
    /\ Goto(e, "raised")
    /\ listener' = [listener EXCEPT ![e] = "pending"]
    /\ UNCHANGED <<queueVars, up, live, family, source, punished, crashes, faults>>

\* The owner unblocks the account.
Unblock ==
    /\ ~ live
    /\ live' = TRUE
    /\ UNCHANGED <<queueVars, up, family, source, step, listener, punished, crashes, faults>>

-----------------------------------------------------------------------------
(* Listener and queue. *)

ListenerAdds(e) ==
    /\ up /\ listener[e] = "pending"
    /\ Accept(e)
    /\ listener' = [listener EXCEPT ![e] = "accepted"]
    /\ UNCHANGED <<up, live, family, source, step, punished, crashes, faults>>

\* The listener logs the refusal and throws; the emitter's wrapper swallows it.
ListenerRefused(e) ==
    /\ up /\ listener[e] = "pending"
    /\ listener' = [listener EXCEPT ![e] = "refused"]
    /\ faults' = TRUE
    /\ UNCHANGED <<queueVars, up, live, family, source, step, punished, crashes>>

EventCrash ==
    /\ up /\ crashes < MaxCrash
    /\ up' = FALSE /\ crashes' = crashes + 1 /\ faults' = TRUE
    /\ step' = [e \in Job |-> IF step[e] \in {"read", "acted"} THEN "broken" ELSE step[e]]
    /\ listener' = [e \in Job |-> IF listener[e] = "pending" THEN "lost" ELSE listener[e]]
    /\ Abandon
    /\ UNCHANGED <<live, family, source, punished>>

EventRestart ==
    /\ ~ up
    /\ up' = TRUE
    /\ UNCHANGED <<queueVars, live, family, source, step, listener, punished, crashes, faults>>

-----------------------------------------------------------------------------
(* The worker, which records. *)

RecorderTakes(e) == up /\ Take(e) /\ UNCHANGED eventVars

\* The payload has no id: every run inserts a row of its own.
Record(e) == up /\ Perform(e) /\ UNCHANGED eventVars

RecorderCompletes(e) == up /\ Complete(e) /\ UNCHANGED eventVars

RecorderFails(e) ==
    /\ up /\ Fail(e)
    /\ faults' = TRUE
    /\ UNCHANGED <<up, live, family, source, step, listener, punished, crashes>>

EventStalled(e) == up /\ CheckStalled(e) /\ UNCHANGED eventVars

-----------------------------------------------------------------------------

Handler(e)  == Block(e) \/ Emit(e)
Listener(e) == ListenerAdds(e) \/ ListenerRefused(e)
Recorder(e) == RecorderTakes(e) \/ Record(e) \/ RecorderCompletes(e) \/ RecorderFails(e)

EventNext ==
    \/ \E e \in Job : \/ \E s \in Source : AttemptTooMany(e, s)
                      \/ Reuse(e) \/ Handler(e) \/ Listener(e) \/ Recorder(e) \/ EventStalled(e)
    \/ Unblock \/ EventCrash \/ EventRestart

\* As for the mails: what has been started goes on while the process lives.
EventFairness ==
    /\ WF_pipelineVars(EventRestart)
    /\ \A e \in Job : /\ WF_pipelineVars(Handler(e)) /\ WF_pipelineVars(Listener(e))
                      /\ WF_pipelineVars(Recorder(e)) /\ WF_pipelineVars(EventStalled(e))

EventSpec == EventInit /\ [][EventNext]_pipelineVars /\ EventFairness

-----------------------------------------------------------------------------
(* Properties. *)

\* A row of the table, or a job on its way to it, tells of something that was
\* done: no event is about a block or a deletion that did not commit.
EventOfCommittedAct ==
    \A e \in Job : job[e] # "none" \/ effects[e] > 0 => punished[e]

\* A block or a deletion is recorded in the end, unless something failed on
\* the way: nothing retries, so one fault may cost the event.
PunishedIsRecorded == \A e \in Job : punished[e] ~> (effects[e] > 0 \/ faults)
=============================================================================
