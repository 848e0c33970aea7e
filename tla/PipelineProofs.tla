---------------------------- MODULE PipelineProofs ----------------------------
(***************************************************************************)
(* Proofs of the safety of the two pipelines, Mail and SecurityEvents, for *)
(* any set of jobs and any number of deaths of the process.  Both move one *)
(* queue each: what holds of a queue, the safety half of its refinement of *)
(* JobQueue included, is proved once, of the steps of BullQueue.           *)
(***************************************************************************)
EXTENDS Mail, SecurityEvents, TLAPS

USE DEF queueVars, mailVars, eventVars

-----------------------------------------------------------------------------
(* The queue, whoever uses it. *)

Busy == working # NoJob => job[working] = "active"

\* A job has had at most one effect for the run before the stall, and one for
\* the run it is in or was last in.
Earlier(m) == IF stalled[m] THEN 1 ELSE 0
Now(m)     == IF working = m /\ ~ done THEN 0 ELSE 1

RunsBounded ==
    \A m \in Job :
       /\ job[m] = "none" => effects[m] = 0 /\ ~ stalled[m]
       /\ job[m] = "waiting" => effects[m] <= Earlier(m)
       /\ job[m] = "active" => effects[m] <= Earlier(m) + Now(m)

QueueInv == QueueTypeOK /\ Busy /\ RunsBounded

\* A step of a pipeline, as its queue sees it.
Moved == QueueNext \/ UNCHANGED queueVars

\* An empty queue with a free worker.
LEMMA QueueBegins == QueueInit => QueueInv /\ Promise!Init
  <1> SUFFICES ASSUME QueueInit PROVE QueueInv /\ Promise!Init
    OBVIOUS
  <1>1. QueueTypeOK
    BY DEF QueueInit, QueueTypeOK
  <1>2. Busy /\ RunsBounded
    BY DEF QueueInit, Busy, RunsBounded
  <1>3. Promise!Init
    BY DEF QueueInit, Promise!Init, Status
  <1> QED
    BY <1>1, <1>2, <1>3 DEF QueueInv

\* A job is put back once, so it has at most two effects.
LEMMA QueueKept == QueueInv /\ Moved => QueueInv'
  <1> SUFFICES ASSUME QueueInv, Moved PROVE QueueInv'
    OBVIOUS
  <1>a. /\ job \in [Job -> {"none", "waiting", "active", "completed", "failed"}]
        /\ stalled \in [Job -> BOOLEAN] /\ done \in BOOLEAN
        /\ effects \in [Job -> Nat]
        /\ working \in Job \union {NoJob} /\ NoJob \notin Job
        /\ Busy /\ RunsBounded
    BY NoJobAssumption DEF QueueInv, QueueTypeOK
  <1>1. ASSUME NEW m \in Job, Accept(m) PROVE QueueInv'
    <2>1. QueueTypeOK'
      BY <1>1, <1>a DEF Accept, Put, QueueTypeOK
    <2>2. Busy'
      BY <1>1, <1>a DEF Accept, Put, Busy
    <2>3. RunsBounded'
      BY <1>1, <1>a DEF Accept, Put, Busy, RunsBounded, Earlier, Now
    <2> QED
      BY <2>1, <2>2, <2>3 DEF QueueInv
  <1>2. ASSUME NEW m \in Job, Take(m) PROVE QueueInv'
    <2>1. QueueTypeOK'
      BY <1>2, <1>a DEF Take, Put, QueueTypeOK
    <2>2. Busy'
      BY <1>2, <1>a DEF Take, Put, Busy
    <2>3. RunsBounded'
      BY <1>2, <1>a DEF Take, Put, Busy, RunsBounded, Earlier, Now
    <2> QED
      BY <2>1, <2>2, <2>3 DEF QueueInv
  <1>3. ASSUME NEW m \in Job, Perform(m) PROVE QueueInv'
    <2>1. QueueTypeOK'
      BY <1>3, <1>a DEF Perform, QueueTypeOK
    <2>2. Busy'
      BY <1>3, <1>a DEF Perform, Busy
    <2>3. RunsBounded'
      BY <1>3, <1>a DEF Perform, Busy, RunsBounded, Earlier, Now
    <2> QED
      BY <2>1, <2>2, <2>3 DEF QueueInv
  <1>4. ASSUME NEW m \in Job, Complete(m) PROVE QueueInv'
    <2>1. QueueTypeOK'
      BY <1>4, <1>a DEF Complete, Put, Free, QueueTypeOK
    <2>2. Busy'
      BY <1>4, <1>a DEF Complete, Put, Free, Busy
    <2>3. RunsBounded'
      BY <1>4, <1>a DEF Complete, Put, Free, Busy, RunsBounded, Earlier, Now
    <2> QED
      BY <2>1, <2>2, <2>3 DEF QueueInv
  <1>5. ASSUME NEW m \in Job, Fail(m) PROVE QueueInv'
    <2>1. QueueTypeOK'
      BY <1>5, <1>a DEF Fail, Put, Free, QueueTypeOK
    <2>2. Busy'
      BY <1>5, <1>a DEF Fail, Put, Free, Busy
    <2>3. RunsBounded'
      BY <1>5, <1>a DEF Fail, Put, Free, Busy, RunsBounded, Earlier, Now
    <2> QED
      BY <2>1, <2>2, <2>3 DEF QueueInv
  <1>6. ASSUME NEW m \in Job, CheckStalled(m) PROVE QueueInv'
    <2>1. QueueTypeOK'
      BY <1>6, <1>a DEF CheckStalled, Put, QueueTypeOK
    <2>2. Busy'
      BY <1>6, <1>a DEF CheckStalled, Put, Busy
    <2>3. RunsBounded'
      BY <1>6, <1>a DEF CheckStalled, Put, Busy, RunsBounded, Earlier, Now
    <2> QED
      BY <2>1, <2>2, <2>3 DEF QueueInv
  <1>7. CASE Abandon
    <2>1. QueueTypeOK' /\ Busy'
      BY <1>7, <1>a DEF Abandon, Free, QueueTypeOK, Busy
    <2>2. RunsBounded'
      BY <1>7, <1>a DEF Abandon, Free, RunsBounded, Earlier, Now
    <2> QED
      BY <2>1, <2>2 DEF QueueInv
  <1>8. CASE UNCHANGED queueVars
    BY <1>8 DEF QueueInv, QueueTypeOK, Busy, RunsBounded, Earlier, Now
  <1> QED
    BY <1>1, <1>2, <1>3, <1>4, <1>5, <1>6, <1>7, <1>8 DEF Moved, QueueNext, QueueStep

\* What a step is to those who hand jobs over.
Promised == Promise!Next \/ UNCHANGED Promise!vars

\* A step that moves no job and has no effect is none of the promised queue.
LEMMA SameJobs == UNCHANGED <<job, effects>> => Promised
  BY DEF Status, Promised, Promise!vars

\* Accepting a job, its effect, and completing or failing it are the steps of the
\* promised queue; taking it and putting it back once keep it open.
LEMMA MovesArePromised == QueueInv /\ Moved => Promised
  <1> SUFFICES ASSUME QueueInv, Moved PROVE Promised
    OBVIOUS
  <1>a. /\ job \in [Job -> {"none", "waiting", "active", "completed", "failed"}]
        /\ effects \in [Job -> Nat]
        /\ working \in Job \union {NoJob} /\ NoJob \notin Job
        /\ working # NoJob => job[working] = "active"
        /\ RunsBounded
    BY NoJobAssumption DEF QueueInv, QueueTypeOK, Busy
  <1>1. ASSUME NEW m \in Job, Accept(m) PROVE Promised
    <2>1. /\ job[m] = "none" /\ effects' = effects
          /\ job' = [job EXCEPT ![m] = "waiting"]
      BY <1>1 DEF Accept, Put
    <2>2. Promise!Accept(m)
      BY <2>1, <1>a DEF Status, Promise!Accept
    <2> QED
      BY <2>2 DEF Promised, Promise!Next
  <1>2. ASSUME NEW m \in Job, Take(m) PROVE Promised
    <2>1. /\ job[m] = "waiting" /\ effects' = effects
          /\ job' = [job EXCEPT ![m] = "active"]
      BY <1>2 DEF Take, Put
    <2>2. Status' = Status
      BY <2>1, <1>a DEF Status
    <2> QED
      BY <2>1, <2>2 DEF Promised, Promise!vars
  <1>3. ASSUME NEW m \in Job, Perform(m) PROVE Promised
    <2>1. /\ working = m /\ ~ done /\ job' = job
          /\ effects' = [effects EXCEPT ![m] = effects[m] + 1]
      BY <1>3 DEF Perform
    <2>2. job[m] = "active" /\ effects[m] < 2
      BY <2>1, <1>a DEF RunsBounded, Earlier, Now
    <2>3. Promise!Perform(m)
      BY <2>1, <2>2, <1>a DEF Status, Promise!Perform
    <2> QED
      BY <2>3 DEF Promised, Promise!Next
  <1>4. ASSUME NEW m \in Job, Complete(m) PROVE Promised
    <2>1. /\ working = m /\ effects' = effects
          /\ job' = [job EXCEPT ![m] = "completed"]
      BY <1>4 DEF Complete, Put
    <2>2. job[m] = "active"
      BY <2>1, <1>a
    <2>3. Promise!Settle(m)
      BY <2>1, <2>2, <1>a DEF Status, Promise!Settle
    <2> QED
      BY <2>3 DEF Promised, Promise!Next
  <1>5. ASSUME NEW m \in Job, Fail(m) PROVE Promised
    <2>1. /\ working = m /\ effects' = effects
          /\ job' = [job EXCEPT ![m] = "failed"]
      BY <1>5 DEF Fail, Put
    <2>2. job[m] = "active"
      BY <2>1, <1>a
    <2>3. Promise!Settle(m)
      BY <2>1, <2>2, <1>a DEF Status, Promise!Settle
    <2> QED
      BY <2>3 DEF Promised, Promise!Next
  <1>6. ASSUME NEW m \in Job, CheckStalled(m) PROVE Promised
    <2>1. job[m] = "active" /\ effects' = effects
      BY <1>6 DEF CheckStalled
    <2>2. CASE stalled[m]
      <3>1. job' = [job EXCEPT ![m] = "failed"]
        BY <1>6, <2>2 DEF CheckStalled, Put
      <3>2. Promise!Settle(m)
        BY <2>1, <3>1, <1>a DEF Status, Promise!Settle
      <3> QED
        BY <3>2 DEF Promised, Promise!Next
    <2>3. CASE ~ stalled[m]
      <3>1. job' = [job EXCEPT ![m] = "waiting"]
        BY <1>6, <2>3 DEF CheckStalled, Put
      <3>2. Status' = Status
        BY <2>1, <3>1, <1>a DEF Status
      <3> QED
        BY <2>1, <3>2 DEF Promised, Promise!vars
    <2> QED
      BY <2>2, <2>3
  <1>7. CASE Abandon
    BY <1>7, SameJobs DEF Abandon
  <1>8. CASE UNCHANGED queueVars
    BY <1>8, SameJobs
  <1> QED
    BY <1>1, <1>2, <1>3, <1>4, <1>5, <1>6, <1>7, <1>8 DEF Moved, QueueNext, QueueStep

-----------------------------------------------------------------------------
(* The mails: the inductive invariant. *)

\* A mail was handed over when its add began, and its job is in the queue when
\* the add was accepted.
HandedOver ==
    \A m \in Job :
       /\ mail[m] = "none" <=> adding[m] = "no"
       /\ mail[m] = "none" => answer[m] = "none"
       /\ job[m] = "none" <=> adding[m] # "accepted"

\* The effect of a run is that the mail shows what its producer handed over.
Sent ==
    /\ IF working = NoJob THEN ~ done ELSE done => effects[working] > 0
    /\ \A m \in Job :
          /\ effects[m] > 0 => shown[m] = Given(m).carries
          /\ job[m] = "completed" => effects[m] > 0

\* A pending add that nobody awaits is lost only with the process.
Awaited == {"register", "resend", "reset"}
Unawaited ==
    \A m \in Job :
       /\ answer[m] = "ok" /\ mail[m] \in Awaited => adding[m] = "accepted"
       /\ adding[m] \in {"refused", "lost"} /\ mail[m] \notin Awaited => crashes > 0

\* TypeOK, the part of the producers.
MailTypeOK ==
    /\ up \in BOOLEAN
    /\ mail \in [Job -> DOMAIN Producer \union {"none"}]
    /\ adding \in [Job -> {"no", "pending", "accepted", "refused", "lost"}]
    /\ answer \in [Job -> {"none", "ok", "error", "broken"}]
    /\ shown \in [Job -> {"nothing", "undefined", "token", "code", "tempPassword"}]
    /\ crashes \in 0..MaxCrash

MailInv == TypeOK /\ QueueInv /\ HandedOver /\ Sent /\ Unawaited

-----------------------------------------------------------------------------
(* The mails: the steps. *)

\* Each kind of mail shows what its producer hands over, and the promise of its
\* add is awaited by the three handlers of Awaited.
LEMMA Producers ==
    /\ "none" \notin DOMAIN Producer
    /\ \A p \in DOMAIN Producer :
          /\ Shows(Producer[p].name) = Producer[p].carries
          /\ Producer[p].awaited <=> p \in Awaited
          /\ Producer[p].carries \in {"token", "code", "tempPassword"}
  BY DEF Producer, Handed, RegisterMail, ActivationMail, ResetMail, BlockMail,
     UnblockMail,
         OauthBlockMail, Shows, ActivationShows, ResetShows, BlockShows, UnblockShows, Awaited

\* Every step moves the queue by one of its own steps, or not at all.
LEMMA MailMoves == [Next]_vars => Moved
  <1> SUFFICES ASSUME [Next]_vars PROVE Moved
    OBVIOUS
  <1> USE DEF Moved, QueueNext, QueueStep
  <1>1. ASSUME NEW m \in Job, NEW p \in DOMAIN Producer, HandOver(m, p) PROVE Moved
    BY <1>1 DEF HandOver
  <1>2. ASSUME NEW m \in Job, Request(m) PROVE Moved
    BY <1>2 DEF Request, AddAccepted, AddRefused, Die, AnswerAfterAdd, AnswerAtOnce
  <1>3. ASSUME NEW m \in Job, Worker(m) PROVE Moved
    BY <1>3 DEF Worker, WorkerTakes, Deliver, WorkerCompletes, WorkerFails
  <1>4. ASSUME NEW m \in Job, StalledChecked(m) PROVE Moved
    BY <1>4 DEF StalledChecked
  <1>5. CASE Crash \/ Restart
    BY <1>5 DEF Crash, Die, Restart
  <1>6. CASE UNCHANGED vars
    BY <1>6 DEF vars
  <1> QED
    BY <1>1, <1>2, <1>3, <1>4, <1>5, <1>6 DEF Next

\* What is known of each mail keeps its type.
LEMMA MailTyped == TypeOK /\ HandedOver /\ [Next]_vars => MailTypeOK'
  <1> SUFFICES ASSUME TypeOK /\ HandedOver, [Next]_vars PROVE MailTypeOK'
    OBVIOUS
  <1>a. /\ MailTypeOK /\ MaxCrash \in Nat
    BY MaxCrashAssumption DEF TypeOK, MailTypeOK
  <1>b.
               ASSUME NEW gone \in SUBSET {q \in Job : adding[q] = "pending"},
               crashes < MaxCrash, Die(gone)
        PROVE  MailTypeOK'
    <2>1. up' \in BOOLEAN /\ crashes' \in 0..MaxCrash /\ mail' = mail /\ shown' = shown
      <3>1. crashes' = crashes + 1 /\ up' = FALSE /\ mail' = mail /\ shown' = shown
        BY <1>b DEF Die
      <3>2. crashes \in 0..MaxCrash /\ crashes < MaxCrash
        BY <1>b, <1>a DEF MailTypeOK
      <3>3. crashes + 1 \in 0..MaxCrash
        BY <3>2, MaxCrashAssumption
      <3> QED
        BY <3>1, <3>3
    <2>2. adding' \in [Job -> {"no", "pending", "accepted", "refused", "lost"}]
      BY <1>b, <1>a DEF Die, MailTypeOK
    <2>3. answer' \in [Job -> {"none", "ok", "error", "broken"}]
      BY <1>b, <1>a DEF Die, MailTypeOK
    <2> QED
      BY <2>1, <2>2, <2>3, <1>a DEF MailTypeOK
  <1>1. ASSUME NEW m \in Job, NEW p \in DOMAIN Producer, HandOver(m, p)
        PROVE  MailTypeOK'
    BY <1>1, <1>a DEF HandOver, MailTypeOK
  <1>2. ASSUME NEW m \in Job, AddAccepted(m) PROVE MailTypeOK'
    BY <1>2, <1>a DEF AddAccepted, Accept, Put, MailTypeOK
  <1>3. ASSUME NEW m \in Job, AddRefused(m) PROVE MailTypeOK'
    <2>1. CASE Given(m).awaited
      BY <1>3, <2>1, <1>a DEF AddRefused, MailTypeOK
    <2>2. CASE ~ Given(m).awaited
      BY <1>3, <2>2, <1>b DEF AddRefused
    <2> QED
      BY <2>1, <2>2
  <1>4. ASSUME NEW m \in Job, AnswerAfterAdd(m) PROVE MailTypeOK'
    BY <1>4, <1>a DEF AnswerAfterAdd, MailTypeOK
  <1>5. ASSUME NEW m \in Job, AnswerAtOnce(m) PROVE MailTypeOK'
    BY <1>5, <1>a DEF AnswerAtOnce, MailTypeOK
  <1>6. ASSUME NEW m \in Job, WorkerTakes(m) PROVE MailTypeOK'
    BY <1>6, <1>a DEF WorkerTakes, Take, Put, MailTypeOK
  <1>7. ASSUME NEW m \in Job, Deliver(m) PROVE MailTypeOK'
    <2>1. mail[m] \in DOMAIN Producer
      BY <1>7, NoJobAssumption DEF Deliver, Perform, HandedOver, TypeOK, QueueTypeOK
    <2>2. Given(m).carries \in {"token", "code", "tempPassword"}
      BY <2>1, Producers DEF Given
    <2> DEFINE s == IF Shows(Given(m).name) = Given(m).carries THEN Given(m).carries ELSE "undefined"
    <2>3. shown' = [shown EXCEPT ![m] = s] /\ UNCHANGED <<up, mail, adding, answer, crashes>>
      BY <1>7 DEF Deliver
    <2>4. s \in {"nothing", "undefined", "token", "code", "tempPassword"}
      BY <2>2
    <2> HIDE DEF s
    <2> QED
      BY <2>3, <2>4, <1>a DEF MailTypeOK
  <1>8. ASSUME NEW m \in Job, WorkerCompletes(m) PROVE MailTypeOK'
    BY <1>8, <1>a DEF WorkerCompletes, Complete, Put, Free, MailTypeOK
  <1>9. ASSUME NEW m \in Job, WorkerFails(m) PROVE MailTypeOK'
    BY <1>9, <1>a DEF WorkerFails, Fail, Put, Free, MailTypeOK
  <1>10. ASSUME NEW m \in Job, StalledChecked(m) PROVE MailTypeOK'
    BY <1>10, <1>a DEF StalledChecked, CheckStalled, Put, MailTypeOK
  <1>11. ASSUME Crash PROVE MailTypeOK'
    BY <1>11, <1>b DEF Crash
  <1>12. ASSUME Restart PROVE MailTypeOK'
    BY <1>12, <1>a DEF Restart, MailTypeOK
  <1>13. CASE UNCHANGED vars
    BY <1>13, <1>a DEF vars, MailTypeOK
  <1> QED
    BY <1>1, <1>2, <1>3, <1>4, <1>5, <1>6, <1>7, <1>8, <1>9, <1>10, <1>11, <1>12,
       <1>13 DEF Next, Request, Worker

\* The worker of the live process is busy with an active job.
LEMMA WorkerBusy ==
    TypeOK /\ [Next]_vars => (working # NoJob => up /\ job[working] = "active")'
  <1> SUFFICES ASSUME TypeOK, [Next]_vars
               PROVE  (working # NoJob => up /\ job[working] = "active")'
    OBVIOUS
  <1>a. /\ QueueTypeOK /\ NoJob \notin Job
        /\ working # NoJob => up /\ job[working] = "active"
    BY NoJobAssumption DEF TypeOK
  <1>b.
               ASSUME NEW gone \in SUBSET {q \in Job : adding[q] = "pending"},
               crashes < MaxCrash, Die(gone)
        PROVE  (working # NoJob => up /\ job[working] = "active")'
    BY <1>b, <1>a DEF Die, Abandon, Free, QueueTypeOK
  <1>1. ASSUME NEW m \in Job, NEW p \in DOMAIN Producer, HandOver(m, p)
        PROVE  (working # NoJob => up /\ job[working] = "active")'
    BY <1>1, <1>a DEF HandOver, QueueTypeOK
  <1>2. ASSUME NEW m \in Job, AddAccepted(m)
        PROVE  (working # NoJob => up /\ job[working] = "active")'
    BY <1>2, <1>a DEF AddAccepted, Accept, Put, QueueTypeOK
  <1>3. ASSUME NEW m \in Job, AddRefused(m)
        PROVE  (working # NoJob => up /\ job[working] = "active")'
    <2>1. CASE Given(m).awaited
      BY <1>3, <2>1, <1>a DEF AddRefused, QueueTypeOK
    <2>2. CASE ~ Given(m).awaited
      BY <1>3, <2>2, <1>b DEF AddRefused
    <2> QED
      BY <2>1, <2>2
  <1>4. ASSUME NEW m \in Job, AnswerAfterAdd(m)
        PROVE  (working # NoJob => up /\ job[working] = "active")'
    BY <1>4, <1>a DEF AnswerAfterAdd, QueueTypeOK
  <1>5. ASSUME NEW m \in Job, AnswerAtOnce(m)
        PROVE  (working # NoJob => up /\ job[working] = "active")'
    BY <1>5, <1>a DEF AnswerAtOnce, QueueTypeOK
  <1>6. ASSUME NEW m \in Job, WorkerTakes(m)
        PROVE  (working # NoJob => up /\ job[working] = "active")'
    BY <1>6, <1>a DEF WorkerTakes, Take, Put, QueueTypeOK
  <1>7. ASSUME NEW m \in Job, Deliver(m)
        PROVE  (working # NoJob => up /\ job[working] = "active")'
    BY <1>7, <1>a DEF Deliver, Perform, QueueTypeOK
  <1>8. ASSUME NEW m \in Job, WorkerCompletes(m)
        PROVE  (working # NoJob => up /\ job[working] = "active")'
    BY <1>8, <1>a DEF WorkerCompletes, Complete, Put, Free, QueueTypeOK
  <1>9. ASSUME NEW m \in Job, WorkerFails(m)
        PROVE  (working # NoJob => up /\ job[working] = "active")'
    BY <1>9, <1>a DEF WorkerFails, Fail, Put, Free, QueueTypeOK
  <1>10. ASSUME NEW m \in Job, StalledChecked(m)
         PROVE  (working # NoJob => up /\ job[working] = "active")'
    BY <1>10, <1>a DEF StalledChecked, CheckStalled, Put, QueueTypeOK
  <1>11. ASSUME Crash PROVE (working # NoJob => up /\ job[working] = "active")'
    BY <1>11, <1>b DEF Crash
  <1>12. ASSUME Restart PROVE (working # NoJob => up /\ job[working] = "active")'
    BY <1>12, <1>a DEF Restart, QueueTypeOK
  <1>13. CASE UNCHANGED vars
    BY <1>13, <1>a DEF vars, QueueTypeOK
  <1> QED
    BY <1>1, <1>2, <1>3, <1>4, <1>5, <1>6, <1>7, <1>8, <1>9, <1>10, <1>11, <1>12,
       <1>13 DEF Next, Request, Worker

\* A mail, its add and its job begin in this order.
LEMMA HandedOverStep == TypeOK /\ HandedOver /\ [Next]_vars => HandedOver'
  <1> SUFFICES ASSUME TypeOK /\ HandedOver, [Next]_vars PROVE HandedOver'
    OBVIOUS
  <1>a. /\ job \in [Job -> {"none", "waiting", "active", "completed", "failed"}]
        /\ mail \in [Job -> DOMAIN Producer \union {"none"}]
        /\ adding \in [Job -> {"no", "pending", "accepted", "refused", "lost"}]
        /\ answer \in [Job -> {"none", "ok", "error", "broken"}]
        /\ working # NoJob => job[working] = "active"
        /\ NoJob \notin Job
    BY NoJobAssumption DEF TypeOK, QueueTypeOK
  <1>b.
               ASSUME NEW gone \in SUBSET {q \in Job : adding[q] = "pending"},
               crashes < MaxCrash, Die(gone)
        PROVE  HandedOver'
    BY <1>b, <1>a, Producers DEF Die, Abandon, Free, HandedOver
  <1>1. ASSUME NEW m \in Job, NEW p \in DOMAIN Producer, HandOver(m, p)
        PROVE  HandedOver'
    BY <1>1, <1>a, Producers DEF HandOver, HandedOver
  <1>2. ASSUME NEW m \in Job, AddAccepted(m) PROVE HandedOver'
    BY <1>2, <1>a, Producers DEF AddAccepted, Accept, Put, HandedOver
  <1>3. ASSUME NEW m \in Job, AddRefused(m) PROVE HandedOver'
    <2>1. CASE Given(m).awaited
      BY <1>3, <2>1, <1>a, Producers DEF AddRefused, HandedOver
    <2>2. CASE ~ Given(m).awaited
      BY <1>3, <2>2, <1>b DEF AddRefused
    <2> QED
      BY <2>1, <2>2
  <1>4. ASSUME NEW m \in Job, AnswerAfterAdd(m) PROVE HandedOver'
    BY <1>4, <1>a, Producers DEF AnswerAfterAdd, HandedOver
  <1>5. ASSUME NEW m \in Job, AnswerAtOnce(m) PROVE HandedOver'
    BY <1>5, <1>a, Producers DEF AnswerAtOnce, HandedOver
  <1>6. ASSUME NEW m \in Job, WorkerTakes(m) PROVE HandedOver'
    BY <1>6, <1>a, Producers DEF WorkerTakes, Take, Put, HandedOver
  <1>7. ASSUME NEW m \in Job, Deliver(m) PROVE HandedOver'
    BY <1>7, <1>a, Producers DEF Deliver, Perform, HandedOver
  <1>8. ASSUME NEW m \in Job, WorkerCompletes(m) PROVE HandedOver'
    BY <1>8, <1>a, Producers DEF WorkerCompletes, Complete, Put, Free, HandedOver
  <1>9. ASSUME NEW m \in Job, WorkerFails(m) PROVE HandedOver'
    BY <1>9, <1>a, Producers DEF WorkerFails, Fail, Put, Free, HandedOver
  <1>10. ASSUME NEW m \in Job, StalledChecked(m) PROVE HandedOver'
    BY <1>10, <1>a, Producers DEF StalledChecked, CheckStalled, Put, HandedOver
  <1>11. ASSUME Crash PROVE HandedOver'
    BY <1>11, <1>b DEF Crash
  <1>12. ASSUME Restart PROVE HandedOver'
    BY <1>12, <1>a, Producers DEF Restart, HandedOver
  <1>13. CASE UNCHANGED vars
    BY <1>13, <1>a, Producers DEF vars, HandedOver
  <1> QED
    BY <1>1, <1>2, <1>3, <1>4, <1>5, <1>6, <1>7, <1>8, <1>9, <1>10, <1>11, <1>12,
       <1>13 DEF Next, Request, Worker

\* The effect comes with the mail, and completion after the effect.
LEMMA SentStep == TypeOK /\ HandedOver /\ RunsBounded /\ Sent /\ [Next]_vars => Sent'
  <1> SUFFICES ASSUME TypeOK /\ HandedOver /\ RunsBounded /\ Sent, [Next]_vars
               PROVE  Sent'
    OBVIOUS
  <1>a. /\ job \in [Job -> {"none", "waiting", "active", "completed", "failed"}]
        /\ mail \in [Job -> DOMAIN Producer \union {"none"}]
        /\ shown \in [Job -> {"nothing", "undefined", "token", "code", "tempPassword"}]
        /\ effects \in [Job -> Nat]
        /\ working \in Job \union {NoJob} /\ NoJob \notin Job
        /\ working # NoJob => job[working] = "active"
    BY NoJobAssumption DEF TypeOK, QueueTypeOK
  <1>b.
               ASSUME NEW gone \in SUBSET {q \in Job : adding[q] = "pending"},
               crashes < MaxCrash, Die(gone)
        PROVE  Sent'
    BY <1>b, <1>a DEF Die, Abandon, Free, HandedOver, Sent, Given
  <1>1. ASSUME NEW m \in Job, NEW p \in DOMAIN Producer, HandOver(m, p) PROVE Sent'
    <2>1. effects[m] = 0
      BY <1>1 DEF HandOver, HandedOver, RunsBounded
    <2>2. mail' = [mail EXCEPT ![m] = p] /\ UNCHANGED <<job, working, done, effects, shown>>
      BY <1>1 DEF HandOver
    <2> QED
      BY <2>1, <2>2, <1>a DEF Sent, Given
  <1>2. ASSUME NEW m \in Job, AddAccepted(m) PROVE Sent'
    BY <1>2, <1>a DEF AddAccepted, Accept, Put, HandedOver, Sent, Given
  <1>3. ASSUME NEW m \in Job, AddRefused(m) PROVE Sent'
    <2>1. CASE Given(m).awaited
      BY <1>3, <2>1, <1>a DEF AddRefused, HandedOver, Sent, Given
    <2>2. CASE ~ Given(m).awaited
      BY <1>3, <2>2, <1>b DEF AddRefused
    <2> QED
      BY <2>1, <2>2
  <1>4. ASSUME NEW m \in Job, AnswerAfterAdd(m) PROVE Sent'
    BY <1>4, <1>a DEF AnswerAfterAdd, HandedOver, Sent, Given
  <1>5. ASSUME NEW m \in Job, AnswerAtOnce(m) PROVE Sent'
    BY <1>5, <1>a DEF AnswerAtOnce, HandedOver, Sent, Given
  <1>6. ASSUME NEW m \in Job, WorkerTakes(m) PROVE Sent'
    BY <1>6, <1>a DEF WorkerTakes, Take, Put, HandedOver, Sent, Given
  <1>7. ASSUME NEW m \in Job, Deliver(m) PROVE Sent'
    <2>1. mail[m] \in DOMAIN Producer
      BY <1>7, <1>a DEF Deliver, Perform, HandedOver
    <2>2. shown'[m] = Given(m).carries /\ mail' = mail
          /\ \A q \in Job \ {m} : shown'[q] = shown[q]
      BY <1>7, <2>1, <1>a, Producers DEF Deliver, Given
    <2>3. /\ effects' = [effects EXCEPT ![m] = effects[m] + 1] /\ UNCHANGED <<job, working>>
          /\ working = m
      BY <1>7 DEF Deliver, Perform
    <2> QED
      BY <2>2, <2>3, <1>a DEF Sent, Given
  <1>8. ASSUME NEW m \in Job, WorkerCompletes(m) PROVE Sent'
    BY <1>8, <1>a DEF WorkerCompletes, Complete, Put, Free, HandedOver, Sent, Given
  <1>9. ASSUME NEW m \in Job, WorkerFails(m) PROVE Sent'
    BY <1>9, <1>a DEF WorkerFails, Fail, Put, Free, HandedOver, Sent, Given
  <1>10. ASSUME NEW m \in Job, StalledChecked(m) PROVE Sent'
    BY <1>10, <1>a DEF StalledChecked, CheckStalled, Put, HandedOver, Sent, Given
  <1>11. ASSUME Crash PROVE Sent'
    BY <1>11, <1>b DEF Crash
  <1>12. ASSUME Restart PROVE Sent'
    BY <1>12, <1>a DEF Restart, HandedOver, Sent, Given
  <1>13. CASE UNCHANGED vars
    BY <1>13, <1>a DEF vars, HandedOver, Sent, Given
  <1> QED
    BY <1>1, <1>2, <1>3, <1>4, <1>5, <1>6, <1>7, <1>8, <1>9, <1>10, <1>11, <1>12,
       <1>13 DEF Next, Request, Worker

\* An add that nobody awaits ends with its outcome, or the process has died.
LEMMA UnawaitedStep == TypeOK /\ HandedOver /\ Unawaited /\ [Next]_vars => Unawaited'
  <1> SUFFICES ASSUME TypeOK /\ HandedOver /\ Unawaited, [Next]_vars PROVE Unawaited'
    OBVIOUS
  <1>a. /\ mail \in [Job -> DOMAIN Producer \union {"none"}]
        /\ adding \in [Job -> {"no", "pending", "accepted", "refused", "lost"}]
        /\ answer \in [Job -> {"none", "ok", "error", "broken"}]
        /\ crashes \in 0..MaxCrash
    BY DEF TypeOK
  <1>b.
               ASSUME NEW gone \in SUBSET {q \in Job : adding[q] = "pending"},
               crashes < MaxCrash, Die(gone)
        PROVE  Unawaited'
    BY <1>b, <1>a DEF Die, Abandon, Free, HandedOver, Unawaited, Given
  <1>1. ASSUME NEW m \in Job, NEW p \in DOMAIN Producer, HandOver(m, p) PROVE Unawaited'
    BY <1>1, <1>a DEF HandOver, HandedOver, Unawaited, Given
  <1>2. ASSUME NEW m \in Job, AddAccepted(m) PROVE Unawaited'
    BY <1>2, <1>a DEF AddAccepted, Accept, Put, HandedOver, Unawaited, Given
  <1>3. ASSUME NEW m \in Job, AddRefused(m) PROVE Unawaited'
    <2>1. CASE Given(m).awaited
      <3>1. mail[m] \in Awaited
        BY <1>3, <2>1, <1>a, Producers DEF AddRefused, HandedOver, Given
      <3> QED
        BY <1>3, <2>1, <3>1, <1>a DEF AddRefused, Unawaited
    <2>2. CASE ~ Given(m).awaited
      BY <1>3, <2>2, <1>b DEF AddRefused
    <2> QED
      BY <2>1, <2>2
  <1>4. ASSUME NEW m \in Job, AnswerAfterAdd(m) PROVE Unawaited'
    BY <1>4, <1>a DEF AnswerAfterAdd, HandedOver, Unawaited, Given
  <1>5. ASSUME NEW m \in Job, AnswerAtOnce(m) PROVE Unawaited'
    <2>1. mail[m] \notin Awaited
      BY <1>5, <1>a, Producers DEF AnswerAtOnce, Given
    <2> QED
      BY <1>5, <2>1, <1>a DEF AnswerAtOnce, Unawaited
  <1>6. ASSUME NEW m \in Job, WorkerTakes(m) PROVE Unawaited'
    BY <1>6, <1>a DEF WorkerTakes, Take, Put, HandedOver, Unawaited, Given
  <1>7. ASSUME NEW m \in Job, Deliver(m) PROVE Unawaited'
    BY <1>7, <1>a DEF Deliver, Perform, HandedOver, Unawaited, Given
  <1>8. ASSUME NEW m \in Job, WorkerCompletes(m) PROVE Unawaited'
    BY <1>8, <1>a DEF WorkerCompletes, Complete, Put, Free, HandedOver, Unawaited, Given
  <1>9. ASSUME NEW m \in Job, WorkerFails(m) PROVE Unawaited'
    BY <1>9, <1>a DEF WorkerFails, Fail, Put, Free, HandedOver, Unawaited, Given
  <1>10. ASSUME NEW m \in Job, StalledChecked(m) PROVE Unawaited'
    BY <1>10, <1>a DEF StalledChecked, CheckStalled, Put, HandedOver, Unawaited, Given
  <1>11. ASSUME Crash PROVE Unawaited'
    BY <1>11, <1>b DEF Crash
  <1>12. ASSUME Restart PROVE Unawaited'
    BY <1>12, <1>a DEF Restart, HandedOver, Unawaited, Given
  <1>13. CASE UNCHANGED vars
    BY <1>13, <1>a DEF vars, HandedOver, Unawaited, Given
  <1> QED
    BY <1>1, <1>2, <1>3, <1>4, <1>5, <1>6, <1>7, <1>8, <1>9, <1>10, <1>11, <1>12,
       <1>13 DEF Next, Request, Worker

-----------------------------------------------------------------------------
(* The mails: the theorems. *)

\* Nothing has been handed over, and the worker is free.
LEMMA MailBegins == Init => MailInv
  <1> SUFFICES ASSUME Init PROVE MailInv
    OBVIOUS
  <1>1. QueueInv
    BY QueueBegins DEF Init
  <1> USE DEF Init, QueueInit
  <1>2. MailTypeOK
    BY MaxCrashAssumption DEF MailTypeOK
  <1>3. HandedOver /\ Sent
    BY NoJobAssumption DEF HandedOver, Sent
  <1>4. Unawaited
    BY DEF Unawaited
  <1> QED
    BY <1>1, <1>2, <1>3, <1>4 DEF MailInv, QueueInv, TypeOK, MailTypeOK

\* In every behaviour of producers, queue and worker, wherever the process dies,
\* the inductive invariant holds throughout.
THEOREM MailInvariance == Spec => []MailInv
  <1>1. MailInv /\ [Next]_vars => MailInv'
    <2> SUFFICES ASSUME MailInv, [Next]_vars PROVE MailInv'
      OBVIOUS
    <2>1. QueueInv' /\ MailTypeOK'
      BY MailMoves, QueueKept, MailTyped DEF MailInv
    <2>2. (working # NoJob => up /\ job[working] = "active")'
      BY WorkerBusy DEF MailInv
    <2>3. TypeOK'
      BY <2>1, <2>2 DEF TypeOK, MailTypeOK, QueueInv
    <2>4. HandedOver' /\ Sent' /\ Unawaited'
      BY HandedOverStep, SentStep, UnawaitedStep DEF MailInv, QueueInv
    <2> QED
      BY <2>1, <2>3, <2>4 DEF MailInv
  <1> QED
    BY MailBegins, <1>1, PTL DEF Spec

\* A completed job was delivered, with the secret its producer handed over.
THEOREM CompletionIsTrue == Spec => []CompletedWasSent
  <1>1. MailInv => CompletedWasSent
    BY DEF MailInv, Sent, CompletedWasSent
  <1> QED
    BY <1>1, MailInvariance, PTL

\* A handler that awaits the queue and answers with success has its mail there;
\* a mail that nobody awaits is only lost with the process.
THEOREM SuccessIsTrue == Spec => []SuccessIsQueued
  <1>1. MailInv => SuccessIsQueued
    <2> SUFFICES ASSUME MailInv, NEW m \in Job, answer[m] = "ok"
                 PROVE  \/ adding[m] = "accepted"
                        \/ /\ mail[m] \notin {"register", "resend", "reset"}
                           /\ adding[m] = "pending" \/ crashes > 0
      BY DEF SuccessIsQueued
    <2>1. adding[m] \in {"pending", "accepted", "refused", "lost"}
      BY DEF MailInv, TypeOK, HandedOver
    <2> QED
      BY <2>1 DEF MailInv, Unawaited, Awaited
  <1> QED
    BY <1>1, MailInvariance, PTL

\* The safety half of ImplementsJobQueue for the mails: an accepted mail is sent
\* at most twice, and never after its job was settled.  That the job is settled
\* in the end is a matter of fairness.
THEOREM MailPromiseKept == Spec => Promise!Init /\ [][Promise!Next]_(Promise!vars)
  <1>1. Init => Promise!Init
    BY QueueBegins DEF Init
  <1>2. MailInv /\ [Next]_vars => [Promise!Next]_(Promise!vars)
    BY MailMoves, MovesArePromised DEF MailInv, Promised
  <1> QED
    BY <1>1, <1>2, MailInvariance, PTL DEF Spec

-----------------------------------------------------------------------------
(* The security events: the inductive invariant. *)

\* Each stage of an event comes after the one before it.
Stages ==
    \A e \in Job :
       /\ step[e] \in {"acted", "raised"} => punished[e]
       /\ listener[e] # "no" => punished[e] /\ step[e] = "raised"
       /\ effects[e] > 0 => job[e] # "none"

EventInv == EventTypeOK /\ QueueInv /\ Stages

\* EventTypeOK, the part of the handlers and the listener.
HandlerTypeOK ==
    /\ up \in BOOLEAN /\ live \in BOOLEAN /\ family \in BOOLEAN /\ faults \in BOOLEAN
    /\ source \in [Job -> Source \union {"none"}]
    /\ step \in [Job -> {"idle", "read", "acted", "raised", "silent", "broken"}]
    /\ listener \in [Job -> {"no", "pending", "accepted", "refused", "lost"}]
    /\ punished \in [Job -> BOOLEAN]
    /\ crashes \in 0..MaxCrash

QueueFits ==
    /\ \A e \in Job : (job[e] # "none") <=> (listener[e] = "accepted")
    /\ working # NoJob => up /\ job[working] = "active"

-----------------------------------------------------------------------------
(* The security events: the steps. *)

\* Every step moves the queue by one of its own steps, or not at all.
LEMMA EventMoves == [EventNext]_pipelineVars => Moved
  <1> SUFFICES ASSUME [EventNext]_pipelineVars PROVE Moved
    OBVIOUS
  <1> USE DEF Moved, QueueNext, QueueStep
  <1>1. ASSUME NEW e \in Job, NEW s \in Source, AttemptTooMany(e, s) PROVE Moved
    BY <1>1 DEF AttemptTooMany
  <1>2. ASSUME NEW e \in Job, Reuse(e) \/ Handler(e) PROVE Moved
    BY <1>2 DEF Reuse, Handler, Block, Punishes, Fails, Emit
  <1>3. ASSUME NEW e \in Job, Listener(e) PROVE Moved
    BY <1>3 DEF Listener, ListenerAdds, ListenerRefused
  <1>4. ASSUME NEW e \in Job, Recorder(e) PROVE Moved
    BY <1>4 DEF Recorder, RecorderTakes, Record, RecorderCompletes, RecorderFails
  <1>5. ASSUME NEW e \in Job, EventStalled(e) PROVE Moved
    BY <1>5 DEF EventStalled
  <1>6. CASE Unblock \/ EventCrash \/ EventRestart
    BY <1>6 DEF Unblock, EventCrash, EventRestart
  <1>7. CASE UNCHANGED pipelineVars
    BY <1>7 DEF pipelineVars
  <1> QED
    BY <1>1, <1>2, <1>3, <1>4, <1>5, <1>6, <1>7 DEF EventNext

\* The handlers and the listener keep their types.
LEMMA HandlerTyped == HandlerTypeOK /\ [EventNext]_pipelineVars => HandlerTypeOK'
  <1> SUFFICES ASSUME HandlerTypeOK, [EventNext]_pipelineVars PROVE HandlerTypeOK'
    OBVIOUS
  <1> USE DEF Goto, Login, Source
  <1>1. ASSUME NEW e \in Job, NEW s \in Source, AttemptTooMany(e, s) PROVE HandlerTypeOK'
    BY <1>1, MaxCrashAssumption DEF AttemptTooMany, HandlerTypeOK
  <1>2. ASSUME NEW e \in Job, Reuse(e) PROVE HandlerTypeOK'
    BY <1>2, MaxCrashAssumption DEF Reuse, Punishes, Fails, HandlerTypeOK
  <1>3. ASSUME NEW e \in Job, Block(e) PROVE HandlerTypeOK'
    BY <1>3, MaxCrashAssumption DEF Block, Punishes, Fails, HandlerTypeOK
  <1>4. ASSUME NEW e \in Job, Emit(e) PROVE HandlerTypeOK'
    BY <1>4, MaxCrashAssumption DEF Emit, HandlerTypeOK
  <1>5. ASSUME NEW e \in Job, ListenerAdds(e) PROVE HandlerTypeOK'
    BY <1>5, MaxCrashAssumption DEF ListenerAdds, Accept, Put, HandlerTypeOK
  <1>6. ASSUME NEW e \in Job, ListenerRefused(e) PROVE HandlerTypeOK'
    BY <1>6, MaxCrashAssumption DEF ListenerRefused, HandlerTypeOK
  <1>7. ASSUME NEW e \in Job, RecorderTakes(e) PROVE HandlerTypeOK'
    BY <1>7, MaxCrashAssumption DEF RecorderTakes, Take, Put, HandlerTypeOK
  <1>8. ASSUME NEW e \in Job, Record(e) PROVE HandlerTypeOK'
    BY <1>8, MaxCrashAssumption DEF Record, Perform, HandlerTypeOK
  <1>9. ASSUME NEW e \in Job, RecorderCompletes(e) PROVE HandlerTypeOK'
    BY <1>9, MaxCrashAssumption DEF RecorderCompletes, Complete, Put, Free, HandlerTypeOK
  <1>10. ASSUME NEW e \in Job, RecorderFails(e) PROVE HandlerTypeOK'
    BY <1>10, MaxCrashAssumption DEF RecorderFails, Fail, Put, Free, HandlerTypeOK
  <1>11. ASSUME NEW e \in Job, EventStalled(e) PROVE HandlerTypeOK'
    BY <1>11, MaxCrashAssumption DEF EventStalled, CheckStalled, Put, HandlerTypeOK
  <1>12. ASSUME Unblock PROVE HandlerTypeOK'
    BY <1>12, MaxCrashAssumption DEF Unblock, HandlerTypeOK
  <1>13. ASSUME EventCrash PROVE HandlerTypeOK'
    <2>1. crashes' \in 0..MaxCrash
      BY <1>13, MaxCrashAssumption DEF EventCrash, HandlerTypeOK
    <2>2. step' \in [Job -> {"idle", "read", "acted", "raised", "silent", "broken"}]
      BY <1>13 DEF EventCrash, HandlerTypeOK
    <2>3. listener' \in [Job -> {"no", "pending", "accepted", "refused", "lost"}]
      BY <1>13 DEF EventCrash, HandlerTypeOK
    <2> QED
      BY <1>13, <2>1, <2>2, <2>3 DEF EventCrash, HandlerTypeOK
  <1>14. ASSUME EventRestart PROVE HandlerTypeOK'
    BY <1>14, MaxCrashAssumption DEF EventRestart, HandlerTypeOK
  <1>15. CASE UNCHANGED pipelineVars
    BY <1>15, MaxCrashAssumption DEF pipelineVars, HandlerTypeOK
  <1> QED
    BY <1>1, <1>2, <1>3, <1>4, <1>5, <1>6, <1>7, <1>8, <1>9, <1>10, <1>11, <1>12,
       <1>13, <1>14, <1>15 DEF EventNext, Handler, Listener, Recorder

\* A job is in the queue once the listener has added it.
LEMMA QueueFitsStep ==
    QueueTypeOK /\ HandlerTypeOK /\ QueueFits /\ Stages /\ [EventNext]_pipelineVars => QueueFits'
  <1> SUFFICES ASSUME QueueTypeOK /\ HandlerTypeOK /\ QueueFits /\ Stages, [EventNext]_pipelineVars
               PROVE  QueueFits'
    OBVIOUS
  <1>a. /\ job \in [Job -> {"none", "waiting", "active", "completed", "failed"}]
        /\ effects \in [Job -> Nat] /\ stalled \in [Job -> BOOLEAN]
        /\ listener \in [Job -> {"no", "pending", "accepted", "refused", "lost"}]
        /\ step \in [Job -> {"idle", "read", "acted", "raised", "silent", "broken"}]
        /\ punished \in [Job -> BOOLEAN]
        /\ working \in Job \union {NoJob} /\ NoJob \notin Job
    BY NoJobAssumption DEF QueueTypeOK, HandlerTypeOK
  <1> USE DEF Goto
  <1>1. ASSUME NEW e \in Job, NEW s \in Source, AttemptTooMany(e, s) PROVE QueueFits'
    BY <1>1, <1>a DEF AttemptTooMany, QueueFits, Stages
  <1>2. ASSUME NEW e \in Job, Reuse(e) PROVE QueueFits'
    BY <1>2, <1>a DEF Reuse, Punishes, Fails, QueueFits, Stages
  <1>3. ASSUME NEW e \in Job, Block(e) PROVE QueueFits'
    BY <1>3, <1>a DEF Block, Punishes, Fails, QueueFits, Stages
  <1>4. ASSUME NEW e \in Job, Emit(e) PROVE QueueFits'
    BY <1>4, <1>a DEF Emit, QueueFits, Stages
  <1>5. ASSUME NEW e \in Job, ListenerAdds(e) PROVE QueueFits'
    BY <1>5, <1>a DEF ListenerAdds, Accept, Put, QueueFits, Stages
  <1>6. ASSUME NEW e \in Job, ListenerRefused(e) PROVE QueueFits'
    BY <1>6, <1>a DEF ListenerRefused, QueueFits, Stages
  <1>7. ASSUME NEW e \in Job, RecorderTakes(e) PROVE QueueFits'
    BY <1>7, <1>a DEF RecorderTakes, Take, Put, QueueFits, Stages
  <1>8. ASSUME NEW e \in Job, Record(e) PROVE QueueFits'
    BY <1>8, <1>a DEF Record, Perform, QueueFits, Stages
  <1>9. ASSUME NEW e \in Job, RecorderCompletes(e) PROVE QueueFits'
    BY <1>9, <1>a DEF RecorderCompletes, Complete, Put, Free, QueueFits, Stages
  <1>10. ASSUME NEW e \in Job, RecorderFails(e) PROVE QueueFits'
    BY <1>10, <1>a DEF RecorderFails, Fail, Put, Free, QueueFits, Stages
  <1>11. ASSUME NEW e \in Job, EventStalled(e) PROVE QueueFits'
    BY <1>11, <1>a DEF EventStalled, CheckStalled, Put, QueueFits, Stages
  <1>12. ASSUME Unblock PROVE QueueFits'
    BY <1>12, <1>a DEF Unblock, QueueFits, Stages
  <1>13. ASSUME EventCrash PROVE QueueFits'
    BY <1>13, <1>a DEF EventCrash, Abandon, Free, QueueFits, Stages
  <1>14. ASSUME EventRestart PROVE QueueFits'
    BY <1>14, <1>a DEF EventRestart, QueueFits, Stages
  <1>15. CASE UNCHANGED pipelineVars
    BY <1>15, <1>a DEF pipelineVars, QueueFits, Stages
  <1> QED
    BY <1>1, <1>2, <1>3, <1>4, <1>5, <1>6, <1>7, <1>8, <1>9, <1>10, <1>11, <1>12,
       <1>13, <1>14, <1>15 DEF EventNext, Handler, Listener, Recorder

\* No stage of an event is skipped.
LEMMA StagesStep ==
    QueueTypeOK /\ HandlerTypeOK /\ QueueFits /\ Stages /\ [EventNext]_pipelineVars => Stages'
  <1> SUFFICES ASSUME QueueTypeOK /\ HandlerTypeOK /\ QueueFits /\ Stages, [EventNext]_pipelineVars
               PROVE  Stages'
    OBVIOUS
  <1>a. /\ job \in [Job -> {"none", "waiting", "active", "completed", "failed"}]
        /\ effects \in [Job -> Nat] /\ stalled \in [Job -> BOOLEAN]
        /\ listener \in [Job -> {"no", "pending", "accepted", "refused", "lost"}]
        /\ step \in [Job -> {"idle", "read", "acted", "raised", "silent", "broken"}]
        /\ punished \in [Job -> BOOLEAN]
        /\ working \in Job \union {NoJob} /\ NoJob \notin Job
    BY NoJobAssumption DEF QueueTypeOK, HandlerTypeOK
  <1> USE DEF Goto
  <1>1. ASSUME NEW e \in Job, NEW s \in Source, AttemptTooMany(e, s) PROVE Stages'
    BY <1>1, <1>a DEF AttemptTooMany, QueueFits, Stages
  <1>2. ASSUME NEW e \in Job, Reuse(e) PROVE Stages'
    BY <1>2, <1>a DEF Reuse, Punishes, Fails, QueueFits, Stages
  <1>3. ASSUME NEW e \in Job, Block(e) PROVE Stages'
    BY <1>3, <1>a DEF Block, Punishes, Fails, QueueFits, Stages
  <1>4. ASSUME NEW e \in Job, Emit(e) PROVE Stages'
    BY <1>4, <1>a DEF Emit, QueueFits, Stages
  <1>5. ASSUME NEW e \in Job, ListenerAdds(e) PROVE Stages'
    BY <1>5, <1>a DEF ListenerAdds, Accept, Put, QueueFits, Stages
  <1>6. ASSUME NEW e \in Job, ListenerRefused(e) PROVE Stages'
    BY <1>6, <1>a DEF ListenerRefused, QueueFits, Stages
  <1>7. ASSUME NEW e \in Job, RecorderTakes(e) PROVE Stages'
    BY <1>7, <1>a DEF RecorderTakes, Take, Put, QueueFits, Stages
  <1>8. ASSUME NEW e \in Job, Record(e) PROVE Stages'
    BY <1>8, <1>a DEF Record, Perform, QueueFits, Stages
  <1>9. ASSUME NEW e \in Job, RecorderCompletes(e) PROVE Stages'
    BY <1>9, <1>a DEF RecorderCompletes, Complete, Put, Free, QueueFits, Stages
  <1>10. ASSUME NEW e \in Job, RecorderFails(e) PROVE Stages'
    BY <1>10, <1>a DEF RecorderFails, Fail, Put, Free, QueueFits, Stages
  <1>11. ASSUME NEW e \in Job, EventStalled(e) PROVE Stages'
    BY <1>11, <1>a DEF EventStalled, CheckStalled, Put, QueueFits, Stages
  <1>12. ASSUME Unblock PROVE Stages'
    BY <1>12, <1>a DEF Unblock, QueueFits, Stages
  <1>13. ASSUME EventCrash PROVE Stages'
    BY <1>13, <1>a DEF EventCrash, Abandon, Free, QueueFits, Stages
  <1>14. ASSUME EventRestart PROVE Stages'
    BY <1>14, <1>a DEF EventRestart, QueueFits, Stages
  <1>15. CASE UNCHANGED pipelineVars
    BY <1>15, <1>a DEF pipelineVars, QueueFits, Stages
  <1> QED
    BY <1>1, <1>2, <1>3, <1>4, <1>5, <1>6, <1>7, <1>8, <1>9, <1>10, <1>11, <1>12,
       <1>13, <1>14, <1>15 DEF EventNext, Handler, Listener, Recorder

-----------------------------------------------------------------------------
(* The security events: the theorems. *)

\* EventTypeOK falls into the three parts.
LEMMA EventParts == EventTypeOK <=> QueueTypeOK /\ HandlerTypeOK /\ QueueFits
  BY DEF EventTypeOK, HandlerTypeOK, QueueFits

\* Nothing has happened yet.
LEMMA EventsBegin == EventInit => EventInv
  <1> SUFFICES ASSUME EventInit PROVE EventInv
    OBVIOUS
  <1>1. QueueInv
    BY QueueBegins DEF EventInit
  <1> USE DEF EventInit, QueueInit
  <1>2. HandlerTypeOK
    <2>1. crashes \in 0..MaxCrash
      BY MaxCrashAssumption
    <2>2. /\ source \in [Job -> Source \union {"none"}] /\ punished \in [Job -> BOOLEAN]
          /\ step \in [Job -> {"idle", "read", "acted", "raised", "silent", "broken"}]
          /\ listener \in [Job -> {"no", "pending", "accepted", "refused", "lost"}]
      OBVIOUS
    <2> QED
      BY <2>1, <2>2 DEF HandlerTypeOK
  <1>3. QueueFits /\ Stages
    BY DEF QueueFits, Stages
  <1> QED
    BY <1>1, <1>2, <1>3, EventParts DEF EventInv, QueueInv

\* In every behaviour, whatever fails or dies, the inductive invariant holds.
THEOREM EventInvariance == EventSpec => []EventInv
  <1>1. EventInv /\ [EventNext]_pipelineVars => EventInv'
    <2> SUFFICES ASSUME EventInv, [EventNext]_pipelineVars PROVE EventInv'
      OBVIOUS
    <2>1. QueueInv'
      BY EventMoves, QueueKept DEF EventInv
    <2>2. HandlerTypeOK' /\ QueueFits' /\ Stages'
      BY EventParts, HandlerTyped, QueueFitsStep, StagesStep DEF EventInv
    <2>3. EventTypeOK'
      BY <2>1, <2>2 DEF QueueInv, EventTypeOK, HandlerTypeOK, QueueFits
    <2> QED
      BY <2>1, <2>2, <2>3 DEF EventInv
  <1> QED
    BY EventsBegin, <1>1, PTL DEF EventSpec

\* An event that is queued or recorded tells of a block or of a deletion that
\* committed.
THEOREM EventsAreTrue == EventSpec => []EventOfCommittedAct
  <1>1. EventInv => EventOfCommittedAct
    <2> SUFFICES ASSUME EventInv, NEW e \in Job, job[e] # "none" \/ effects[e] > 0
                 PROVE  punished[e]
      BY DEF EventOfCommittedAct
    <2>1. job[e] # "none"
      BY DEF EventInv, Stages
    <2>2. listener[e] # "no"
      BY <2>1, EventParts DEF EventInv, QueueFits
    <2> QED
      BY <2>2 DEF EventInv, Stages
  <1> QED
    BY <1>1, EventInvariance, PTL

\* The safety half of ImplementsJobQueue for the events: an accepted event is
\* recorded at most twice, and never after its job was settled.
THEOREM EventPromiseKept == EventSpec => Promise!Init /\ [][Promise!Next]_(Promise!vars)
  <1>1. EventInit => Promise!Init
    BY QueueBegins DEF EventInit
  <1>2. EventInv /\ [EventNext]_pipelineVars => [Promise!Next]_(Promise!vars)
    BY EventMoves, MovesArePromised DEF EventInv, Promised
  <1> QED
    BY <1>1, <1>2, EventInvariance, PTL DEF EventSpec
=============================================================================
