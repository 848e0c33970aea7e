------------------------------ MODULE Account ------------------------------
(***************************************************************************)
(* One registered account: failed-login counter, blocking and unblocking,  *)
(* activation and password reset.  The direct login and the OAuth login    *)
(* share the counter and the unblock codes, and handle a failure alike.    *)
(* The requests interleave at every await; each statement commits alone,   *)
(* none of these handlers uses a transaction.                              *)
(*                                                                         *)
(* Codes are six random digits, numbered here in the order they are drawn: *)
(* two equal draws are not modelled.  Passwords are numbered too, 0 is the *)
(* one chosen at registration.  A mail is handed to the mail queue by a    *)
(* call nobody awaits: what the queue then does with it is not part of     *)
(* this module.                                                            *)
(***************************************************************************)
EXTENDS Naturals, FiniteSets

CONSTANTS
    Req,          \* the requests that may be in progress at once
    MaxAttempts,  \* MAX_ATTEMPTS_FAILED, 5 in the code
    MaxFailures,  \* bound: logins that fail
    MaxCode,      \* bound: codes drawn
    MaxPass       \* bound: passwords set after registration

ASSUME BoundsAssumption ==
    {MaxAttempts, MaxFailures, MaxCode, MaxPass} \subseteq Nat

Code == 1..MaxCode
Pass == 0..MaxPass

VARIABLES
    verified, deleted, password,  \* the user row: is_verified, deleted_at, password
    attempts,      \* Redis failed-login-attempt-<email>; 0 when there is no key
    unblockCodes,  \* Redis unblock-account-<code>
    resetCodes,    \* Redis reset-password-<code>
    loggedIn,      \* an access token for the account is about
    lastCode, lastPass,
    pc, loc,       \* where each request stands, and what it remembers
    failures,      \* history: failed logins so far
    handed,        \* history: unblock codes handed to the mail queue, once stored
    blockedWith,   \* history: the code of the block that last set deleted_at
    known,         \* history: passwords the owner chose, or handed to the mail queue
    codeOf,        \* history: the unblock code a temporary password was set under
    lapsed,        \* history: codes that expired
    changes,       \* history: password changes answered per reset code
    activatedBy    \* history: types of the JWTs that activated the account

user    == <<verified, deleted, password>>
redis   == <<attempts, unblockCodes, resetCodes>>
drawn   == <<lastCode, lastPass>>
history == <<failures, handed, blockedWith, known, codeOf, lapsed, changes, activatedBy>>
vars    == <<user, redis, loggedIn, drawn, pc, loc, history>>

Step == {"idle", "failRead", "incRead", "incWrite", "lookup", "saveCode", "mailCode",
         "block1", "block2", "unblock", "unblockFind", "setTemp", "mailTemp", "clearCode",
         "clearAttempts", "activate", "saveReset", "newFind", "newApply"}
Local == [n: Nat, code: 0..MaxCode, pass: Pass, todo: SUBSET {"update", "clear"},
          token: {"email_verification", "access"}]
NoLocal == [n |-> 0, code |-> 0, pass |-> 0, todo |-> {}, token |-> "access"]

Init ==
    /\ verified = FALSE /\ deleted = FALSE /\ password = 0
    /\ attempts = 0 /\ unblockCodes = {} /\ resetCodes = {}
    /\ loggedIn = FALSE
    /\ lastCode = 0 /\ lastPass = 0
    /\ pc = [p \in Req |-> "idle"]
    /\ loc = [p \in Req |-> NoLocal]
    /\ failures = 0 /\ handed = {} /\ blockedWith = 0
    /\ known = {0} /\ codeOf = [n \in Pass |-> 0] /\ lapsed = {}
    /\ changes = [c \in Code |-> 0]
    /\ activatedBy = {}

At(p, step)   == pc[p] = step
Goto(p, step) == pc' = [pc EXCEPT ![p] = step]
Leave(p)      == Goto(p, "idle") /\ loc' = [loc EXCEPT ![p] = NoLocal]

\* SELECT skips a soft-deleted user; UPDATE by email does not.
Found == ~ deleted

TooManyEarly(n) == n + 1 >= MaxAttempts   \* mutant: off by one
TooMany(n) == n >= MaxAttempts

UpdateOnly == {"update"}                   \* mutant: the code is not deleted
Halves == {"update", "clear"}

-----------------------------------------------------------------------------
(* Login, direct or through OAuth. *)

\* mutant: nobody asks whether the address was verified
LoginUnverified ==
    /\ Found
    /\ loggedIn' = TRUE
    /\ UNCHANGED <<user, redis, drawn, pc, loc, history>>

\* Right password of a verified account.  The counter is left as it is.
LoginSucceed ==
    /\ Found /\ verified
    /\ loggedIn' = TRUE
    /\ UNCHANGED <<user, redis, drawn, pc, loc, history>>

\* Wrong password, or no such (live) user: the only failures that count.
LoginFail(p) ==
    /\ At(p, "idle")
    /\ failures < MaxFailures
    /\ failures' = failures + 1
    /\ Goto(p, "failRead")
    /\ UNCHANGED <<user, redis, loggedIn, drawn, loc, handed, blockedWith, known, codeOf,
                   lapsed, changes, activatedBy>>

FailRead(p) ==
    /\ At(p, "failRead")
    /\ Goto(p, IF TooMany(attempts) THEN "lookup" ELSE "incRead")
    /\ UNCHANGED <<user, redis, loggedIn, drawn, loc, history>>

\* setFailedLoginAttempt reads the counter again, then writes it plus one.
IncRead(p) ==
    /\ At(p, "incRead")
    /\ loc' = [loc EXCEPT ![p].n = attempts]
    /\ Goto(p, "incWrite")
    /\ UNCHANGED <<user, redis, loggedIn, drawn, history>>

IncWrite(p) ==
    /\ At(p, "incWrite")
    /\ attempts' = loc[p].n + 1
    /\ Leave(p)
    /\ UNCHANGED <<user, unblockCodes, resetCodes, loggedIn, drawn, history>>

\* mutant: the account is blocked before the code is stored
LookupThenBlock(p) ==
    /\ At(p, "lookup")
    /\ Found
    /\ lastCode < MaxCode
    /\ lastCode' = lastCode + 1
    /\ loc' = [loc EXCEPT ![p].code = lastCode + 1]
    /\ Goto(p, "block1")
    /\ UNCHANGED <<user, redis, loggedIn, lastPass, history>>

\* A blocked account is not found: no new code is drawn for it.
Lookup(p) ==
    /\ At(p, "lookup")
    /\ Found
    /\ lastCode < MaxCode
    /\ lastCode' = lastCode + 1
    /\ loc' = [loc EXCEPT ![p].code = lastCode + 1]
    /\ Goto(p, "saveCode")
    /\ UNCHANGED <<user, redis, loggedIn, lastPass, history>>

\* The code is stored, then its mail handed to the queue, before the account is blocked.
SaveCode(p) ==
    /\ At(p, "saveCode")
    /\ unblockCodes' = unblockCodes \cup {loc[p].code}
    /\ Goto(p, "mailCode")
    /\ UNCHANGED <<user, attempts, resetCodes, loggedIn, drawn, loc, history>>

MailCode(p) ==
    /\ At(p, "mailCode")
    /\ handed' = handed \cup {loc[p].code}
    /\ Goto(p, "block1")
    /\ UNCHANGED <<user, redis, loggedIn, drawn, loc, failures, blockedWith, known, codeOf,
                   lapsed, changes, activatedBy>>

Block1(p) ==
    /\ At(p, "block1")
    /\ verified' = FALSE
    /\ Goto(p, "block2")
    /\ UNCHANGED <<deleted, password, redis, loggedIn, drawn, loc, history>>

Block2(p) ==
    /\ At(p, "block2")
    /\ deleted' = TRUE
    /\ blockedWith' = loc[p].code
    /\ Leave(p)
    /\ UNCHANGED <<verified, password, redis, loggedIn, drawn, failures, handed, known,
                   codeOf, lapsed, changes, activatedBy>>

-----------------------------------------------------------------------------
(* POST /unblock-account: the code is read, and deleted only at the end.  *)
(* Whoever presents a code was mailed it: guessed codes are not modelled. *)

\* mutant: the code is consumed when it is read
UnblockConsume(p, c) ==
    /\ At(p, "idle")
    /\ c \in unblockCodes \cap handed
    /\ unblockCodes' = unblockCodes \ {c}
    /\ loc' = [loc EXCEPT ![p].code = c]
    /\ Goto(p, "unblock")
    /\ UNCHANGED <<user, attempts, resetCodes, loggedIn, drawn, history>>

UnblockRead(p, c) ==
    /\ At(p, "idle")
    /\ c \in unblockCodes \cap handed
    /\ loc' = [loc EXCEPT ![p].code = c]
    /\ Goto(p, "unblock")
    /\ UNCHANGED <<user, redis, loggedIn, drawn, history>>

Unblock(p) ==
    /\ At(p, "unblock")
    /\ verified' = TRUE
    /\ deleted' = FALSE
    /\ Goto(p, "unblockFind")
    /\ UNCHANGED <<password, redis, loggedIn, drawn, loc, history>>

UnblockFind(p) ==
    /\ At(p, "unblockFind")
    /\ Found
    /\ Goto(p, "setTemp")
    /\ UNCHANGED <<user, redis, loggedIn, drawn, loc, history>>

SetTemp(p) ==
    LET n == lastPass + 1 IN
    /\ At(p, "setTemp")
    /\ n \in Pass
    /\ lastPass' = n
    /\ password' = n
    /\ codeOf' = [codeOf EXCEPT ![n] = loc[p].code]
    /\ loc' = [loc EXCEPT ![p].pass = n]
    /\ Goto(p, "mailTemp")
    /\ UNCHANGED <<verified, deleted, redis, loggedIn, lastCode, failures, handed,
                   blockedWith, known, lapsed, changes, activatedBy>>

\* Promise.all: the mail is handed to the queue, then the two keys are deleted.
MailTemp(p) ==
    /\ At(p, "mailTemp")
    /\ known' = known \cup {loc[p].pass}
    /\ Goto(p, "clearCode")
    /\ UNCHANGED <<user, redis, loggedIn, drawn, loc, failures, handed, blockedWith, codeOf,
                   lapsed, changes, activatedBy>>

ClearCode(p) ==
    /\ At(p, "clearCode")
    /\ unblockCodes' = unblockCodes \ {loc[p].code}
    /\ Goto(p, "clearAttempts")
    /\ UNCHANGED <<user, attempts, resetCodes, loggedIn, drawn, loc, history>>

ClearAttempts(p) ==
    /\ At(p, "clearAttempts")
    /\ attempts' = 0
    /\ Leave(p)
    /\ UNCHANGED <<user, unblockCodes, resetCodes, loggedIn, drawn, history>>

-----------------------------------------------------------------------------
(* GET /verify-email: any JWT the service signed for the account is taken. *)

ActivateRead(p, token) ==
    /\ At(p, "idle")
    /\ token = "access" => loggedIn
    /\ Found /\ ~ verified
    /\ loc' = [loc EXCEPT ![p].token = token]
    /\ Goto(p, "activate")
    /\ UNCHANGED <<user, redis, loggedIn, drawn, history>>

Activate(p) ==
    /\ At(p, "activate")
    /\ verified' = TRUE
    /\ activatedBy' = activatedBy \cup {loc[p].token}
    /\ Leave(p)
    /\ UNCHANGED <<deleted, password, redis, loggedIn, drawn, failures, handed, blockedWith,
                   known, codeOf, lapsed, changes>>

-----------------------------------------------------------------------------
(* POST /reset-password and POST /new-password. *)

ResetFind(p) ==
    /\ At(p, "idle")
    /\ Found /\ verified
    /\ Goto(p, "saveReset")
    /\ UNCHANGED <<user, redis, loggedIn, drawn, loc, history>>

SaveReset(p) ==
    /\ At(p, "saveReset")
    /\ lastCode < MaxCode
    /\ lastCode' = lastCode + 1
    /\ resetCodes' = resetCodes \cup {lastCode + 1}
    /\ Leave(p)
    /\ UNCHANGED <<user, attempts, unblockCodes, loggedIn, lastPass, history>>

\* consumeResetPasswordCodeOTP only reads the code.
NewRead(p, c) ==
    /\ At(p, "idle")
    /\ c \in resetCodes
    /\ loc' = [loc EXCEPT ![p].code = c]
    /\ Goto(p, "newFind")
    /\ UNCHANGED <<user, redis, loggedIn, drawn, history>>

NewFind(p) ==
    /\ At(p, "newFind")
    /\ Found /\ verified
    /\ loc' = [loc EXCEPT ![p].todo = Halves]
    /\ Goto(p, "newApply")
    /\ UNCHANGED <<user, redis, loggedIn, drawn, history>>

\* The two halves of Promise.all end in either order; the second one answers.
Finish(p, part) ==
    IF loc[p].todo = {part}
      THEN /\ changes' = [changes EXCEPT ![loc[p].code] = @ + 1]
           /\ Leave(p)
      ELSE /\ loc' = [loc EXCEPT ![p].todo = @ \ {part}]
           /\ UNCHANGED <<pc, changes>>

NewUpdate(p) ==
    LET n == lastPass + 1 IN
    /\ At(p, "newApply") /\ "update" \in loc[p].todo
    /\ n \in Pass
    /\ lastPass' = n
    /\ password' = n
    /\ known' = known \cup {n}
    /\ Finish(p, "update")
    /\ UNCHANGED <<verified, deleted, redis, loggedIn, lastCode, failures, handed,
                   blockedWith, codeOf, lapsed, activatedBy>>

NewClear(p) ==
    /\ At(p, "newApply") /\ "clear" \in loc[p].todo
    /\ resetCodes' = resetCodes \ {loc[p].code}
    /\ Finish(p, "clear")
    /\ UNCHANGED <<user, attempts, unblockCodes, loggedIn, drawn, failures, handed,
                   blockedWith, known, codeOf, lapsed, activatedBy>>

-----------------------------------------------------------------------------
\* A guard throws, a call rejects or the process dies; what was done stays done.
Abort(p) ==
    /\ ~ At(p, "idle")
    /\ Leave(p)
    /\ UNCHANGED <<user, redis, loggedIn, drawn, history>>

\* The 900 s of the counter pass.
AttemptsLapse ==
    /\ attempts # 0
    /\ attempts' = 0
    /\ UNCHANGED <<user, unblockCodes, resetCodes, loggedIn, drawn, pc, loc, history>>

\* The 300 s of an unblock code or the 600 s of a reset code pass.
CodeLapse(c) ==
    /\ c \in unblockCodes \cup resetCodes
    /\ unblockCodes' = unblockCodes \ {c}
    /\ resetCodes' = resetCodes \ {c}
    /\ lapsed' = lapsed \cup {c}
    /\ UNCHANGED <<user, attempts, loggedIn, drawn, pc, loc, failures, handed, blockedWith,
                   known, codeOf, changes, activatedBy>>

Next ==
    \/ LoginSucceed \/ AttemptsLapse
    \/ \E c \in Code : CodeLapse(c)
    \/ \E p \in Req :
          \/ LoginFail(p) \/ FailRead(p) \/ IncRead(p) \/ IncWrite(p)
          \/ Lookup(p) \/ SaveCode(p) \/ MailCode(p) \/ Block1(p) \/ Block2(p)
          \/ \E c \in Code : UnblockRead(p, c) \/ NewRead(p, c)
          \/ Unblock(p) \/ UnblockFind(p) \/ SetTemp(p) \/ MailTemp(p)
          \/ ClearCode(p) \/ ClearAttempts(p)
          \/ \E t \in {"email_verification", "access"} : ActivateRead(p, t)
          \/ Activate(p)
          \/ ResetFind(p) \/ SaveReset(p) \/ NewFind(p) \/ NewUpdate(p) \/ NewClear(p)
          \/ Abort(p)

Spec == Init /\ [][Next]_vars

-----------------------------------------------------------------------------
(* Properties. *)

TypeOK ==
    /\ verified \in BOOLEAN /\ deleted \in BOOLEAN /\ password \in Pass
    /\ attempts \in 0..MaxFailures
    /\ unblockCodes \subseteq Code /\ resetCodes \subseteq Code
    /\ unblockCodes \cap resetCodes = {}
    /\ loggedIn \in BOOLEAN
    /\ lastCode \in 0..MaxCode /\ lastPass \in Pass
    /\ pc \in [Req -> Step] /\ loc \in [Req -> Local]
    /\ failures \in 0..MaxFailures /\ handed \subseteq Code
    /\ blockedWith \in 0..MaxCode /\ known \subseteq Pass
    /\ codeOf \in [Pass -> 0..MaxCode] /\ lapsed \subseteq Code
    /\ changes \in [Code -> Nat]
    /\ activatedBy \subseteq {"email_verification", "access"}

\* A block takes more failed logins than MAX_ATTEMPTS_FAILED, however the reads
\* and writes of the counter interleave, lapse or are lost: the counter never
\* runs ahead of the failures.
BlockNeedsFailures ==
    /\ attempts <= failures
    /\ blockedWith # 0 => failures > MaxAttempts

\* Whenever the account is soft-deleted, the code that undoes it had been stored
\* and handed to the mail queue, wherever the blocking request was interrupted.
BlockedHasCode == deleted => blockedWith \in handed

\* Two unblocks with one code each set a password of their own, and one may
\* stop anywhere: there is a way in.  The password was handed to the mail queue,
\* or is about to be, or the code can still be used or ran out; or the owner was
\* mailed another password of the same code and knows of the unblock.
PasswordRecoverable ==
    \/ password \in known
    \/ \E p \in Req : At(p, "mailTemp") /\ loc[p].pass = password
    \/ codeOf[password] \in unblockCodes \cup lapsed
    \/ codeOf[password] # 0 /\ \E n \in known : codeOf[n] = codeOf[password]

\* A reset code whose use was answered is gone: no later request can use it.
AnsweredCodeGone == \A c \in Code : changes[c] > 0 => c \notin resetCodes

\* The activation takes any JWT of the account, yet an access token is never
\* what first proves the address: to have one, its owner was verified by a
\* mailed token, or an unblock code had been mailed to the address.
AddressProved ==
    "access" \in activatedBy => "email_verification" \in activatedBy \/ handed # {}
=============================================================================
