---------------------------- MODULE Registration ----------------------------
(***************************************************************************)
(* How an account comes to be: POST /user, the activation mail, and POST   *)
(* /auth/new-token-to-email for another one.  Registrations of the same    *)
(* address interleave at every await; no handler uses a transaction, and   *)
(* the one thing that keeps addresses apart is the unique key of the       *)
(* table.  Account has the life of an account that exists; of it, what     *)
(* changes verified and deleted_at is one step each here.                  *)
(*                                                                         *)
(* A row remembers the request that inserted it: its name, its password.   *)
(***************************************************************************)
CONSTANTS
    Req,         \* the requests: each is sent once
    Email        \* the addresses

VARIABLES
    rows,        \* the user table
    queued,      \* the mails the queue accepted
    pc, email,   \* where each request stands, and the address it names
    answer       \* what each request was told

vars == <<rows, queued, pc, email, answer>>

Row    == [email: Email, owner: Req, verified: BOOLEAN, deleted: BOOLEAN]
Mail   == [kind: {"activation", "block-account"}, email: Email, by: Req \cup {"login"}]
Step   == {"idle", "create", "token", "mail", "resendToken", "resendMail", "over"}
Answer == {"none", "created", "sent", "conflict", "refused", "failed"}

TypeOK ==
    /\ rows \subseteq Row
    /\ \A r, s \in rows : r.email = s.email => r = s
    /\ queued \subseteq Mail
    /\ pc \in [Req -> Step] /\ email \in [Req -> Email] /\ answer \in [Req -> Answer]
    /\ \A p \in Req : answer[p] # "none" => pc[p] = "over"

Init ==
    /\ rows = {} /\ queued = {}
    /\ pc = [p \in Req |-> "idle"]
    /\ email \in [Req -> Email]
    /\ answer = [p \in Req |-> "none"]

At(p, step)   == pc[p] = step
Goto(p, step) == pc' = [pc EXCEPT ![p] = step]

\* The request ends with an answer; one that dies is told nothing.
Tell(p, what) ==
    /\ Goto(p, "over")
    /\ answer' = [answer EXCEPT ![p] = what]

\* A SELECT skips the soft-deleted row of a blocked account, the unique key and
\* an UPDATE do not.
Found(e)  == {r \in rows : r.email = e /\ ~ r.deleted}
Taken(e)  == \E r \in rows : r.email = e

BornVerified(p) == [email |-> email[p], owner |-> p, verified |-> TRUE, deleted |-> FALSE]
                                        \* mutant: the other default
NewUser(p) == [email |-> email[p], owner |-> p, verified |-> FALSE, deleted |-> FALSE]

-----------------------------------------------------------------------------
(* POST /user. *)

\* existsUser.  The password is hashed before the row is written.
Register(p) ==
    /\ At(p, "idle")
    /\ IF Found(email[p]) # {} THEN Tell(p, "conflict") ELSE Goto(p, "create") /\ UNCHANGED answer
    /\ UNCHANGED <<rows, queued, email>>

\* mutant: the table has no unique key
Duplicate(p) ==
    /\ At(p, "create")
    /\ rows' = rows \cup {NewUser(p)}
    /\ Goto(p, "token")
    /\ UNCHANGED <<queued, email, answer>>

\* mutant: the row of that address is overwritten
Upsert(p) ==
    /\ At(p, "create")
    /\ rows' = {r \in rows : r.email # email[p]} \cup {NewUser(p)}
    /\ Goto(p, "token")
    /\ UNCHANGED <<queued, email, answer>>

\* save: an INSERT, and the error of the unique key is nobody's business.
Create(p) ==
    /\ At(p, "create")
    /\ IF Taken(email[p])
       THEN Tell(p, "failed") /\ UNCHANGED rows
       ELSE /\ rows' = rows \cup {NewUser(p)}
            /\ Goto(p, "token")
            /\ UNCHANGED answer
    /\ UNCHANGED <<queued, email>>

\* generateEmailVerificationToken: a JWT of the address; it is stored nowhere.
SignToken(p) ==
    /\ \/ At(p, "token") /\ Goto(p, "mail")
       \/ At(p, "resendToken") /\ Goto(p, "resendMail")
    /\ UNCHANGED <<rows, queued, email, answer>>

ActivationMail(p) == [kind |-> "activation", email |-> email[p], by |-> p]

\* mutant: the registration does not wait for the queue
MailForgotten(p) ==
    /\ At(p, "mail")
    /\ Tell(p, "created")
    /\ queued' \in {queued, queued \cup {ActivationMail(p)}}
    /\ UNCHANGED <<rows, email>>

\* The queue accepts the mail, or the caller is told of a failure.
SendActivation(p) ==
    /\ At(p, "mail")
    /\ \/ Tell(p, "created") /\ queued' = queued \cup {ActivationMail(p)}
       \/ Tell(p, "failed") /\ UNCHANGED queued
    /\ UNCHANGED <<rows, email>>

-----------------------------------------------------------------------------
(* POST /new-token/email-active: another activation mail. *)

\* isVerifiedAccount(sendNewTokenToEmailActive) refuses a verified account.
Resend(p) ==
    /\ At(p, "idle")
    /\ IF \E r \in Found(email[p]) : ~ r.verified
       THEN Goto(p, "resendToken") /\ UNCHANGED answer
       ELSE Tell(p, "refused")
    /\ UNCHANGED <<rows, queued, email>>

ResendMail(p) ==
    /\ At(p, "resendMail")
    /\ \/ Tell(p, "sent") /\ queued' = queued \cup {ActivationMail(p)}
       \/ Tell(p, "failed") /\ UNCHANGED queued
    /\ UNCHANGED <<rows, email>>

-----------------------------------------------------------------------------
(* What else writes the row; each UPDATE is by address. *)

Update(e, set(_)) == rows' = {IF r.email = e THEN set(r) ELSE r : r \in rows}

Verified(r)   == [r EXCEPT !.verified = TRUE]
Unverified(r) == [r EXCEPT !.verified = FALSE]
Deleted(r)    == [r EXCEPT !.deleted = TRUE]
Unblocked(r)  == [Verified(r) EXCEPT !.deleted = FALSE]

\* GET /verify-email, with a token that was mailed to the address; the row
\* may change between the handler's look-up and its UPDATE.
Activate(e) ==
    /\ \E m \in queued : m.kind = "activation" /\ m.email = e
    /\ Taken(e)
    /\ Update(e, Verified)
    /\ UNCHANGED <<queued, pc, email, answer>>

\* Too many failed logins: the code is mailed, by a call nobody awaits and that
\* may come to nothing, and two UPDATEs follow.
BlockMail(e) ==
    /\ Found(e) # {}
    /\ queued' = queued \cup {[kind |-> "block-account", email |-> e, by |-> "login"]}
    /\ UNCHANGED <<rows, pc, email, answer>>

Block(e) ==
    /\ Taken(e)
    /\ \/ Update(e, Unverified)
       \/ Update(e, Deleted)
    /\ UNCHANGED <<queued, pc, email, answer>>

\* POST /unblock-account, with the code that was mailed to the address.
Unblock(e) ==
    /\ \E m \in queued : m.kind = "block-account" /\ m.email = e
    /\ Update(e, Unblocked)
    /\ UNCHANGED <<queued, pc, email, answer>>

-----------------------------------------------------------------------------
\* The process dies, or a step throws: what was done stays done.
Abort(p) ==
    /\ pc[p] \notin {"idle", "over"}
    /\ \/ Goto(p, "over") /\ UNCHANGED answer
       \/ Tell(p, "failed")
    /\ UNCHANGED <<rows, queued, email>>

Next ==
    \/ \E p \in Req :
          \/ Register(p) \/ Create(p) \/ SignToken(p) \/ SendActivation(p)
          \/ Resend(p) \/ ResendMail(p) \/ Abort(p)
    \/ \E e \in Email : Activate(e) \/ BlockMail(e) \/ Block(e) \/ Unblock(e)

Spec == Init /\ [][Next]_vars

-----------------------------------------------------------------------------
(* Properties. *)

\* Who is told "User created" owns the account of the address for good, however
\* many registered it at once, and the mail that activates it is queued; who is
\* told of a sent mail has one queued to an account that exists.
AnswerIsTrue ==
    \A p \in Req :
        /\ answer[p] \in {"created", "sent"} => Taken(email[p]) /\ ActivationMail(p) \in queued
        /\ answer[p] = "created" => \A r \in rows : r.email = email[p] => r.owner = p

\* No account is verified unless a mail that proves the address was queued to it:
\* an activation mail, or the code of a block.
VerifiedHasMail ==
    \A r \in rows : r.verified => \E m \in queued : m.email = r.email

\* No request takes an existing account over or removes it: neither a second
\* registration, nor one of an address that is blocked and therefore not found.
OwnerKept ==
    [][\A r \in rows : \E s \in rows' : s.email = r.email /\ s.owner = r.owner]_vars
=============================================================================
