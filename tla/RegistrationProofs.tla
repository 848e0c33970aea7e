-------------------------- MODULE RegistrationProofs --------------------------
(***************************************************************************)
(* Proofs of the safety of Registration, for any sets of requests and      *)
(* addresses: what a caller is told stays true, an account is verified     *)
(* only once its address was mailed, and nobody takes an account over.     *)
(***************************************************************************)
EXTENDS Registration, TLAPS

-----------------------------------------------------------------------------
(* The inductive invariant. *)

RequestsTyped ==
    /\ pc \in [Req -> Step] /\ email \in [Req -> Email] /\ answer \in [Req -> Answer]
    /\ \A p \in Req : answer[p] # "none" => pc[p] = "over"

RowsTyped == rows \subseteq Row /\ queued \subseteq Mail

\* The unique key of the table.
OneRowEach == \A r, s \in rows : r.email = s.email => r = s

\* The account of the address is that of the request.
Owns(p) == \E r \in rows : r.email = email[p] /\ r.owner = p

\* A registration that has written its row keeps it, and a mail that is asked
\* for once more is for an account that exists.
RowsBehindRequests ==
    \A p \in Req :
       /\ pc[p] \in {"token", "mail"} \/ answer[p] = "created" => Owns(p)
       /\ pc[p] \in {"resendToken", "resendMail"} \/ answer[p] = "sent" => Taken(email[p])
       /\ answer[p] \in {"created", "sent"} => ActivationMail(p) \in queued

IInv ==
    /\ RequestsTyped /\ RowsTyped /\ OneRowEach
    /\ RowsBehindRequests /\ VerifiedHasMail

\* What a step does to the accounts and the mails.
RowsKept ==
    /\ \A r \in rows : \E s \in rows' : s.email = r.email /\ s.owner = r.owner
    /\ queued \subseteq queued' /\ email' = email

\* An UPDATE of the rows of an address.
Updates(e) ==
    Update(e, Verified) \/ Update(e, Unverified) \/ Update(e, Deleted) \/ Update(e, Unblocked)

\* Every row becomes one of the same address and owner.
RowsUpdated ==
    \E F \in [rows -> Row] :
       /\ rows' = {F[r] : r \in rows}
       /\ \A r \in rows : F[r].email = r.email /\ F[r].owner = r.owner

\* That is what each of the four does.
LEMMA UpdatesAreRowwise ==
    ASSUME RowsTyped, NEW e \in Email, Updates(e)
    PROVE  RowsUpdated
  <1>a. rows \subseteq Row
    BY DEF RowsTyped
  <1>1. CASE Update(e, Verified)
    <2> DEFINE F == [r \in rows |-> IF r.email = e THEN Verified(r) ELSE r]
    <2>1. F \in [rows -> Row] /\ \A r \in rows : F[r].email = r.email /\ F[r].owner = r.owner
      BY <1>a DEF Verified, Row
    <2>2. rows' = {F[r] : r \in rows}
      BY <1>1 DEF Update
    <2> QED
      BY <2>1, <2>2 DEF RowsUpdated
  <1>2. CASE Update(e, Unverified)
    <2> DEFINE F == [r \in rows |-> IF r.email = e THEN Unverified(r) ELSE r]
    <2>1. F \in [rows -> Row] /\ \A r \in rows : F[r].email = r.email /\ F[r].owner = r.owner
      BY <1>a DEF Unverified, Row
    <2>2. rows' = {F[r] : r \in rows}
      BY <1>2 DEF Update
    <2> QED
      BY <2>1, <2>2 DEF RowsUpdated
  <1>3. CASE Update(e, Deleted)
    <2> DEFINE F == [r \in rows |-> IF r.email = e THEN Deleted(r) ELSE r]
    <2>1. F \in [rows -> Row] /\ \A r \in rows : F[r].email = r.email /\ F[r].owner = r.owner
      BY <1>a DEF Deleted, Row
    <2>2. rows' = {F[r] : r \in rows}
      BY <1>3 DEF Update
    <2> QED
      BY <2>1, <2>2 DEF RowsUpdated
  <1>4. CASE Update(e, Unblocked)
    <2> DEFINE F == [r \in rows |-> IF r.email = e THEN Unblocked(r) ELSE r]
    <2>1. F \in [rows -> Row] /\ \A r \in rows : F[r].email = r.email /\ F[r].owner = r.owner
      BY <1>a DEF Unblocked, Verified, Row
    <2>2. rows' = {F[r] : r \in rows}
      BY <1>4 DEF Update
    <2> QED
      BY <2>1, <2>2 DEF RowsUpdated
  <1> QED
    BY <1>1, <1>2, <1>3, <1>4 DEF Updates

\* So no row is lost, changes hands or comes twice.
LEMMA RowwiseKeeps ==
    ASSUME RowsTyped, RowsUpdated
    PROVE  /\ \A r \in rows : \E s \in rows' : s.email = r.email /\ s.owner = r.owner
           /\ OneRowEach => OneRowEach'
  <1>1. PICK F \in [rows -> Row] :
           /\ rows' = {F[r] : r \in rows}
           /\ \A r \in rows : F[r].email = r.email /\ F[r].owner = r.owner
    BY DEF RowsUpdated
  <1>2. \A r \in rows : \E s \in rows' : s.email = r.email /\ s.owner = r.owner
    BY <1>1
  <1>3. ASSUME OneRowEach, NEW s \in rows', NEW t \in rows', s.email = t.email
        PROVE  s = t
    <2>1. PICK r \in rows : s = F[r]
      BY <1>1
    <2>2. PICK q \in rows : t = F[q]
      BY <1>1
    <2>3. r.email = q.email
      BY <1>1, <1>3, <2>1, <2>2
    <2> QED
      BY <1>3, <2>1, <2>2, <2>3 DEF OneRowEach
  <1> QED
    BY <1>2, <1>3 DEF OneRowEach

-----------------------------------------------------------------------------
(* What every step preserves, part by part. *)

\* A request is told something when it is over, and only then.
LEMMA RequestsTypedStep == RequestsTyped /\ [Next]_vars => RequestsTyped'
  <1> SUFFICES ASSUME RequestsTyped, [Next]_vars PROVE RequestsTyped'
    OBVIOUS
  <1> USE DEF At, Goto, Tell, Step, Answer
  <1>1. ASSUME NEW p \in Req, Register(p) PROVE RequestsTyped'
    BY <1>1 DEF Register, RequestsTyped
  <1>2. ASSUME NEW p \in Req, Create(p) PROVE RequestsTyped'
    BY <1>2 DEF Create, RequestsTyped
  <1>3. ASSUME NEW p \in Req, SignToken(p) PROVE RequestsTyped'
    BY <1>3 DEF SignToken, RequestsTyped
  <1>4. ASSUME NEW p \in Req, SendActivation(p) PROVE RequestsTyped'
    BY <1>4 DEF SendActivation, RequestsTyped
  <1>5. ASSUME NEW p \in Req, Resend(p) PROVE RequestsTyped'
    BY <1>5 DEF Resend, RequestsTyped
  <1>6. ASSUME NEW p \in Req, ResendMail(p) PROVE RequestsTyped'
    BY <1>6 DEF ResendMail, RequestsTyped
  <1>7. ASSUME NEW p \in Req, Abort(p) PROVE RequestsTyped'
    BY <1>7 DEF Abort, RequestsTyped
  <1>8. ASSUME NEW e \in Email, Activate(e) PROVE RequestsTyped'
    BY <1>8 DEF Activate, RequestsTyped
  <1>9. ASSUME NEW e \in Email, BlockMail(e) PROVE RequestsTyped'
    BY <1>9 DEF BlockMail, RequestsTyped
  <1>10. ASSUME NEW e \in Email, Block(e) PROVE RequestsTyped'
    BY <1>10 DEF Block, RequestsTyped
  <1>11. ASSUME NEW e \in Email, Unblock(e) PROVE RequestsTyped'
    BY <1>11 DEF Unblock, RequestsTyped
  <1>12. CASE UNCHANGED vars
    BY <1>12 DEF vars, RequestsTyped
  <1> QED
    BY <1>1, <1>2, <1>3, <1>4, <1>5, <1>6, <1>7, <1>8, <1>9, <1>10, <1>11, <1>12 DEF
       Next

\* The table and the queue keep their types.
LEMMA RowsTypedStep == RequestsTyped /\ RowsTyped /\ [Next]_vars => RowsTyped'
  <1> SUFFICES ASSUME RequestsTyped /\ RowsTyped, [Next]_vars PROVE RowsTyped'
    OBVIOUS
  <1>a. /\ pc \in [Req -> Step] /\ email \in [Req -> Email] /\ answer \in [Req -> Answer]
        /\ rows \subseteq Row
        /\ \A p \in Req : answer[p] # "none" => pc[p] = "over"
    BY DEF RequestsTyped, RowsTyped
  <1> USE DEF At, Goto, Tell
  <1>1. ASSUME NEW p \in Req, Register(p) PROVE RowsTyped'
    BY <1>1, <1>a DEF Register, RowsTyped, Row, Mail
  <1>2. ASSUME NEW p \in Req, Create(p) PROVE RowsTyped'
    <2>1. CASE Taken(email[p])
      BY <1>2, <2>1, <1>a DEF Create, RowsTyped
    <2>2. CASE ~ Taken(email[p])
      <3>1. NewUser(p) \in Row
        BY <1>a DEF NewUser, Row
      <3> QED
        BY <1>2, <2>2, <3>1 DEF Create, RowsTyped
    <2> QED
      BY <2>1, <2>2
  <1>3. ASSUME NEW p \in Req, SignToken(p) PROVE RowsTyped'
    BY <1>3, <1>a DEF SignToken, RowsTyped, Row, Mail
  <1>4. ASSUME NEW p \in Req, SendActivation(p) PROVE RowsTyped'
    BY <1>4, <1>a DEF SendActivation, ActivationMail, RowsTyped, Row, Mail
  <1>5. ASSUME NEW p \in Req, Resend(p) PROVE RowsTyped'
    BY <1>5, <1>a DEF Resend, RowsTyped, Row, Mail
  <1>6. ASSUME NEW p \in Req, ResendMail(p) PROVE RowsTyped'
    BY <1>6, <1>a DEF ResendMail, ActivationMail, RowsTyped, Row, Mail
  <1>7. ASSUME NEW p \in Req, Abort(p) PROVE RowsTyped'
    BY <1>7, <1>a DEF Abort, RowsTyped, Row, Mail
  <1>8. ASSUME NEW e \in Email, Activate(e) PROVE RowsTyped'
    BY <1>8, <1>a DEF Activate, Update, Verified, RowsTyped, Row, Mail
  <1>9. ASSUME NEW e \in Email, BlockMail(e) PROVE RowsTyped'
    BY <1>9, <1>a DEF BlockMail, RowsTyped, Row, Mail
  <1>10. ASSUME NEW e \in Email, Block(e) PROVE RowsTyped'
    BY <1>10, <1>a DEF Block, Update, Unverified, Deleted, RowsTyped, Row, Mail
  <1>11. ASSUME NEW e \in Email, Unblock(e) PROVE RowsTyped'
    BY <1>11, <1>a DEF Unblock, Update, Verified, Unblocked, RowsTyped, Row, Mail
  <1>12. CASE UNCHANGED vars
    BY <1>12, <1>a DEF vars, RowsTyped, Row, Mail
  <1> QED
    BY <1>1, <1>2, <1>3, <1>4, <1>5, <1>6, <1>7, <1>8, <1>9, <1>10, <1>11, <1>12 DEF
       Next

\* An account keeps its address and its owner, and a mail stays queued.
LEMMA RowsKeptStep == RequestsTyped /\ RowsTyped /\ [Next]_vars => RowsKept
  <1> SUFFICES ASSUME RequestsTyped /\ RowsTyped, [Next]_vars PROVE RowsKept
    OBVIOUS
  <1>a. /\ pc \in [Req -> Step] /\ email \in [Req -> Email] /\ answer \in [Req -> Answer]
        /\ rows \subseteq Row
        /\ \A p \in Req : answer[p] # "none" => pc[p] = "over"
    BY DEF RequestsTyped, RowsTyped
  <1> USE DEF At, Goto, Tell
  <1>1. ASSUME NEW p \in Req, Register(p) PROVE RowsKept
    BY <1>1, <1>a DEF Register, RowsKept, Row
  <1>2. ASSUME NEW p \in Req, Create(p) PROVE RowsKept
    BY <1>2, <1>a DEF Create, NewUser, RowsKept, Row
  <1>3. ASSUME NEW p \in Req, SignToken(p) PROVE RowsKept
    BY <1>3, <1>a DEF SignToken, RowsKept, Row
  <1>4. ASSUME NEW p \in Req, SendActivation(p) PROVE RowsKept
    BY <1>4, <1>a DEF SendActivation, ActivationMail, RowsKept, Row
  <1>5. ASSUME NEW p \in Req, Resend(p) PROVE RowsKept
    BY <1>5, <1>a DEF Resend, RowsKept, Row
  <1>6. ASSUME NEW p \in Req, ResendMail(p) PROVE RowsKept
    BY <1>6, <1>a DEF ResendMail, ActivationMail, RowsKept, Row
  <1>7. ASSUME NEW p \in Req, Abort(p) PROVE RowsKept
    BY <1>7, <1>a DEF Abort, RowsKept, Row
  <1>8. ASSUME NEW e \in Email, Activate(e) PROVE RowsKept
    <2>1. Updates(e)
      BY <1>8 DEF Activate, Updates
    <2>2. UNCHANGED <<email, queued>>
      BY <1>8 DEF Activate
    <2> QED
      BY <2>1, <2>2, UpdatesAreRowwise, RowwiseKeeps DEF RowsKept
  <1>9. ASSUME NEW e \in Email, BlockMail(e) PROVE RowsKept
    BY <1>9, <1>a DEF BlockMail, RowsKept, Row
  <1>10. ASSUME NEW e \in Email, Block(e) PROVE RowsKept
    <2>1. Updates(e)
      BY <1>10 DEF Block, Updates
    <2>2. UNCHANGED <<email, queued>>
      BY <1>10 DEF Block
    <2> QED
      BY <2>1, <2>2, UpdatesAreRowwise, RowwiseKeeps DEF RowsKept
  <1>11. ASSUME NEW e \in Email, Unblock(e) PROVE RowsKept
    <2>1. Updates(e)
      BY <1>11 DEF Unblock, Updates
    <2>2. UNCHANGED <<email, queued>>
      BY <1>11 DEF Unblock
    <2> QED
      BY <2>1, <2>2, UpdatesAreRowwise, RowwiseKeeps DEF RowsKept
  <1>12. CASE UNCHANGED vars
    BY <1>12, <1>a DEF vars, RowsKept, Row
  <1> QED
    BY <1>1, <1>2, <1>3, <1>4, <1>5, <1>6, <1>7, <1>8, <1>9, <1>10, <1>11, <1>12 DEF
       Next

\* An address that is taken is not inserted again.
LEMMA OneRowStep ==
    RequestsTyped /\ RowsTyped /\ OneRowEach /\ [Next]_vars => OneRowEach'
  <1> SUFFICES ASSUME RequestsTyped /\ RowsTyped /\ OneRowEach, [Next]_vars
               PROVE  OneRowEach'
    OBVIOUS
  <1>a. /\ pc \in [Req -> Step] /\ email \in [Req -> Email] /\ answer \in [Req -> Answer]
        /\ rows \subseteq Row
        /\ \A p \in Req : answer[p] # "none" => pc[p] = "over"
    BY DEF RequestsTyped, RowsTyped
  <1> USE DEF At, Goto, Tell
  <1>1. ASSUME NEW p \in Req, Register(p) PROVE OneRowEach'
    BY <1>1, <1>a DEF Register, OneRowEach, Row
  <1>2. ASSUME NEW p \in Req, Create(p) PROVE OneRowEach'
    <2>1. CASE Taken(email[p])
      BY <1>2, <2>1 DEF Create, OneRowEach
    <2>2. CASE ~ Taken(email[p])
      <3>1. rows' = rows \cup {NewUser(p)} /\ NewUser(p).email = email[p]
        BY <1>2, <2>2 DEF Create, NewUser
      <3> QED
        BY <2>2, <3>1 DEF OneRowEach, Taken
    <2> QED
      BY <2>1, <2>2
  <1>3. ASSUME NEW p \in Req, SignToken(p) PROVE OneRowEach'
    BY <1>3, <1>a DEF SignToken, OneRowEach, Row
  <1>4. ASSUME NEW p \in Req, SendActivation(p) PROVE OneRowEach'
    BY <1>4, <1>a DEF SendActivation, OneRowEach, Row
  <1>5. ASSUME NEW p \in Req, Resend(p) PROVE OneRowEach'
    BY <1>5, <1>a DEF Resend, OneRowEach, Row
  <1>6. ASSUME NEW p \in Req, ResendMail(p) PROVE OneRowEach'
    BY <1>6, <1>a DEF ResendMail, OneRowEach, Row
  <1>7. ASSUME NEW p \in Req, Abort(p) PROVE OneRowEach'
    BY <1>7, <1>a DEF Abort, OneRowEach, Row
  <1>8. ASSUME NEW e \in Email, Activate(e) PROVE OneRowEach'
    <2>1. Updates(e)
      BY <1>8 DEF Activate, Updates
    <2> QED
      BY <2>1, UpdatesAreRowwise, RowwiseKeeps
  <1>9. ASSUME NEW e \in Email, BlockMail(e) PROVE OneRowEach'
    BY <1>9, <1>a DEF BlockMail, OneRowEach, Row
  <1>10. ASSUME NEW e \in Email, Block(e) PROVE OneRowEach'
    <2>1. Updates(e)
      BY <1>10 DEF Block, Updates
    <2> QED
      BY <2>1, UpdatesAreRowwise, RowwiseKeeps
  <1>11. ASSUME NEW e \in Email, Unblock(e) PROVE OneRowEach'
    <2>1. Updates(e)
      BY <1>11 DEF Unblock, Updates
    <2> QED
      BY <2>1, UpdatesAreRowwise, RowwiseKeeps
  <1>12. CASE UNCHANGED vars
    BY <1>12, <1>a DEF vars, OneRowEach, Row
  <1> QED
    BY <1>1, <1>2, <1>3, <1>4, <1>5, <1>6, <1>7, <1>8, <1>9, <1>10, <1>11, <1>12 DEF
       Next

\* What a request has found or written is still there when it is told of.
LEMMA BehindStep ==
    RequestsTyped /\ RowsTyped /\ RowsBehindRequests /\ [Next]_vars => RowsBehindRequests'
  <1> SUFFICES ASSUME RequestsTyped /\ RowsTyped /\ RowsBehindRequests, [Next]_vars
               PROVE  RowsBehindRequests'
    OBVIOUS
  <1>a. /\ pc \in [Req -> Step] /\ email \in [Req -> Email] /\ answer \in [Req -> Answer]
        /\ rows \subseteq Row
        /\ \A p \in Req : answer[p] # "none" => pc[p] = "over"
    BY DEF RequestsTyped, RowsTyped
  <1> USE DEF At, Goto, Tell
  <1>b. RowsKept
    BY RowsKeptStep
  <1>c. \A q \in Req : (Owns(q) => Owns(q)') /\ (Taken(email[q]) => Taken(email[q])')
    BY <1>b DEF RowsKept, Owns, Taken
  <1>d. \A q \in Req : ActivationMail(q)' = ActivationMail(q)
    BY <1>b DEF RowsKept, ActivationMail
  <1>1. ASSUME NEW p \in Req, Register(p) PROVE RowsBehindRequests'
    BY <1>1, <1>a, <1>b, <1>c, <1>d DEF Register, RowsBehindRequests, RowsKept
  <1>2. ASSUME NEW p \in Req, Create(p) PROVE RowsBehindRequests'
    <2>1. CASE Taken(email[p])
      BY <1>2, <2>1, <1>a, <1>b, <1>c, <1>d DEF Create, RowsBehindRequests, RowsKept
    <2>2. CASE ~ Taken(email[p])
      <3>1. NewUser(p) \in rows' /\ UNCHANGED <<email, answer, queued>>
            /\ pc' = [pc EXCEPT ![p] = "token"]
        BY <1>2, <2>2 DEF Create
      <3>2. Owns(p)'
        BY <3>1 DEF Owns, NewUser
      <3> QED
        BY <1>2, <3>1, <3>2, <1>a, <1>b, <1>c, <1>d DEF Create, RowsBehindRequests
    <2> QED
      BY <2>1, <2>2
  <1>3. ASSUME NEW p \in Req, SignToken(p) PROVE RowsBehindRequests'
    BY <1>3, <1>a, <1>b, <1>c, <1>d DEF SignToken, RowsBehindRequests, RowsKept
  <1>4. ASSUME NEW p \in Req, SendActivation(p) PROVE RowsBehindRequests'
    BY <1>4, <1>a, <1>b, <1>c, <1>d DEF SendActivation, RowsBehindRequests, RowsKept
  <1>5. ASSUME NEW p \in Req, Resend(p) PROVE RowsBehindRequests'
    <2>1. CASE \E r \in Found(email[p]) : ~ r.verified
      <3>1. Taken(email[p])
        BY <2>1 DEF Found, Taken
      <3>2. pc' = [pc EXCEPT ![p] = "resendToken"] /\ UNCHANGED <<answer, queued>>
        BY <1>5, <2>1 DEF Resend
      <3> QED
        BY <3>1, <3>2, <1>a, <1>c, <1>d, <1>b DEF RowsBehindRequests, RowsKept
    <2>2. CASE ~ \E r \in Found(email[p]) : ~ r.verified
      BY <1>5, <2>2, <1>a, <1>b, <1>c, <1>d DEF Resend, RowsBehindRequests, RowsKept
    <2> QED
      BY <2>1, <2>2
  <1>6. ASSUME NEW p \in Req, ResendMail(p) PROVE RowsBehindRequests'
    BY <1>6, <1>a, <1>b, <1>c, <1>d DEF ResendMail, RowsBehindRequests, RowsKept
  <1>7. ASSUME NEW p \in Req, Abort(p) PROVE RowsBehindRequests'
    BY <1>7, <1>a, <1>b, <1>c, <1>d DEF Abort, RowsBehindRequests, RowsKept
  <1>8. ASSUME NEW e \in Email, Activate(e) PROVE RowsBehindRequests'
    BY <1>8, <1>a, <1>b, <1>c, <1>d DEF Activate, RowsBehindRequests, RowsKept
  <1>9. ASSUME NEW e \in Email, BlockMail(e) PROVE RowsBehindRequests'
    BY <1>9, <1>a, <1>b, <1>c, <1>d DEF BlockMail, RowsBehindRequests, RowsKept
  <1>10. ASSUME NEW e \in Email, Block(e) PROVE RowsBehindRequests'
    BY <1>10, <1>a, <1>b, <1>c, <1>d DEF Block, RowsBehindRequests, RowsKept
  <1>11. ASSUME NEW e \in Email, Unblock(e) PROVE RowsBehindRequests'
    BY <1>11, <1>a, <1>b, <1>c, <1>d DEF Unblock, RowsBehindRequests, RowsKept
  <1>12. CASE UNCHANGED vars
    BY <1>12, <1>a, <1>b, <1>c, <1>d DEF vars, RowsBehindRequests, RowsKept
  <1> QED
    BY <1>1, <1>2, <1>3, <1>4, <1>5, <1>6, <1>7, <1>8, <1>9, <1>10, <1>11, <1>12 DEF
       Next

\* A row becomes verified by a token or a code that was mailed.
LEMMA VerifiedStep ==
    RequestsTyped /\ RowsTyped /\ VerifiedHasMail /\ [Next]_vars => VerifiedHasMail'
  <1> SUFFICES ASSUME RequestsTyped /\ RowsTyped /\ VerifiedHasMail, [Next]_vars
               PROVE  VerifiedHasMail'
    OBVIOUS
  <1>a. /\ pc \in [Req -> Step] /\ email \in [Req -> Email] /\ answer \in [Req -> Answer]
        /\ rows \subseteq Row
        /\ \A p \in Req : answer[p] # "none" => pc[p] = "over"
    BY DEF RequestsTyped, RowsTyped
  <1> USE DEF At, Goto, Tell
  <1>1. ASSUME NEW p \in Req, Register(p) PROVE VerifiedHasMail'
    BY <1>1, <1>a DEF Register, VerifiedHasMail, Row
  <1>2. ASSUME NEW p \in Req, Create(p) PROVE VerifiedHasMail'
    BY <1>2, <1>a DEF Create, NewUser, VerifiedHasMail, Row
  <1>3. ASSUME NEW p \in Req, SignToken(p) PROVE VerifiedHasMail'
    BY <1>3, <1>a DEF SignToken, VerifiedHasMail, Row
  <1>4. ASSUME NEW p \in Req, SendActivation(p) PROVE VerifiedHasMail'
    BY <1>4, <1>a DEF SendActivation, ActivationMail, VerifiedHasMail, Row
  <1>5. ASSUME NEW p \in Req, Resend(p) PROVE VerifiedHasMail'
    BY <1>5, <1>a DEF Resend, VerifiedHasMail, Row
  <1>6. ASSUME NEW p \in Req, ResendMail(p) PROVE VerifiedHasMail'
    BY <1>6, <1>a DEF ResendMail, ActivationMail, VerifiedHasMail, Row
  <1>7. ASSUME NEW p \in Req, Abort(p) PROVE VerifiedHasMail'
    BY <1>7, <1>a DEF Abort, VerifiedHasMail, Row
  <1>8. ASSUME NEW e \in Email, Activate(e) PROVE VerifiedHasMail'
    BY <1>8, <1>a DEF Activate, Update, Verified, VerifiedHasMail, Row
  <1>9. ASSUME NEW e \in Email, BlockMail(e) PROVE VerifiedHasMail'
    BY <1>9, <1>a DEF BlockMail, VerifiedHasMail, Row
  <1>10. ASSUME NEW e \in Email, Block(e) PROVE VerifiedHasMail'
    BY <1>10, <1>a DEF Block, Update, Unverified, Deleted, VerifiedHasMail, Row
  <1>11. ASSUME NEW e \in Email, Unblock(e) PROVE VerifiedHasMail'
    BY <1>11, <1>a DEF Unblock, Update, Verified, Unblocked, VerifiedHasMail, Row
  <1>12. CASE UNCHANGED vars
    BY <1>12, <1>a DEF vars, VerifiedHasMail, Row
  <1> QED
    BY <1>1, <1>2, <1>3, <1>4, <1>5, <1>6, <1>7, <1>8, <1>9, <1>10, <1>11, <1>12 DEF
       Next

-----------------------------------------------------------------------------
(* The theorems. *)

\* Nobody is registered, and nobody was told anything.
LEMMA InitIInv == Init => IInv
  <1> SUFFICES ASSUME Init PROVE IInv
    OBVIOUS
  <1>1. RequestsTyped /\ RowsTyped
    BY DEF Init, RequestsTyped, RowsTyped, Step, Answer
  <1>2. OneRowEach /\ VerifiedHasMail
    BY DEF Init, OneRowEach, VerifiedHasMail
  <1>3. RowsBehindRequests
    BY DEF Init, RowsBehindRequests
  <1> QED
    BY <1>1, <1>2, <1>3 DEF IInv

\* However many requests name the same address, and whatever else writes its
\* row, the inductive invariant holds throughout.
THEOREM Invariance == Spec => []IInv
  <1>1. IInv /\ [Next]_vars => IInv'
    BY RequestsTypedStep, RowsTypedStep, OneRowStep, BehindStep, VerifiedStep DEF IInv
  <1> QED
    BY InitIInv, <1>1, PTL DEF Spec

\* The table keeps its shape and its unique key, and a request that was told
\* something is over.
THEOREM TypeCorrect == Spec => []TypeOK
  <1>1. IInv => TypeOK
    BY DEF IInv, RequestsTyped, RowsTyped, OneRowEach, TypeOK
  <1> QED
    BY <1>1, Invariance, PTL

\* Who is told "User created" owns the account of the address, and who is told
\* of a mail has one queued to an account that exists: for any number of
\* requests for the same address.
THEOREM AnswersAreTrue == Spec => []AnswerIsTrue
  <1>1. IInv => AnswerIsTrue
    <2> SUFFICES ASSUME IInv, NEW p \in Req
                 PROVE  /\ answer[p] \in {"created", "sent"}
                              => Taken(email[p]) /\ ActivationMail(p) \in queued
                        /\ answer[p] = "created"
                              => \A r \in rows : r.email = email[p] => r.owner = p
      BY DEF AnswerIsTrue
    <2>1. CASE answer[p] = "created"
      <3>1. Owns(p) /\ ActivationMail(p) \in queued
        BY <2>1 DEF IInv, RowsBehindRequests
      <3>2. PICK r \in rows : r.email = email[p] /\ r.owner = p
        BY <3>1 DEF Owns
      <3> QED
        BY <2>1, <3>1, <3>2 DEF IInv, OneRowEach, Taken
    <2>2. CASE answer[p] = "sent"
      BY <2>2 DEF IInv, RowsBehindRequests
    <2> QED
      BY <2>1, <2>2
  <1> QED
    BY <1>1, Invariance, PTL

\* No account is verified unless a mail that proves the address was queued to it.
THEOREM VerificationIsProved == Spec => []VerifiedHasMail
  <1>1. IInv => VerifiedHasMail
    BY DEF IInv
  <1> QED
    BY <1>1, Invariance, PTL

\* No step of any request removes an account or hands it to somebody else.
THEOREM OwnersAreKept == Spec => OwnerKept
  <1>1. IInv /\ [Next]_vars
           => [\A r \in rows : \E s \in rows' : s.email = r.email /\ s.owner = r.owner]_vars
    BY RowsKeptStep DEF IInv, RowsKept
  <1> QED
    BY <1>1, Invariance, PTL DEF Spec, OwnerKept
===============================================================================
