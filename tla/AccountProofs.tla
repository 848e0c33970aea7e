---------------------------- MODULE AccountProofs ----------------------------
(***************************************************************************)
(* Proofs of the safety of Account, for any set of requests and all        *)
(* bounds.  The inductive invariant is the conjunction of the parts below: *)
(* none of the properties is inductive alone.                              *)
(***************************************************************************)
EXTENDS Account, FiniteSetTheorems, TLAPS

-----------------------------------------------------------------------------
(* The inductive invariant. *)

\* TypeOK, but for what follows from the parts below: the bound of the counter
\* and the disjointness of the two kinds of codes.
DataTyped ==
    /\ verified \in BOOLEAN /\ deleted \in BOOLEAN /\ password \in Pass
    /\ attempts \in Nat
    /\ unblockCodes \subseteq Code /\ resetCodes \subseteq Code
    /\ loggedIn \in BOOLEAN
    /\ lastCode \in 0..MaxCode /\ lastPass \in Pass
    /\ failures \in 0..MaxFailures /\ handed \subseteq Code
    /\ blockedWith \in 0..MaxCode /\ known \subseteq Pass
    /\ codeOf \in [Pass -> 0..MaxCode] /\ lapsed \subseteq Code
    /\ changes \in [Code -> Nat]
    /\ activatedBy \subseteq {"email_verification", "access"}

Typed == pc \in [Req -> Step] /\ loc \in [Req -> Local] /\ DataTyped

\* Codes and passwords beyond the last ones drawn are nowhere; an unblock code,
\* stored or handed over, is none of the reset codes.
CodesDrawn ==
    /\ handed \subseteq 1..lastCode /\ resetCodes \subseteq 1..lastCode
    /\ unblockCodes \subseteq 1..lastCode
    /\ \A c \in handed \cup unblockCodes : c \notin resetCodes
    /\ \A c \in Code : changes[c] > 0 => c <= lastCode
    /\ known \subseteq 0..lastPass

\* Nor does a request hold one, and the code it is about to store or to mail is
\* no reset code.
LocalsDrawn ==
    \A p \in Req :
       /\ loc[p].code <= lastCode
       /\ pc[p] \in {"saveCode", "mailCode"} =>
             loc[p].code # 0 /\ loc[p].code \notin resetCodes
       /\ loc[p].pass <= lastPass

\* The failures in progress that the counter has yet to learn of.
Uncounted == {p \in Req : pc[p] \in {"failRead", "incRead", "incWrite"}}

\* The counter, and what is about to be written to it, leave room for all of
\* them: a lost increment only makes the counter smaller.
CounterBehind ==
    /\ IsFiniteSet(Uncounted)
    /\ attempts + Cardinality(Uncounted) <= failures
    /\ \A p \in Req : At(p, "incWrite") => loc[p].n + Cardinality(Uncounted) <= failures

\* A block that is under way has seen the counter full.
BlockEarned ==
    /\ \A p \in Req : pc[p] \in {"lookup", "saveCode", "mailCode", "block1", "block2"} =>
          failures > MaxAttempts
    /\ blockedWith # 0 => failures > MaxAttempts

\* The code of a block is handed over before anything is written to the row.
BlockHanded ==
    /\ \A p \in Req : pc[p] \in {"block1", "block2"} => loc[p].code \in handed
    /\ deleted => blockedWith \in handed

\* What became of unblock code c: it can be used, or ran out, or a password
\* set under it is known to the owner.
Accounted(c) ==
    /\ c # 0
    /\ c \in unblockCodes \cup lapsed \/ \E n \in known : codeOf[n] = c

\* Every code of an unblock that is under way is accounted for, and so is the
\* one the password of the row was set under.
CodesAccounted ==
    /\ \A p \in Req : pc[p] \in {"unblock", "unblockFind", "setTemp", "mailTemp"} =>
          Accounted(loc[p].code)
    /\ \A p \in Req : pc[p] \in {"mailTemp", "clearCode"} =>
          codeOf[loc[p].pass] = loc[p].code
    /\ \A p \in Req : At(p, "clearCode") => loc[p].pass \in known
    /\ password \in known \/ Accounted(codeOf[password])

\* At the end of a password change its code is gone.
ClearedIsGone ==
    /\ \A p \in Req : At(p, "newApply") /\ "clear" \notin loc[p].todo =>
          loc[p].code \notin resetCodes
    /\ AnsweredCodeGone

\* The owner of the address has been seen: a mailed token was brought back, or
\* an unblock code mailed.
OwnerSeen == "email_verification" \in activatedBy \/ handed # {}

\* What an access token takes is only there once the owner has been seen.
AccessEarned ==
    /\ verified \/ loggedIn => OwnerSeen
    /\ \A p \in Req : At(p, "unblock") => OwnerSeen
    /\ \A p \in Req : At(p, "activate") /\ loc[p].token = "access" => OwnerSeen
    /\ AddressProved

IInv ==
    /\ Typed /\ CodesDrawn /\ LocalsDrawn /\ CounterBehind /\ BlockEarned
    /\ BlockHanded /\ CodesAccounted /\ ClearedIsGone /\ AccessEarned

USE DEF user, redis, drawn, history, vars, At

-----------------------------------------------------------------------------
(* The initial states. *)

\* Nothing has been drawn, counted or handed over yet.
LEMMA InitIInv == Init => IInv
  <1> SUFFICES ASSUME Init PROVE IInv
    OBVIOUS
  <1> USE BoundsAssumption DEF Init
  <1>1. Typed
    <2>1. pc \in [Req -> Step]
      BY DEF Step
    <2>2. loc \in [Req -> Local]
      BY DEF Local, NoLocal, Pass
    <2>3. MaxCode \in Nat /\ MaxPass \in Nat /\ MaxFailures \in Nat
      OBVIOUS
    <2>4. codeOf \in [Pass -> 0..MaxCode] /\ changes \in [Code -> Nat]
      BY <2>3
    <2>5. 0 \in Pass /\ known \subseteq Pass
      BY <2>3 DEF Pass
    <2>6. attempts \in Nat /\ lastCode \in 0..MaxCode /\ lastPass \in Pass
          /\ failures \in 0..MaxFailures /\ blockedWith \in 0..MaxCode /\ password \in Pass
      BY <2>3, <2>5
    <2>7. verified \in BOOLEAN /\ deleted \in BOOLEAN /\ loggedIn \in BOOLEAN
      OBVIOUS
    <2>8. unblockCodes = {} /\ resetCodes = {} /\ handed = {} /\ lapsed = {} /\ activatedBy = {}
      OBVIOUS
    <2>9. DataTyped
      BY <2>4, <2>5, <2>6, <2>7, <2>8 DEF DataTyped
    <2> QED
      BY <2>1, <2>2, <2>9 DEF Typed
  <1>2. CodesDrawn /\ LocalsDrawn
    BY DEF CodesDrawn, LocalsDrawn, NoLocal, Code, Pass
  <1>3. CounterBehind
    <2>1. Uncounted = {}
      BY DEF Uncounted
    <2>2. IsFiniteSet(Uncounted) /\ Cardinality(Uncounted) = 0
      BY <2>1, FS_EmptySet
    <2> QED
      BY <2>2 DEF CounterBehind
  <1>4. BlockEarned /\ BlockHanded
    BY DEF BlockEarned, BlockHanded
  <1>5. CodesAccounted
    BY DEF CodesAccounted
  <1>6. ClearedIsGone
    BY DEF ClearedIsGone, AnsweredCodeGone
  <1>7. AccessEarned
    BY DEF AccessEarned, AddressProved
  <1> QED
    BY <1>1, <1>2, <1>3, <1>4, <1>5, <1>6, <1>7 DEF IInv

-----------------------------------------------------------------------------
(* What every step preserves, part by part. *)

\* A request stands at one of the steps.
LEMMA StepTyped == Typed /\ [Next]_vars => (pc \in [Req -> Step])'
  <1> SUFFICES ASSUME Typed, [Next]_vars PROVE (pc \in [Req -> Step])'
    OBVIOUS
  <1>a. pc \in [Req -> Step]
    BY DEF Typed
  <1> USE DEF Goto, Leave, Step
  <1>1. ASSUME LoginSucceed PROVE (pc \in [Req -> Step])'
    BY <1>1, <1>a DEF LoginSucceed, Halves
  <1>2. ASSUME AttemptsLapse PROVE (pc \in [Req -> Step])'
    BY <1>2, <1>a DEF AttemptsLapse, Halves
  <1>3. ASSUME NEW c \in Code, CodeLapse(c) PROVE (pc \in [Req -> Step])'
    BY <1>3, <1>a DEF CodeLapse, Halves
  <1>4. ASSUME NEW p \in Req, LoginFail(p) PROVE (pc \in [Req -> Step])'
    BY <1>4, <1>a DEF LoginFail, Halves
  <1>5. ASSUME NEW p \in Req, FailRead(p) PROVE (pc \in [Req -> Step])'
    BY <1>5, <1>a DEF FailRead, Halves
  <1>6. ASSUME NEW p \in Req, IncRead(p) PROVE (pc \in [Req -> Step])'
    BY <1>6, <1>a DEF IncRead, Halves
  <1>7. ASSUME NEW p \in Req, IncWrite(p) PROVE (pc \in [Req -> Step])'
    BY <1>7, <1>a DEF IncWrite, Halves
  <1>8. ASSUME NEW p \in Req, Lookup(p) PROVE (pc \in [Req -> Step])'
    BY <1>8, <1>a DEF Lookup, Halves
  <1>9. ASSUME NEW p \in Req, SaveCode(p) PROVE (pc \in [Req -> Step])'
    BY <1>9, <1>a DEF SaveCode, Halves
  <1>10. ASSUME NEW p \in Req, Block1(p) PROVE (pc \in [Req -> Step])'
    BY <1>10, <1>a DEF Block1, Halves
  <1>11. ASSUME NEW p \in Req, Block2(p) PROVE (pc \in [Req -> Step])'
    BY <1>11, <1>a DEF Block2, Halves
  <1>12. ASSUME NEW p \in Req, NEW c \in Code, UnblockRead(p, c)
         PROVE  (pc \in [Req -> Step])'
    BY <1>12, <1>a DEF UnblockRead, Halves
  <1>13. ASSUME NEW p \in Req, NEW c \in Code, NewRead(p, c)
         PROVE  (pc \in [Req -> Step])'
    BY <1>13, <1>a DEF NewRead, Halves
  <1>14. ASSUME NEW p \in Req, Unblock(p) PROVE (pc \in [Req -> Step])'
    BY <1>14, <1>a DEF Unblock, Halves
  <1>15. ASSUME NEW p \in Req, UnblockFind(p) PROVE (pc \in [Req -> Step])'
    BY <1>15, <1>a DEF UnblockFind, Halves
  <1>16. ASSUME NEW p \in Req, SetTemp(p) PROVE (pc \in [Req -> Step])'
    BY <1>16, <1>a DEF SetTemp, Halves
  <1>17. ASSUME NEW p \in Req, MailTemp(p) PROVE (pc \in [Req -> Step])'
    BY <1>17, <1>a DEF MailTemp, Halves
  <1>18. ASSUME NEW p \in Req, ClearAttempts(p) PROVE (pc \in [Req -> Step])'
    BY <1>18, <1>a DEF ClearAttempts, Halves
  <1>19. ASSUME NEW p \in Req, NEW t \in {"email_verification", "access"}, ActivateRead(p, t)
         PROVE  (pc \in [Req -> Step])'
    BY <1>19, <1>a DEF ActivateRead, Halves
  <1>20. ASSUME NEW p \in Req, Activate(p) PROVE (pc \in [Req -> Step])'
    BY <1>20, <1>a DEF Activate, Halves
  <1>21. ASSUME NEW p \in Req, ResetFind(p) PROVE (pc \in [Req -> Step])'
    BY <1>21, <1>a DEF ResetFind, Halves
  <1>22. ASSUME NEW p \in Req, SaveReset(p) PROVE (pc \in [Req -> Step])'
    BY <1>22, <1>a DEF SaveReset, Halves
  <1>23. ASSUME NEW p \in Req, NewFind(p) PROVE (pc \in [Req -> Step])'
    BY <1>23, <1>a DEF NewFind, Halves
  <1>24. ASSUME NEW p \in Req, NewUpdate(p) PROVE (pc \in [Req -> Step])'
    BY <1>24, <1>a DEF NewUpdate, Finish, Halves
  <1>25. ASSUME NEW p \in Req, NewClear(p) PROVE (pc \in [Req -> Step])'
    BY <1>25, <1>a DEF NewClear, Finish, Halves
  <1>26. ASSUME NEW p \in Req, Abort(p) PROVE (pc \in [Req -> Step])'
    BY <1>26, <1>a DEF Abort, Halves
  <1>27. ASSUME NEW p \in Req, MailCode(p) PROVE (pc \in [Req -> Step])'
    BY <1>27, <1>a DEF MailCode, Halves
  <1>28. ASSUME NEW p \in Req, ClearCode(p) PROVE (pc \in [Req -> Step])'
    BY <1>28, <1>a DEF ClearCode, Halves
  <1>29. CASE UNCHANGED vars
    BY <1>29, <1>a DEF Halves
  <1> QED
    BY <1>1, <1>2, <1>3, <1>4, <1>5, <1>6, <1>7, <1>8, <1>9, <1>10, <1>11, <1>12,
       <1>13, <1>14, <1>15, <1>16, <1>17, <1>18, <1>19, <1>20, <1>21, <1>22, <1>23,
       <1>24, <1>25, <1>26, <1>27, <1>28, <1>29 DEF Next

\* What a request remembers keeps its type.
LEMMA LocalTyped == Typed /\ [Next]_vars => (loc \in [Req -> Local])'
  <1> SUFFICES ASSUME Typed, [Next]_vars PROVE (loc \in [Req -> Local])'
    OBVIOUS
  <1>a. /\ loc \in [Req -> Local] /\ attempts \in Nat /\ lastCode \in Nat /\ lastPass \in Nat
        /\ MaxCode \in Nat /\ MaxPass \in Nat
    BY BoundsAssumption DEF Typed, DataTyped, Pass
  <1> USE DEF Goto, Leave, Pass, Code, NoLocal, Local
  <1>1. ASSUME LoginSucceed PROVE (loc \in [Req -> Local])'
    BY <1>1, <1>a DEF LoginSucceed, Halves
  <1>2. ASSUME AttemptsLapse PROVE (loc \in [Req -> Local])'
    BY <1>2, <1>a DEF AttemptsLapse, Halves
  <1>3. ASSUME NEW c \in Code, CodeLapse(c) PROVE (loc \in [Req -> Local])'
    BY <1>3, <1>a DEF CodeLapse, Halves
  <1>4. ASSUME NEW p \in Req, LoginFail(p) PROVE (loc \in [Req -> Local])'
    BY <1>4, <1>a DEF LoginFail, Halves
  <1>5. ASSUME NEW p \in Req, FailRead(p) PROVE (loc \in [Req -> Local])'
    BY <1>5, <1>a DEF FailRead, Halves
  <1>6. ASSUME NEW p \in Req, IncRead(p) PROVE (loc \in [Req -> Local])'
    BY <1>6, <1>a DEF IncRead, Halves
  <1>7. ASSUME NEW p \in Req, IncWrite(p) PROVE (loc \in [Req -> Local])'
    BY <1>7, <1>a DEF IncWrite, Halves
  <1>8. ASSUME NEW p \in Req, Lookup(p) PROVE (loc \in [Req -> Local])'
    BY <1>8, <1>a DEF Lookup, Halves
  <1>9. ASSUME NEW p \in Req, SaveCode(p) PROVE (loc \in [Req -> Local])'
    BY <1>9, <1>a DEF SaveCode, Halves
  <1>10. ASSUME NEW p \in Req, Block1(p) PROVE (loc \in [Req -> Local])'
    BY <1>10, <1>a DEF Block1, Halves
  <1>11. ASSUME NEW p \in Req, Block2(p) PROVE (loc \in [Req -> Local])'
    BY <1>11, <1>a DEF Block2, Halves
  <1>12. ASSUME NEW p \in Req, NEW c \in Code, UnblockRead(p, c)
         PROVE  (loc \in [Req -> Local])'
    BY <1>12, <1>a DEF UnblockRead, Halves
  <1>13. ASSUME NEW p \in Req, NEW c \in Code, NewRead(p, c)
         PROVE  (loc \in [Req -> Local])'
    BY <1>13, <1>a DEF NewRead, Halves
  <1>14. ASSUME NEW p \in Req, Unblock(p) PROVE (loc \in [Req -> Local])'
    BY <1>14, <1>a DEF Unblock, Halves
  <1>15. ASSUME NEW p \in Req, UnblockFind(p) PROVE (loc \in [Req -> Local])'
    BY <1>15, <1>a DEF UnblockFind, Halves
  <1>16. ASSUME NEW p \in Req, SetTemp(p) PROVE (loc \in [Req -> Local])'
    BY <1>16, <1>a DEF SetTemp, Halves
  <1>17. ASSUME NEW p \in Req, MailTemp(p) PROVE (loc \in [Req -> Local])'
    BY <1>17, <1>a DEF MailTemp, Halves
  <1>18. ASSUME NEW p \in Req, ClearAttempts(p) PROVE (loc \in [Req -> Local])'
    BY <1>18, <1>a DEF ClearAttempts, Halves
  <1>19. ASSUME NEW p \in Req, NEW t \in {"email_verification", "access"}, ActivateRead(p, t)
         PROVE  (loc \in [Req -> Local])'
    BY <1>19, <1>a DEF ActivateRead, Halves
  <1>20. ASSUME NEW p \in Req, Activate(p) PROVE (loc \in [Req -> Local])'
    BY <1>20, <1>a DEF Activate, Halves
  <1>21. ASSUME NEW p \in Req, ResetFind(p) PROVE (loc \in [Req -> Local])'
    BY <1>21, <1>a DEF ResetFind, Halves
  <1>22. ASSUME NEW p \in Req, SaveReset(p) PROVE (loc \in [Req -> Local])'
    BY <1>22, <1>a DEF SaveReset, Halves
  <1>23. ASSUME NEW p \in Req, NewFind(p) PROVE (loc \in [Req -> Local])'
    BY <1>23, <1>a DEF NewFind, Halves
  <1>24. ASSUME NEW p \in Req, NewUpdate(p) PROVE (loc \in [Req -> Local])'
    BY <1>24, <1>a DEF NewUpdate, Finish, Halves
  <1>25. ASSUME NEW p \in Req, NewClear(p) PROVE (loc \in [Req -> Local])'
    BY <1>25, <1>a DEF NewClear, Finish, Halves
  <1>26. ASSUME NEW p \in Req, Abort(p) PROVE (loc \in [Req -> Local])'
    BY <1>26, <1>a DEF Abort, Halves
  <1>27. ASSUME NEW p \in Req, MailCode(p) PROVE (loc \in [Req -> Local])'
    BY <1>27, <1>a DEF MailCode, Halves
  <1>28. ASSUME NEW p \in Req, ClearCode(p) PROVE (loc \in [Req -> Local])'
    BY <1>28, <1>a DEF ClearCode, Halves
  <1>29. CASE UNCHANGED vars
    BY <1>29, <1>a DEF Halves
  <1> QED
    BY <1>1, <1>2, <1>3, <1>4, <1>5, <1>6, <1>7, <1>8, <1>9, <1>10, <1>11, <1>12,
       <1>13, <1>14, <1>15, <1>16, <1>17, <1>18, <1>19, <1>20, <1>21, <1>22, <1>23,
       <1>24, <1>25, <1>26, <1>27, <1>28, <1>29 DEF Next

\* The row, the keys and the history keep their types.
LEMMA DataStep == Typed /\ LocalsDrawn /\ [Next]_vars => DataTyped'
  <1> SUFFICES ASSUME Typed /\ LocalsDrawn, [Next]_vars PROVE DataTyped'
    OBVIOUS
  <1>a. /\ pc \in [Req -> Step] /\ loc \in [Req -> Local]
        /\ DataTyped
        /\ \A q \in Req : /\ loc[q].code \in 0..MaxCode /\ loc[q].pass \in Pass
                          /\ loc[q].n \in Nat /\ loc[q].token \in {"email_verification", "access"}
    BY DEF Typed, Local
  <1>b. MaxCode \in Nat /\ MaxPass \in Nat /\ MaxFailures \in Nat
    BY BoundsAssumption
  <1> USE DEF Goto, Leave
  <1>1. ASSUME LoginSucceed PROVE DataTyped'
    BY <1>1, <1>a, <1>b DEF LoginSucceed, DataTyped, Pass, Code
  <1>2. ASSUME AttemptsLapse PROVE DataTyped'
    BY <1>2, <1>a, <1>b DEF AttemptsLapse, DataTyped, Pass, Code
  <1>3. ASSUME NEW c \in Code, CodeLapse(c) PROVE DataTyped'
    BY <1>3, <1>a, <1>b DEF CodeLapse, DataTyped, Pass, Code
  <1>4. ASSUME NEW p \in Req, LoginFail(p) PROVE DataTyped'
    BY <1>4, <1>a, <1>b DEF LoginFail, DataTyped, Pass, Code
  <1>5. ASSUME NEW p \in Req, FailRead(p) PROVE DataTyped'
    BY <1>5, <1>a, <1>b DEF FailRead, DataTyped, Pass, Code
  <1>6. ASSUME NEW p \in Req, IncRead(p) PROVE DataTyped'
    BY <1>6, <1>a, <1>b DEF IncRead, DataTyped, Pass, Code
  <1>7. ASSUME NEW p \in Req, IncWrite(p) PROVE DataTyped'
    <2>1. /\ attempts' = loc[p].n + 1
          /\ UNCHANGED <<user, unblockCodes, resetCodes, loggedIn, drawn, history>>
      BY <1>7 DEF IncWrite
    <2>2. attempts' \in Nat
      BY <1>a, <2>1
    <2> QED
      BY <1>a, <2>1, <2>2 DEF DataTyped
  <1>8. ASSUME NEW p \in Req, Lookup(p) PROVE DataTyped'
    BY <1>8, <1>a, <1>b DEF Lookup, DataTyped, Pass, Code
  <1>9. ASSUME NEW p \in Req, SaveCode(p) PROVE DataTyped'
    <2>1. loc[p].code \in Code
      BY <1>9, <1>a, <1>b DEF SaveCode, LocalsDrawn, Code
    <2> QED
      BY <1>9, <2>1, <1>a DEF SaveCode, DataTyped
  <1>10. ASSUME NEW p \in Req, Block1(p) PROVE DataTyped'
    BY <1>10, <1>a, <1>b DEF Block1, DataTyped, Pass, Code
  <1>11. ASSUME NEW p \in Req, Block2(p) PROVE DataTyped'
    BY <1>11, <1>a, <1>b DEF Block2, DataTyped, Pass, Code
  <1>12. ASSUME NEW p \in Req, NEW c \in Code, UnblockRead(p, c) PROVE DataTyped'
    BY <1>12, <1>a, <1>b DEF UnblockRead, DataTyped, Pass, Code
  <1>13. ASSUME NEW p \in Req, NEW c \in Code, NewRead(p, c) PROVE DataTyped'
    BY <1>13, <1>a, <1>b DEF NewRead, DataTyped, Pass, Code
  <1>14. ASSUME NEW p \in Req, Unblock(p) PROVE DataTyped'
    BY <1>14, <1>a, <1>b DEF Unblock, DataTyped, Pass, Code
  <1>15. ASSUME NEW p \in Req, UnblockFind(p) PROVE DataTyped'
    BY <1>15, <1>a, <1>b DEF UnblockFind, DataTyped, Pass, Code
  <1>16. ASSUME NEW p \in Req, SetTemp(p) PROVE DataTyped'
    BY <1>16, <1>a, <1>b DEF SetTemp, DataTyped, Pass, Code
  <1>17. ASSUME NEW p \in Req, MailTemp(p) PROVE DataTyped'
    BY <1>17, <1>a, <1>b DEF MailTemp, DataTyped, Pass, Code
  <1>18. ASSUME NEW p \in Req, ClearAttempts(p) PROVE DataTyped'
    BY <1>18, <1>a, <1>b DEF ClearAttempts, DataTyped, Pass, Code
  <1>19. ASSUME NEW p \in Req, NEW t \in {"email_verification", "access"}, ActivateRead(p, t)
         PROVE  DataTyped'
    BY <1>19, <1>a, <1>b DEF ActivateRead, DataTyped, Pass, Code
  <1>20. ASSUME NEW p \in Req, Activate(p) PROVE DataTyped'
    BY <1>20, <1>a, <1>b DEF Activate, DataTyped, Pass, Code
  <1>21. ASSUME NEW p \in Req, ResetFind(p) PROVE DataTyped'
    BY <1>21, <1>a, <1>b DEF ResetFind, DataTyped, Pass, Code
  <1>22. ASSUME NEW p \in Req, SaveReset(p) PROVE DataTyped'
    BY <1>22, <1>a, <1>b DEF SaveReset, DataTyped, Pass, Code
  <1>23. ASSUME NEW p \in Req, NewFind(p) PROVE DataTyped'
    BY <1>23, <1>a, <1>b DEF NewFind, DataTyped, Pass, Code
  <1>24. ASSUME NEW p \in Req, NewUpdate(p) PROVE DataTyped'
    <2>1. changes' \in [Code -> Nat]
      BY <1>24, <1>a DEF NewUpdate, Finish, DataTyped
    <2> QED
      BY <1>24, <2>1, <1>a, <1>b DEF NewUpdate, DataTyped, Pass
  <1>25. ASSUME NEW p \in Req, NewClear(p) PROVE DataTyped'
    <2>1. changes' \in [Code -> Nat]
      BY <1>25, <1>a DEF NewClear, Finish, DataTyped
    <2> QED
      BY <1>25, <2>1, <1>a, <1>b DEF NewClear, DataTyped
  <1>26. ASSUME NEW p \in Req, Abort(p) PROVE DataTyped'
    BY <1>26, <1>a, <1>b DEF Abort, DataTyped, Pass, Code
  <1>27. ASSUME NEW p \in Req, MailCode(p) PROVE DataTyped'
    <2>1. loc[p].code \in Code
      BY <1>27, <1>a, <1>b DEF MailCode, LocalsDrawn, Code
    <2> QED
      BY <1>27, <2>1, <1>a DEF MailCode, DataTyped
  <1>28. ASSUME NEW p \in Req, ClearCode(p) PROVE DataTyped'
    BY <1>28, <1>a, <1>b DEF ClearCode, DataTyped, Pass, Code
  <1>29. CASE UNCHANGED vars
    BY <1>29, <1>a, <1>b DEF DataTyped, Pass, Code
  <1> QED
    BY <1>1, <1>2, <1>3, <1>4, <1>5, <1>6, <1>7, <1>8, <1>9, <1>10, <1>11, <1>12,
       <1>13, <1>14, <1>15, <1>16, <1>17, <1>18, <1>19, <1>20, <1>21, <1>22, <1>23,
       <1>24, <1>25, <1>26, <1>27, <1>28, <1>29 DEF Next

\* A code or password is stored only once it was drawn, and the draws go up.
LEMMA CodesDrawnStep == Typed /\ CodesDrawn /\ LocalsDrawn /\ [Next]_vars => CodesDrawn'
  <1> SUFFICES ASSUME Typed /\ CodesDrawn /\ LocalsDrawn, [Next]_vars PROVE CodesDrawn'
    OBVIOUS
  <1>a. /\ pc \in [Req -> Step] /\ loc \in [Req -> Local] /\ attempts \in Nat
        /\ lastCode \in Nat /\ lastPass \in Nat /\ failures \in Nat /\ changes \in [Code -> Nat]
        /\ \A q \in Req : loc[q].code \in Nat /\ loc[q].pass \in Nat /\ loc[q].n \in Nat
    BY BoundsAssumption DEF Typed, DataTyped, Pass, Local
  <1> USE DEF Goto, Leave, NoLocal, Local
  <1>1. ASSUME LoginSucceed PROVE CodesDrawn'
    BY <1>1, <1>a DEF LoginSucceed, CodesDrawn, LocalsDrawn, Code
  <1>2. ASSUME AttemptsLapse PROVE CodesDrawn'
    BY <1>2, <1>a DEF AttemptsLapse, CodesDrawn, LocalsDrawn, Code
  <1>3. ASSUME NEW c \in Code, CodeLapse(c) PROVE CodesDrawn'
    BY <1>3, <1>a DEF CodeLapse, CodesDrawn, LocalsDrawn, Code
  <1>4. ASSUME NEW p \in Req, LoginFail(p) PROVE CodesDrawn'
    BY <1>4, <1>a DEF LoginFail, CodesDrawn, LocalsDrawn, Code
  <1>5. ASSUME NEW p \in Req, FailRead(p) PROVE CodesDrawn'
    BY <1>5, <1>a DEF FailRead, CodesDrawn, LocalsDrawn, Code
  <1>6. ASSUME NEW p \in Req, IncRead(p) PROVE CodesDrawn'
    BY <1>6, <1>a DEF IncRead, CodesDrawn, LocalsDrawn, Code
  <1>7. ASSUME NEW p \in Req, IncWrite(p) PROVE CodesDrawn'
    BY <1>7, <1>a DEF IncWrite, CodesDrawn, LocalsDrawn, Code
  <1>8. ASSUME NEW p \in Req, Lookup(p) PROVE CodesDrawn'
    BY <1>8, <1>a DEF Lookup, CodesDrawn, LocalsDrawn, Code
  <1>9. ASSUME NEW p \in Req, SaveCode(p) PROVE CodesDrawn'
    <2>1. loc[p].code \in 1..lastCode /\ loc[p].code \notin resetCodes
      BY <1>9, <1>a DEF SaveCode, LocalsDrawn
    <2> QED
      BY <1>9, <2>1, <1>a DEF SaveCode, CodesDrawn
  <1>10. ASSUME NEW p \in Req, Block1(p) PROVE CodesDrawn'
    BY <1>10, <1>a DEF Block1, CodesDrawn, LocalsDrawn, Code
  <1>11. ASSUME NEW p \in Req, Block2(p) PROVE CodesDrawn'
    BY <1>11, <1>a DEF Block2, CodesDrawn, LocalsDrawn, Code
  <1>12. ASSUME NEW p \in Req, NEW c \in Code, UnblockRead(p, c) PROVE CodesDrawn'
    BY <1>12, <1>a DEF UnblockRead, CodesDrawn, LocalsDrawn, Code
  <1>13. ASSUME NEW p \in Req, NEW c \in Code, NewRead(p, c) PROVE CodesDrawn'
    BY <1>13, <1>a DEF NewRead, CodesDrawn, LocalsDrawn, Code
  <1>14. ASSUME NEW p \in Req, Unblock(p) PROVE CodesDrawn'
    BY <1>14, <1>a DEF Unblock, CodesDrawn, LocalsDrawn, Code
  <1>15. ASSUME NEW p \in Req, UnblockFind(p) PROVE CodesDrawn'
    BY <1>15, <1>a DEF UnblockFind, CodesDrawn, LocalsDrawn, Code
  <1>16. ASSUME NEW p \in Req, SetTemp(p) PROVE CodesDrawn'
    BY <1>16, <1>a DEF SetTemp, CodesDrawn, LocalsDrawn, Code
  <1>17. ASSUME NEW p \in Req, MailTemp(p) PROVE CodesDrawn'
    <2>1. loc[p].pass \in 0..lastPass
      BY <1>17, <1>a DEF MailTemp, LocalsDrawn
    <2> QED
      BY <1>17, <2>1, <1>a DEF MailTemp, CodesDrawn
  <1>18. ASSUME NEW p \in Req, ClearAttempts(p) PROVE CodesDrawn'
    BY <1>18, <1>a DEF ClearAttempts, CodesDrawn, LocalsDrawn, Code
  <1>19. ASSUME NEW p \in Req, NEW t \in {"email_verification", "access"}, ActivateRead(p, t)
         PROVE  CodesDrawn'
    BY <1>19, <1>a DEF ActivateRead, CodesDrawn, LocalsDrawn, Code
  <1>20. ASSUME NEW p \in Req, Activate(p) PROVE CodesDrawn'
    BY <1>20, <1>a DEF Activate, CodesDrawn, LocalsDrawn, Code
  <1>21. ASSUME NEW p \in Req, ResetFind(p) PROVE CodesDrawn'
    BY <1>21, <1>a DEF ResetFind, CodesDrawn, LocalsDrawn, Code
  <1>22. ASSUME NEW p \in Req, SaveReset(p) PROVE CodesDrawn'
    BY <1>22, <1>a DEF SaveReset, CodesDrawn, LocalsDrawn, Code
  <1>23. ASSUME NEW p \in Req, NewFind(p) PROVE CodesDrawn'
    BY <1>23, <1>a DEF NewFind, CodesDrawn, LocalsDrawn, Code
  <1>24. ASSUME NEW p \in Req, NewUpdate(p) PROVE CodesDrawn'
    <2>1. \A c \in Code : changes'[c] > 0 => c <= lastCode
      BY <1>24, <1>a DEF NewUpdate, Finish, CodesDrawn, LocalsDrawn, Code
    <2> QED
      BY <1>24, <2>1, <1>a DEF NewUpdate, CodesDrawn, Pass
  <1>25. ASSUME NEW p \in Req, NewClear(p) PROVE CodesDrawn'
    BY <1>25, <1>a DEF NewClear, Finish, CodesDrawn, LocalsDrawn, Code
  <1>26. ASSUME NEW p \in Req, Abort(p) PROVE CodesDrawn'
    BY <1>26, <1>a DEF Abort, CodesDrawn, LocalsDrawn, Code
  <1>27. ASSUME NEW p \in Req, MailCode(p) PROVE CodesDrawn'
    <2>1. loc[p].code \in 1..lastCode /\ loc[p].code \notin resetCodes
      BY <1>27, <1>a DEF MailCode, LocalsDrawn
    <2> QED
      BY <1>27, <2>1, <1>a DEF MailCode, CodesDrawn
  <1>28. ASSUME NEW p \in Req, ClearCode(p) PROVE CodesDrawn'
    BY <1>28, <1>a DEF ClearCode, CodesDrawn, LocalsDrawn, Code
  <1>29. CASE UNCHANGED vars
    BY <1>29, <1>a DEF CodesDrawn, LocalsDrawn, Code
  <1> QED
    BY <1>1, <1>2, <1>3, <1>4, <1>5, <1>6, <1>7, <1>8, <1>9, <1>10, <1>11, <1>12,
       <1>13, <1>14, <1>15, <1>16, <1>17, <1>18, <1>19, <1>20, <1>21, <1>22, <1>23,
       <1>24, <1>25, <1>26, <1>27, <1>28, <1>29 DEF Next

\* A request remembers what was drawn before, or has just drawn it.
LEMMA LocalsDrawnStep ==
    Typed /\ CodesDrawn /\ LocalsDrawn /\ [Next]_vars => LocalsDrawn'
  <1> SUFFICES ASSUME Typed /\ CodesDrawn /\ LocalsDrawn, [Next]_vars PROVE LocalsDrawn'
    OBVIOUS
  <1>a. /\ pc \in [Req -> Step] /\ loc \in [Req -> Local] /\ attempts \in Nat
        /\ lastCode \in Nat /\ lastPass \in Nat /\ failures \in Nat /\ changes \in [Code -> Nat]
        /\ \A q \in Req : loc[q].code \in Nat /\ loc[q].pass \in Nat /\ loc[q].n \in Nat
    BY BoundsAssumption DEF Typed, DataTyped, Pass, Local
  <1> USE DEF Goto, Leave, NoLocal, Local
  <1>1. ASSUME LoginSucceed PROVE LocalsDrawn'
    BY <1>1, <1>a DEF LoginSucceed, CodesDrawn, LocalsDrawn
  <1>2. ASSUME AttemptsLapse PROVE LocalsDrawn'
    BY <1>2, <1>a DEF AttemptsLapse, CodesDrawn, LocalsDrawn
  <1>3. ASSUME NEW c \in Code, CodeLapse(c) PROVE LocalsDrawn'
    BY <1>3, <1>a DEF CodeLapse, CodesDrawn, LocalsDrawn
  <1>4. ASSUME NEW p \in Req, LoginFail(p) PROVE LocalsDrawn'
    BY <1>4, <1>a DEF LoginFail, CodesDrawn, LocalsDrawn
  <1>5. ASSUME NEW p \in Req, FailRead(p) PROVE LocalsDrawn'
    BY <1>5, <1>a DEF FailRead, CodesDrawn, LocalsDrawn
  <1>6. ASSUME NEW p \in Req, IncRead(p) PROVE LocalsDrawn'
    BY <1>6, <1>a DEF IncRead, CodesDrawn, LocalsDrawn
  <1>7. ASSUME NEW p \in Req, IncWrite(p) PROVE LocalsDrawn'
    BY <1>7, <1>a DEF IncWrite, CodesDrawn, LocalsDrawn
  <1>8. ASSUME NEW p \in Req, Lookup(p) PROVE LocalsDrawn'
    BY <1>8, <1>a DEF Lookup, CodesDrawn, LocalsDrawn
  <1>9. ASSUME NEW p \in Req, SaveCode(p) PROVE LocalsDrawn'
    BY <1>9, <1>a DEF SaveCode, CodesDrawn, LocalsDrawn
  <1>10. ASSUME NEW p \in Req, Block1(p) PROVE LocalsDrawn'
    BY <1>10, <1>a DEF Block1, CodesDrawn, LocalsDrawn
  <1>11. ASSUME NEW p \in Req, Block2(p) PROVE LocalsDrawn'
    BY <1>11, <1>a DEF Block2, CodesDrawn, LocalsDrawn
  <1>12. ASSUME NEW p \in Req, NEW c \in Code, UnblockRead(p, c) PROVE LocalsDrawn'
    BY <1>12, <1>a DEF UnblockRead, CodesDrawn, LocalsDrawn
  <1>13. ASSUME NEW p \in Req, NEW c \in Code, NewRead(p, c) PROVE LocalsDrawn'
    BY <1>13, <1>a DEF NewRead, CodesDrawn, LocalsDrawn
  <1>14. ASSUME NEW p \in Req, Unblock(p) PROVE LocalsDrawn'
    BY <1>14, <1>a DEF Unblock, CodesDrawn, LocalsDrawn
  <1>15. ASSUME NEW p \in Req, UnblockFind(p) PROVE LocalsDrawn'
    BY <1>15, <1>a DEF UnblockFind, CodesDrawn, LocalsDrawn
  <1>16. ASSUME NEW p \in Req, SetTemp(p) PROVE LocalsDrawn'
    BY <1>16, <1>a DEF SetTemp, CodesDrawn, LocalsDrawn
  <1>17. ASSUME NEW p \in Req, MailTemp(p) PROVE LocalsDrawn'
    BY <1>17, <1>a DEF MailTemp, CodesDrawn, LocalsDrawn
  <1>18. ASSUME NEW p \in Req, ClearAttempts(p) PROVE LocalsDrawn'
    BY <1>18, <1>a DEF ClearAttempts, CodesDrawn, LocalsDrawn
  <1>19. ASSUME NEW p \in Req, NEW t \in {"email_verification", "access"}, ActivateRead(p, t)
         PROVE  LocalsDrawn'
    BY <1>19, <1>a DEF ActivateRead, CodesDrawn, LocalsDrawn
  <1>20. ASSUME NEW p \in Req, Activate(p) PROVE LocalsDrawn'
    BY <1>20, <1>a DEF Activate, CodesDrawn, LocalsDrawn
  <1>21. ASSUME NEW p \in Req, ResetFind(p) PROVE LocalsDrawn'
    BY <1>21, <1>a DEF ResetFind, CodesDrawn, LocalsDrawn
  <1>22. ASSUME NEW p \in Req, SaveReset(p) PROVE LocalsDrawn'
    BY <1>22, <1>a DEF SaveReset, CodesDrawn, LocalsDrawn
  <1>23. ASSUME NEW p \in Req, NewFind(p) PROVE LocalsDrawn'
    BY <1>23, <1>a DEF NewFind, CodesDrawn, LocalsDrawn
  <1>24. ASSUME NEW p \in Req, NewUpdate(p) PROVE LocalsDrawn'
    BY <1>24, <1>a DEF NewUpdate, Finish, CodesDrawn, LocalsDrawn
  <1>25. ASSUME NEW p \in Req, NewClear(p) PROVE LocalsDrawn'
    BY <1>25, <1>a DEF NewClear, Finish, CodesDrawn, LocalsDrawn
  <1>26. ASSUME NEW p \in Req, Abort(p) PROVE LocalsDrawn'
    BY <1>26, <1>a DEF Abort, CodesDrawn, LocalsDrawn
  <1>27. ASSUME NEW p \in Req, MailCode(p) PROVE LocalsDrawn'
    BY <1>27, <1>a DEF MailCode, CodesDrawn, LocalsDrawn
  <1>28. ASSUME NEW p \in Req, ClearCode(p) PROVE LocalsDrawn'
    BY <1>28, <1>a DEF ClearCode, CodesDrawn, LocalsDrawn
  <1>29. CASE UNCHANGED vars
    BY <1>29, <1>a DEF CodesDrawn, LocalsDrawn
  <1> QED
    BY <1>1, <1>2, <1>3, <1>4, <1>5, <1>6, <1>7, <1>8, <1>9, <1>10, <1>11, <1>12,
       <1>13, <1>14, <1>15, <1>16, <1>17, <1>18, <1>19, <1>20, <1>21, <1>22, <1>23,
       <1>24, <1>25, <1>26, <1>27, <1>28, <1>29 DEF Next

\* What most actions do to the counter: nothing, or they clear it.
Quiet ==
    /\ attempts' = attempts \/ attempts' = 0
    /\ failures' = failures
    /\ \A q \in Req :
          /\ pc'[q] \in {"failRead", "incRead", "incWrite"} <=>
                pc[q] \in {"failRead", "incRead", "incWrite"}
          /\ pc'[q] = "incWrite" => pc[q] = "incWrite" /\ loc'[q].n = loc[q].n

\* So the counter stays behind.
LEMMA QuietCounter == CounterBehind /\ Typed /\ Quiet => CounterBehind'
  <1> SUFFICES ASSUME CounterBehind, Typed, Quiet PROVE CounterBehind'
    OBVIOUS
  <1>1. Uncounted' = Uncounted
    BY DEF Uncounted, Quiet
  <1>2. attempts \in Nat /\ failures \in Nat /\ Cardinality(Uncounted) \in Nat
    BY BoundsAssumption, FS_CardinalityType DEF Typed, DataTyped, CounterBehind
  <1> QED
    BY <1>1, <1>2 DEF CounterBehind, Quiet

\* A failure that will not be counted any more leaves room.
LEMMA OneLess ==
    ASSUME NEW p \in Req, CounterBehind, Typed, p \in Uncounted,
           Uncounted' = Uncounted \ {p}, UNCHANGED <<attempts, failures>>,
           \A q \in Req : pc'[q] = "incWrite" => pc[q] = "incWrite" /\ loc'[q] = loc[q]
    PROVE  CounterBehind'
  <1>1. /\ IsFiniteSet(Uncounted') /\ Cardinality(Uncounted') \in Nat
        /\ Cardinality(Uncounted') = Cardinality(Uncounted) - 1
    BY FS_RemoveElement, FS_CardinalityType DEF CounterBehind
  <1>2. attempts \in Nat /\ failures \in Nat /\ Cardinality(Uncounted) \in Nat
        /\ \A q \in Req : loc[q].n \in Nat
    BY BoundsAssumption, FS_CardinalityType DEF Typed, DataTyped, CounterBehind, Local
  <1>3. attempts' + Cardinality(Uncounted') <= failures'
    BY <1>1, <1>2 DEF CounterBehind
  <1>4. ASSUME NEW q \in Req, pc'[q] = "incWrite"
        PROVE  loc'[q].n + Cardinality(Uncounted') <= failures'
    <2>1. loc[q].n + Cardinality(Uncounted) <= failures /\ loc'[q] = loc[q]
      BY <1>4 DEF CounterBehind
    <2> QED
      BY <2>1, <1>1, <1>2
  <1> QED
    BY <1>1, <1>3, <1>4 DEF CounterBehind

\* Each action either counts one failure, as one more or one less in progress,
\* or leaves the counter alone or clears it.
LEMMA CounterStep == Typed /\ CounterBehind /\ [Next]_vars => CounterBehind'
  <1> SUFFICES ASSUME Typed /\ CounterBehind, [Next]_vars PROVE CounterBehind'
    OBVIOUS
  <1>a. /\ pc \in [Req -> Step] /\ loc \in [Req -> Local] /\ attempts \in Nat
        /\ failures \in Nat
        /\ \A q \in Req : loc[q].n \in Nat
    BY BoundsAssumption DEF Typed, DataTyped, Local
  <1>b. Cardinality(Uncounted) \in Nat
    BY FS_CardinalityType DEF CounterBehind
  <1> USE DEF Goto, Leave, NoLocal, Local
  <1>1. ASSUME LoginSucceed PROVE CounterBehind'
    <2>1. Quiet
      BY <1>1, <1>a DEF LoginSucceed, Quiet
    <2> QED
      BY <2>1, QuietCounter
  <1>2. ASSUME AttemptsLapse PROVE CounterBehind'
    <2>1. Quiet
      BY <1>2, <1>a DEF AttemptsLapse, Quiet
    <2> QED
      BY <2>1, QuietCounter
  <1>3. ASSUME NEW c \in Code, CodeLapse(c) PROVE CounterBehind'
    <2>1. Quiet
      BY <1>3, <1>a DEF CodeLapse, Quiet
    <2> QED
      BY <2>1, QuietCounter
  <1>4. ASSUME NEW p \in Req, LoginFail(p) PROVE CounterBehind'
    <2>1. /\ Uncounted' = Uncounted \cup {p} /\ p \notin Uncounted
          /\ attempts' = attempts /\ loc' = loc /\ failures' = failures + 1
          /\ \A q \in Req : pc'[q] = "incWrite" => pc[q] = "incWrite"
      BY <1>4, <1>a DEF LoginFail, Uncounted
    <2>2. IsFiniteSet(Uncounted') /\ Cardinality(Uncounted') = Cardinality(Uncounted) + 1
      BY <2>1, FS_AddElement DEF CounterBehind
    <2>3. ASSUME NEW q \in Req, pc'[q] = "incWrite"
          PROVE  loc'[q].n + Cardinality(Uncounted') <= failures'
      <3>1. loc[q].n + Cardinality(Uncounted) <= failures /\ loc'[q] = loc[q]
        BY <2>1, <2>3 DEF CounterBehind
      <3> QED
        BY <3>1, <2>1, <2>2, <1>a, <1>b
    <2>4. attempts' + Cardinality(Uncounted') <= failures'
      BY <2>1, <2>2, <1>a, <1>b DEF CounterBehind
    <2> QED
      BY <2>2, <2>3, <2>4 DEF CounterBehind
  <1>5. ASSUME NEW p \in Req, FailRead(p) PROVE CounterBehind'
    <2>1. CASE TooMany(attempts)
      <3>1. /\ Uncounted' = Uncounted \ {p} /\ p \in Uncounted
            /\ \A q \in Req : pc'[q] = "incWrite" => pc[q] = "incWrite"
        BY <1>5, <2>1, <1>a DEF FailRead, Uncounted
      <3>2. UNCHANGED <<attempts, loc, failures>>
        BY <1>5 DEF FailRead
      <3> QED
        BY <3>1, <3>2, <1>a, OneLess
    <2>2. CASE ~ TooMany(attempts)
      <3>1. Quiet
        BY <1>5, <2>2, <1>a DEF FailRead, Quiet
      <3> QED
        BY <3>1, QuietCounter
    <2> QED
      BY <2>1, <2>2
  <1>6. ASSUME NEW p \in Req, IncRead(p) PROVE CounterBehind'
    <2>1. Uncounted' = Uncounted /\ UNCHANGED <<attempts, failures>>
      BY <1>6, <1>a DEF IncRead, Uncounted
    <2>2. ASSUME NEW q \in Req, pc'[q] = "incWrite"
          PROVE  loc'[q].n + Cardinality(Uncounted) <= failures
      <3>1. CASE q = p
        <4>1. loc'[p].n = attempts
          BY <1>6, <1>a DEF IncRead
        <4> QED
          BY <3>1, <4>1, <1>a DEF CounterBehind
      <3>2. CASE q # p
        <4>1. pc[q] = "incWrite" /\ loc'[q] = loc[q]
          BY <1>6, <2>2, <3>2, <1>a DEF IncRead
        <4> QED
          BY <4>1 DEF CounterBehind
      <3> QED
        BY <3>1, <3>2
    <2> QED
      BY <2>1, <2>2, <1>a, <1>b DEF CounterBehind
  <1>7. ASSUME NEW p \in Req, IncWrite(p) PROVE CounterBehind'
    <2>1. /\ Uncounted' = Uncounted \ {p} /\ p \in Uncounted
          /\ \A q \in Req : pc'[q] = "incWrite" => pc[q] = "incWrite" /\ loc'[q] = loc[q]
          /\ failures' = failures /\ attempts' = loc[p].n + 1 /\ pc[p] = "incWrite"
      BY <1>7, <1>a DEF IncWrite, Uncounted
    <2>2. /\ IsFiniteSet(Uncounted') /\ Cardinality(Uncounted') \in Nat
          /\ Cardinality(Uncounted') = Cardinality(Uncounted) - 1
      BY <2>1, FS_RemoveElement, FS_CardinalityType DEF CounterBehind
    <2>3. ASSUME NEW q \in Req, pc'[q] = "incWrite"
          PROVE  loc'[q].n + Cardinality(Uncounted') <= failures'
      <3>1. loc[q].n + Cardinality(Uncounted) <= failures /\ loc'[q] = loc[q]
        BY <2>1, <2>3 DEF CounterBehind
      <3> QED
        BY <3>1, <2>1, <2>2, <1>a, <1>b
    <2>4. attempts' + Cardinality(Uncounted') <= failures'
      BY <2>1, <2>2, <1>a, <1>b DEF CounterBehind
    <2> QED
      BY <2>2, <2>3, <2>4 DEF CounterBehind
  <1>8. ASSUME NEW p \in Req, Lookup(p) PROVE CounterBehind'
    <2>1. Quiet
      BY <1>8, <1>a DEF Lookup, Quiet
    <2> QED
      BY <2>1, QuietCounter
  <1>9. ASSUME NEW p \in Req, SaveCode(p) PROVE CounterBehind'
    <2>1. Quiet
      BY <1>9, <1>a DEF SaveCode, Quiet
    <2> QED
      BY <2>1, QuietCounter
  <1>10. ASSUME NEW p \in Req, Block1(p) PROVE CounterBehind'
    <2>1. Quiet
      BY <1>10, <1>a DEF Block1, Quiet
    <2> QED
      BY <2>1, QuietCounter
  <1>11. ASSUME NEW p \in Req, Block2(p) PROVE CounterBehind'
    <2>1. Quiet
      BY <1>11, <1>a DEF Block2, Quiet
    <2> QED
      BY <2>1, QuietCounter
  <1>12. ASSUME NEW p \in Req, NEW c \in Code, UnblockRead(p, c) PROVE CounterBehind'
    <2>1. Quiet
      BY <1>12, <1>a DEF UnblockRead, Quiet
    <2> QED
      BY <2>1, QuietCounter
  <1>13. ASSUME NEW p \in Req, NEW c \in Code, NewRead(p, c) PROVE CounterBehind'
    <2>1. Quiet
      BY <1>13, <1>a DEF NewRead, Quiet
    <2> QED
      BY <2>1, QuietCounter
  <1>14. ASSUME NEW p \in Req, Unblock(p) PROVE CounterBehind'
    <2>1. Quiet
      BY <1>14, <1>a DEF Unblock, Quiet
    <2> QED
      BY <2>1, QuietCounter
  <1>15. ASSUME NEW p \in Req, UnblockFind(p) PROVE CounterBehind'
    <2>1. Quiet
      BY <1>15, <1>a DEF UnblockFind, Quiet
    <2> QED
      BY <2>1, QuietCounter
  <1>16. ASSUME NEW p \in Req, SetTemp(p) PROVE CounterBehind'
    <2>1. Quiet
      BY <1>16, <1>a DEF SetTemp, Quiet
    <2> QED
      BY <2>1, QuietCounter
  <1>17. ASSUME NEW p \in Req, MailTemp(p) PROVE CounterBehind'
    <2>1. Quiet
      BY <1>17, <1>a DEF MailTemp, Quiet
    <2> QED
      BY <2>1, QuietCounter
  <1>18. ASSUME NEW p \in Req, ClearAttempts(p) PROVE CounterBehind'
    <2>1. Quiet
      BY <1>18, <1>a DEF ClearAttempts, Quiet
    <2> QED
      BY <2>1, QuietCounter
  <1>19. ASSUME NEW p \in Req, NEW t \in {"email_verification", "access"}, ActivateRead(p, t)
         PROVE  CounterBehind'
    <2>1. Quiet
      BY <1>19, <1>a DEF ActivateRead, Quiet
    <2> QED
      BY <2>1, QuietCounter
  <1>20. ASSUME NEW p \in Req, Activate(p) PROVE CounterBehind'
    <2>1. Quiet
      BY <1>20, <1>a DEF Activate, Quiet
    <2> QED
      BY <2>1, QuietCounter
  <1>21. ASSUME NEW p \in Req, ResetFind(p) PROVE CounterBehind'
    <2>1. Quiet
      BY <1>21, <1>a DEF ResetFind, Quiet
    <2> QED
      BY <2>1, QuietCounter
  <1>22. ASSUME NEW p \in Req, SaveReset(p) PROVE CounterBehind'
    <2>1. Quiet
      BY <1>22, <1>a DEF SaveReset, Quiet
    <2> QED
      BY <2>1, QuietCounter
  <1>23. ASSUME NEW p \in Req, NewFind(p) PROVE CounterBehind'
    <2>1. Quiet
      BY <1>23, <1>a DEF NewFind, Quiet
    <2> QED
      BY <2>1, QuietCounter
  <1>24. ASSUME NEW p \in Req, NewUpdate(p) PROVE CounterBehind'
    <2>1. Quiet
      BY <1>24, <1>a DEF NewUpdate, Finish, Quiet
    <2> QED
      BY <2>1, QuietCounter
  <1>25. ASSUME NEW p \in Req, NewClear(p) PROVE CounterBehind'
    <2>1. Quiet
      BY <1>25, <1>a DEF NewClear, Finish, Quiet
    <2> QED
      BY <2>1, QuietCounter
  <1>26. ASSUME NEW p \in Req, Abort(p) PROVE CounterBehind'
    <2>1. CASE p \in Uncounted
      <3>1. /\ Uncounted' = Uncounted \ {p}
            /\ \A q \in Req : pc'[q] = "incWrite" => pc[q] = "incWrite" /\ loc'[q] = loc[q]
            /\ UNCHANGED <<failures, attempts>>
        BY <1>26, <1>a DEF Abort, Uncounted
      <3> QED
        BY <2>1, <3>1, <1>a, OneLess
    <2>2. CASE p \notin Uncounted
      <3>1. Quiet
        BY <1>26, <2>2, <1>a DEF Abort, Quiet, Uncounted
      <3> QED
        BY <3>1, QuietCounter
    <2> QED
      BY <2>1, <2>2
  <1>27. ASSUME NEW p \in Req, MailCode(p) PROVE CounterBehind'
    <2>1. Quiet
      BY <1>27, <1>a DEF MailCode, Quiet
    <2> QED
      BY <2>1, QuietCounter
  <1>28. ASSUME NEW p \in Req, ClearCode(p) PROVE CounterBehind'
    <2>1. Quiet
      BY <1>28, <1>a DEF ClearCode, Quiet
    <2> QED
      BY <2>1, QuietCounter
  <1>29. CASE UNCHANGED vars
    BY <1>29, <1>a DEF CounterBehind, Uncounted
  <1> QED
    BY <1>1, <1>2, <1>3, <1>4, <1>5, <1>6, <1>7, <1>8, <1>9, <1>10, <1>11, <1>12,
       <1>13, <1>14, <1>15, <1>16, <1>17, <1>18, <1>19, <1>20, <1>21, <1>22, <1>23,
       <1>24, <1>25, <1>26, <1>27, <1>28, <1>29 DEF Next

\* The counter is read full only by a failure that it has yet to learn of.
LEMMA EarnedStep == Typed /\ CounterBehind /\ BlockEarned /\ [Next]_vars => BlockEarned'
  <1> SUFFICES ASSUME Typed /\ CounterBehind /\ BlockEarned, [Next]_vars PROVE BlockEarned'
    OBVIOUS
  <1>a. /\ pc \in [Req -> Step] /\ loc \in [Req -> Local] /\ attempts \in Nat
        /\ failures \in Nat
        /\ \A q \in Req : loc[q].n \in Nat
    BY BoundsAssumption DEF Typed, DataTyped, Local
  <1>b. Cardinality(Uncounted) \in Nat
    BY FS_CardinalityType DEF CounterBehind
  <1> USE DEF Goto, Leave, NoLocal, Local
  <1>c. MaxAttempts \in Nat
    BY BoundsAssumption
  <1>1. ASSUME LoginSucceed PROVE BlockEarned'
    BY <1>1, <1>a, <1>c DEF LoginSucceed, BlockEarned
  <1>2. ASSUME AttemptsLapse PROVE BlockEarned'
    BY <1>2, <1>a, <1>c DEF AttemptsLapse, BlockEarned
  <1>3. ASSUME NEW c \in Code, CodeLapse(c) PROVE BlockEarned'
    BY <1>3, <1>a, <1>c DEF CodeLapse, BlockEarned
  <1>4. ASSUME NEW p \in Req, LoginFail(p) PROVE BlockEarned'
    BY <1>4, <1>a, <1>c DEF LoginFail, BlockEarned
  <1>5. ASSUME NEW p \in Req, FailRead(p) PROVE BlockEarned'
    <2>1. CASE TooMany(attempts)
      <3>1. p \in Uncounted
        BY <1>5 DEF FailRead, Uncounted
      <3>2. Cardinality(Uncounted) > 0
        BY <3>1, <1>b, FS_EmptySet DEF CounterBehind
      <3>3. failures > MaxAttempts
        BY <2>1, <3>2, <1>a, <1>b, <1>c DEF CounterBehind, TooMany
      <3> QED
        BY <1>5, <3>3 DEF FailRead, BlockEarned
    <2>2. CASE ~ TooMany(attempts)
      BY <1>5, <2>2, <1>a DEF FailRead, BlockEarned
    <2> QED
      BY <2>1, <2>2
  <1>6. ASSUME NEW p \in Req, IncRead(p) PROVE BlockEarned'
    BY <1>6, <1>a, <1>c DEF IncRead, BlockEarned
  <1>7. ASSUME NEW p \in Req, IncWrite(p) PROVE BlockEarned'
    BY <1>7, <1>a, <1>c DEF IncWrite, BlockEarned
  <1>8. ASSUME NEW p \in Req, Lookup(p) PROVE BlockEarned'
    BY <1>8, <1>a, <1>c DEF Lookup, BlockEarned
  <1>9. ASSUME NEW p \in Req, SaveCode(p) PROVE BlockEarned'
    BY <1>9, <1>a, <1>c DEF SaveCode, BlockEarned
  <1>10. ASSUME NEW p \in Req, Block1(p) PROVE BlockEarned'
    BY <1>10, <1>a, <1>c DEF Block1, BlockEarned
  <1>11. ASSUME NEW p \in Req, Block2(p) PROVE BlockEarned'
    BY <1>11, <1>a, <1>c DEF Block2, BlockEarned
  <1>12. ASSUME NEW p \in Req, NEW c \in Code, UnblockRead(p, c) PROVE BlockEarned'
    BY <1>12, <1>a, <1>c DEF UnblockRead, BlockEarned
  <1>13. ASSUME NEW p \in Req, NEW c \in Code, NewRead(p, c) PROVE BlockEarned'
    BY <1>13, <1>a, <1>c DEF NewRead, BlockEarned
  <1>14. ASSUME NEW p \in Req, Unblock(p) PROVE BlockEarned'
    BY <1>14, <1>a, <1>c DEF Unblock, BlockEarned
  <1>15. ASSUME NEW p \in Req, UnblockFind(p) PROVE BlockEarned'
    BY <1>15, <1>a, <1>c DEF UnblockFind, BlockEarned
  <1>16. ASSUME NEW p \in Req, SetTemp(p) PROVE BlockEarned'
    BY <1>16, <1>a, <1>c DEF SetTemp, BlockEarned
  <1>17. ASSUME NEW p \in Req, MailTemp(p) PROVE BlockEarned'
    BY <1>17, <1>a, <1>c DEF MailTemp, BlockEarned
  <1>18. ASSUME NEW p \in Req, ClearAttempts(p) PROVE BlockEarned'
    BY <1>18, <1>a, <1>c DEF ClearAttempts, BlockEarned
  <1>19. ASSUME NEW p \in Req, NEW t \in {"email_verification", "access"}, ActivateRead(p, t)
         PROVE  BlockEarned'
    BY <1>19, <1>a, <1>c DEF ActivateRead, BlockEarned
  <1>20. ASSUME NEW p \in Req, Activate(p) PROVE BlockEarned'
    BY <1>20, <1>a, <1>c DEF Activate, BlockEarned
  <1>21. ASSUME NEW p \in Req, ResetFind(p) PROVE BlockEarned'
    BY <1>21, <1>a, <1>c DEF ResetFind, BlockEarned
  <1>22. ASSUME NEW p \in Req, SaveReset(p) PROVE BlockEarned'
    BY <1>22, <1>a, <1>c DEF SaveReset, BlockEarned
  <1>23. ASSUME NEW p \in Req, NewFind(p) PROVE BlockEarned'
    BY <1>23, <1>a, <1>c DEF NewFind, BlockEarned
  <1>24. ASSUME NEW p \in Req, NewUpdate(p) PROVE BlockEarned'
    BY <1>24, <1>a, <1>c DEF NewUpdate, Finish, BlockEarned
  <1>25. ASSUME NEW p \in Req, NewClear(p) PROVE BlockEarned'
    BY <1>25, <1>a, <1>c DEF NewClear, Finish, BlockEarned
  <1>26. ASSUME NEW p \in Req, Abort(p) PROVE BlockEarned'
    BY <1>26, <1>a, <1>c DEF Abort, BlockEarned
  <1>27. ASSUME NEW p \in Req, MailCode(p) PROVE BlockEarned'
    BY <1>27, <1>a, <1>c DEF MailCode, BlockEarned
  <1>28. ASSUME NEW p \in Req, ClearCode(p) PROVE BlockEarned'
    BY <1>28, <1>a, <1>c DEF ClearCode, BlockEarned
  <1>29. CASE UNCHANGED vars
    BY <1>29, <1>a, <1>c DEF BlockEarned
  <1> QED
    BY <1>1, <1>2, <1>3, <1>4, <1>5, <1>6, <1>7, <1>8, <1>9, <1>10, <1>11, <1>12,
       <1>13, <1>14, <1>15, <1>16, <1>17, <1>18, <1>19, <1>20, <1>21, <1>22, <1>23,
       <1>24, <1>25, <1>26, <1>27, <1>28, <1>29 DEF Next

\* The row is written after the code was handed over.
LEMMA HandedStep == Typed /\ BlockHanded /\ [Next]_vars => BlockHanded'
  <1> SUFFICES ASSUME Typed /\ BlockHanded, [Next]_vars PROVE BlockHanded'
    OBVIOUS
  <1>a. /\ pc \in [Req -> Step] /\ loc \in [Req -> Local] /\ attempts \in Nat
        /\ lastCode \in Nat /\ lastPass \in Nat /\ failures \in Nat /\ changes \in [Code -> Nat]
        /\ \A q \in Req : loc[q].code \in Nat /\ loc[q].pass \in Nat /\ loc[q].n \in Nat
    BY BoundsAssumption DEF Typed, DataTyped, Pass, Local
  <1> USE DEF Goto, Leave, NoLocal, Local
  <1>1. ASSUME LoginSucceed PROVE BlockHanded'
    BY <1>1, <1>a DEF LoginSucceed, BlockHanded
  <1>2. ASSUME AttemptsLapse PROVE BlockHanded'
    BY <1>2, <1>a DEF AttemptsLapse, BlockHanded
  <1>3. ASSUME NEW c \in Code, CodeLapse(c) PROVE BlockHanded'
    BY <1>3, <1>a DEF CodeLapse, BlockHanded
  <1>4. ASSUME NEW p \in Req, LoginFail(p) PROVE BlockHanded'
    BY <1>4, <1>a DEF LoginFail, BlockHanded
  <1>5. ASSUME NEW p \in Req, FailRead(p) PROVE BlockHanded'
    BY <1>5, <1>a DEF FailRead, BlockHanded
  <1>6. ASSUME NEW p \in Req, IncRead(p) PROVE BlockHanded'
    BY <1>6, <1>a DEF IncRead, BlockHanded
  <1>7. ASSUME NEW p \in Req, IncWrite(p) PROVE BlockHanded'
    BY <1>7, <1>a DEF IncWrite, BlockHanded
  <1>8. ASSUME NEW p \in Req, Lookup(p) PROVE BlockHanded'
    BY <1>8, <1>a DEF Lookup, BlockHanded
  <1>9. ASSUME NEW p \in Req, SaveCode(p) PROVE BlockHanded'
    BY <1>9, <1>a DEF SaveCode, BlockHanded
  <1>10. ASSUME NEW p \in Req, Block1(p) PROVE BlockHanded'
    BY <1>10, <1>a DEF Block1, BlockHanded
  <1>11. ASSUME NEW p \in Req, Block2(p) PROVE BlockHanded'
    BY <1>11, <1>a DEF Block2, BlockHanded
  <1>12. ASSUME NEW p \in Req, NEW c \in Code, UnblockRead(p, c) PROVE BlockHanded'
    BY <1>12, <1>a DEF UnblockRead, BlockHanded
  <1>13. ASSUME NEW p \in Req, NEW c \in Code, NewRead(p, c) PROVE BlockHanded'
    BY <1>13, <1>a DEF NewRead, BlockHanded
  <1>14. ASSUME NEW p \in Req, Unblock(p) PROVE BlockHanded'
    BY <1>14, <1>a DEF Unblock, BlockHanded
  <1>15. ASSUME NEW p \in Req, UnblockFind(p) PROVE BlockHanded'
    BY <1>15, <1>a DEF UnblockFind, BlockHanded
  <1>16. ASSUME NEW p \in Req, SetTemp(p) PROVE BlockHanded'
    BY <1>16, <1>a DEF SetTemp, BlockHanded
  <1>17. ASSUME NEW p \in Req, MailTemp(p) PROVE BlockHanded'
    BY <1>17, <1>a DEF MailTemp, BlockHanded
  <1>18. ASSUME NEW p \in Req, ClearAttempts(p) PROVE BlockHanded'
    BY <1>18, <1>a DEF ClearAttempts, BlockHanded
  <1>19. ASSUME NEW p \in Req, NEW t \in {"email_verification", "access"}, ActivateRead(p, t)
         PROVE  BlockHanded'
    BY <1>19, <1>a DEF ActivateRead, BlockHanded
  <1>20. ASSUME NEW p \in Req, Activate(p) PROVE BlockHanded'
    BY <1>20, <1>a DEF Activate, BlockHanded
  <1>21. ASSUME NEW p \in Req, ResetFind(p) PROVE BlockHanded'
    BY <1>21, <1>a DEF ResetFind, BlockHanded
  <1>22. ASSUME NEW p \in Req, SaveReset(p) PROVE BlockHanded'
    BY <1>22, <1>a DEF SaveReset, BlockHanded
  <1>23. ASSUME NEW p \in Req, NewFind(p) PROVE BlockHanded'
    BY <1>23, <1>a DEF NewFind, BlockHanded
  <1>24. ASSUME NEW p \in Req, NewUpdate(p) PROVE BlockHanded'
    BY <1>24, <1>a DEF NewUpdate, Finish, BlockHanded
  <1>25. ASSUME NEW p \in Req, NewClear(p) PROVE BlockHanded'
    BY <1>25, <1>a DEF NewClear, Finish, BlockHanded
  <1>26. ASSUME NEW p \in Req, Abort(p) PROVE BlockHanded'
    BY <1>26, <1>a DEF Abort, BlockHanded
  <1>27. ASSUME NEW p \in Req, MailCode(p) PROVE BlockHanded'
    BY <1>27, <1>a DEF MailCode, BlockHanded
  <1>28. ASSUME NEW p \in Req, ClearCode(p) PROVE BlockHanded'
    BY <1>28, <1>a DEF ClearCode, BlockHanded
  <1>29. CASE UNCHANGED vars
    BY <1>29, <1>a DEF BlockHanded
  <1> QED
    BY <1>1, <1>2, <1>3, <1>4, <1>5, <1>6, <1>7, <1>8, <1>9, <1>10, <1>11, <1>12,
       <1>13, <1>14, <1>15, <1>16, <1>17, <1>18, <1>19, <1>20, <1>21, <1>22, <1>23,
       <1>24, <1>25, <1>26, <1>27, <1>28, <1>29 DEF Next

\* SetTemp makes the one password that nobody knows yet, under a code that is
\* accounted for; ClearCode drops the code only once that password is known.
LEMMA AccountedStep ==
    Typed /\ CodesDrawn /\ LocalsDrawn /\ CodesAccounted /\ [Next]_vars => CodesAccounted'
  <1> SUFFICES ASSUME Typed /\ CodesDrawn /\ LocalsDrawn /\ CodesAccounted, [Next]_vars
               PROVE  CodesAccounted'
    OBVIOUS
  <1>a. /\ pc \in [Req -> Step] /\ loc \in [Req -> Local] /\ attempts \in Nat
        /\ lastCode \in Nat /\ lastPass \in Nat /\ failures \in Nat /\ changes \in [Code -> Nat]
        /\ \A q \in Req : loc[q].code \in Nat /\ loc[q].pass \in Nat /\ loc[q].n \in Nat
    BY BoundsAssumption DEF Typed, DataTyped, Pass, Local
  <1> USE DEF Goto, Leave, NoLocal, Local
  <1>1. ASSUME LoginSucceed PROVE CodesAccounted'
    BY <1>1, <1>a DEF LoginSucceed, CodesAccounted, LocalsDrawn, CodesDrawn, Accounted
  <1>2. ASSUME AttemptsLapse PROVE CodesAccounted'
    BY <1>2, <1>a DEF AttemptsLapse, CodesAccounted, LocalsDrawn, CodesDrawn, Accounted
  <1>3. ASSUME NEW c \in Code, CodeLapse(c) PROVE CodesAccounted'
    BY <1>3, <1>a DEF CodeLapse, CodesAccounted, LocalsDrawn, CodesDrawn, Accounted
  <1>4. ASSUME NEW p \in Req, LoginFail(p) PROVE CodesAccounted'
    BY <1>4, <1>a DEF LoginFail, CodesAccounted, LocalsDrawn, CodesDrawn, Accounted
  <1>5. ASSUME NEW p \in Req, FailRead(p) PROVE CodesAccounted'
    BY <1>5, <1>a DEF FailRead, CodesAccounted, LocalsDrawn, CodesDrawn, Accounted
  <1>6. ASSUME NEW p \in Req, IncRead(p) PROVE CodesAccounted'
    BY <1>6, <1>a DEF IncRead, CodesAccounted, LocalsDrawn, CodesDrawn, Accounted
  <1>7. ASSUME NEW p \in Req, IncWrite(p) PROVE CodesAccounted'
    BY <1>7, <1>a DEF IncWrite, CodesAccounted, LocalsDrawn, CodesDrawn, Accounted
  <1>8. ASSUME NEW p \in Req, Lookup(p) PROVE CodesAccounted'
    BY <1>8, <1>a DEF Lookup, CodesAccounted, LocalsDrawn, CodesDrawn, Accounted
  <1>9. ASSUME NEW p \in Req, SaveCode(p) PROVE CodesAccounted'
    BY <1>9, <1>a DEF SaveCode, CodesAccounted, LocalsDrawn, CodesDrawn, Accounted
  <1>10. ASSUME NEW p \in Req, Block1(p) PROVE CodesAccounted'
    BY <1>10, <1>a DEF Block1, CodesAccounted, LocalsDrawn, CodesDrawn, Accounted
  <1>11. ASSUME NEW p \in Req, Block2(p) PROVE CodesAccounted'
    BY <1>11, <1>a DEF Block2, CodesAccounted, LocalsDrawn, CodesDrawn, Accounted
  <1>12. ASSUME NEW p \in Req, NEW c \in Code, UnblockRead(p, c) PROVE CodesAccounted'
    BY <1>12, <1>a DEF UnblockRead, CodesAccounted, LocalsDrawn, CodesDrawn, Accounted
  <1>13. ASSUME NEW p \in Req, NEW c \in Code, NewRead(p, c) PROVE CodesAccounted'
    BY <1>13, <1>a DEF NewRead, CodesAccounted, LocalsDrawn, CodesDrawn, Accounted
  <1>14. ASSUME NEW p \in Req, Unblock(p) PROVE CodesAccounted'
    BY <1>14, <1>a DEF Unblock, CodesAccounted, LocalsDrawn, CodesDrawn, Accounted
  <1>15. ASSUME NEW p \in Req, UnblockFind(p) PROVE CodesAccounted'
    BY <1>15, <1>a DEF UnblockFind, CodesAccounted, LocalsDrawn, CodesDrawn, Accounted
  <1>16. ASSUME NEW p \in Req, SetTemp(p) PROVE CodesAccounted'
    <2> DEFINE n == lastPass + 1
    <2>1. n \in Pass /\ n \notin known /\ Accounted(loc[p].code)
      BY <1>16, <1>a DEF SetTemp, CodesDrawn, CodesAccounted
    <2>2. /\ codeOf' \in [Pass -> 0..MaxCode] /\ codeOf'[n] = loc[p].code
          /\ \A m \in Pass \ {n} : codeOf'[m] = codeOf[m]
      BY <1>16, <2>1, <1>a DEF SetTemp, Typed, DataTyped, Local
    <2>3. UNCHANGED <<known, unblockCodes, lapsed>>
      BY <1>16 DEF SetTemp
    <2>4. known \subseteq Pass
      BY DEF Typed, DataTyped
    <2>5. \A c : Accounted(c) => Accounted(c)'
      BY <2>1, <2>2, <2>3, <2>4 DEF Accounted
    <2>6. \A q \in Req : /\ q # p => pc'[q] = pc[q] /\ loc'[q] = loc[q]
                        /\ loc'[q].code = loc[q].code
      BY <1>16, <1>a DEF SetTemp
    <2>7. pc'[p] = "mailTemp" /\ loc'[p].pass = n /\ password' = n
      BY <1>16, <1>a DEF SetTemp
    <2>8. \A q \in Req : pc[q] \in {"mailTemp", "clearCode"} => loc[q].pass # n
      BY <1>a DEF LocalsDrawn
    <2>9. (\A q \in Req : pc[q] \in {"unblock", "unblockFind", "setTemp", "mailTemp"} =>
              Accounted(loc[q].code))'
      BY <2>1, <2>5, <2>6 DEF CodesAccounted
    <2>10. (\A q \in Req : pc[q] \in {"mailTemp", "clearCode"} =>
               codeOf[loc[q].pass] = loc[q].code)'
      <3>1. \A q \in Req \ {p} : pc[q] \in {"mailTemp", "clearCode"} =>
               /\ codeOf[loc[q].pass] = loc[q].code
               /\ loc[q].pass \in Pass \ {n}
        BY <2>8 DEF CodesAccounted, Typed, Local
      <3> QED
        BY <3>1, <2>2, <2>6, <2>7
    <2>11. (\A q \in Req : At(q, "clearCode") => loc[q].pass \in known)'
      BY <2>3, <2>6, <2>7 DEF CodesAccounted
    <2>12. Accounted(codeOf[password])'
      BY <2>1, <2>2, <2>5, <2>7
    <2> QED
      BY <2>9, <2>10, <2>11, <2>12 DEF CodesAccounted
  <1>17. ASSUME NEW p \in Req, MailTemp(p) PROVE CodesAccounted'
    BY <1>17, <1>a DEF MailTemp, CodesAccounted, LocalsDrawn, CodesDrawn, Accounted
  <1>18. ASSUME NEW p \in Req, ClearAttempts(p) PROVE CodesAccounted'
    BY <1>18, <1>a DEF ClearAttempts, CodesAccounted, LocalsDrawn, CodesDrawn, Accounted
  <1>19. ASSUME NEW p \in Req, NEW t \in {"email_verification", "access"}, ActivateRead(p, t)
         PROVE  CodesAccounted'
    BY <1>19, <1>a DEF ActivateRead, CodesAccounted, LocalsDrawn, CodesDrawn, Accounted
  <1>20. ASSUME NEW p \in Req, Activate(p) PROVE CodesAccounted'
    BY <1>20, <1>a DEF Activate, CodesAccounted, LocalsDrawn, CodesDrawn, Accounted
  <1>21. ASSUME NEW p \in Req, ResetFind(p) PROVE CodesAccounted'
    BY <1>21, <1>a DEF ResetFind, CodesAccounted, LocalsDrawn, CodesDrawn, Accounted
  <1>22. ASSUME NEW p \in Req, SaveReset(p) PROVE CodesAccounted'
    BY <1>22, <1>a DEF SaveReset, CodesAccounted, LocalsDrawn, CodesDrawn, Accounted
  <1>23. ASSUME NEW p \in Req, NewFind(p) PROVE CodesAccounted'
    BY <1>23, <1>a DEF NewFind, CodesAccounted, LocalsDrawn, CodesDrawn, Accounted
  <1>24. ASSUME NEW p \in Req, NewUpdate(p) PROVE CodesAccounted'
    <2>1. /\ known \subseteq known' /\ password' \in known'
          /\ UNCHANGED <<unblockCodes, codeOf, lapsed>>
      BY <1>24 DEF NewUpdate
    <2>2. \A c : Accounted(c) => Accounted(c)'
      BY <2>1 DEF Accounted
    <2>3. \A q \in Req \ {p} : pc'[q] = pc[q] /\ loc'[q] = loc[q]
      BY <1>24, <1>a DEF NewUpdate, Finish
    <2>4. pc'[p] \in {"idle", "newApply"}
      BY <1>24, <1>a DEF NewUpdate, Finish
    <2> QED
      BY <2>1, <2>2, <2>3, <2>4 DEF CodesAccounted
  <1>25. ASSUME NEW p \in Req, NewClear(p) PROVE CodesAccounted'
    BY <1>25, <1>a DEF NewClear, Finish, CodesAccounted, LocalsDrawn, CodesDrawn,
       Accounted
  <1>26. ASSUME NEW p \in Req, Abort(p) PROVE CodesAccounted'
    BY <1>26, <1>a DEF Abort, CodesAccounted, LocalsDrawn, CodesDrawn, Accounted
  <1>27. ASSUME NEW p \in Req, MailCode(p) PROVE CodesAccounted'
    BY <1>27, <1>a DEF MailCode, CodesAccounted, LocalsDrawn, CodesDrawn, Accounted
  <1>28. ASSUME NEW p \in Req, ClearCode(p) PROVE CodesAccounted'
    BY <1>28, <1>a DEF ClearCode, CodesAccounted, LocalsDrawn, CodesDrawn, Accounted
  <1>29. CASE UNCHANGED vars
    BY <1>29, <1>a DEF CodesAccounted, LocalsDrawn, CodesDrawn, Accounted
  <1> QED
    BY <1>1, <1>2, <1>3, <1>4, <1>5, <1>6, <1>7, <1>8, <1>9, <1>10, <1>11, <1>12,
       <1>13, <1>14, <1>15, <1>16, <1>17, <1>18, <1>19, <1>20, <1>21, <1>22, <1>23,
       <1>24, <1>25, <1>26, <1>27, <1>28, <1>29 DEF Next

\* The half of a password change that comes last finds the code deleted.
LEMMA ClearedStep ==
    Typed /\ CodesDrawn /\ LocalsDrawn /\ ClearedIsGone /\ [Next]_vars => ClearedIsGone'
  <1> SUFFICES ASSUME Typed /\ CodesDrawn /\ LocalsDrawn /\ ClearedIsGone, [Next]_vars
               PROVE  ClearedIsGone'
    OBVIOUS
  <1>a. /\ pc \in [Req -> Step] /\ loc \in [Req -> Local] /\ attempts \in Nat
        /\ lastCode \in Nat /\ lastPass \in Nat /\ failures \in Nat /\ changes \in [Code -> Nat]
        /\ \A q \in Req : loc[q].code \in Nat /\ loc[q].pass \in Nat /\ loc[q].n \in Nat
    BY BoundsAssumption DEF Typed, DataTyped, Pass, Local
  <1> USE DEF Goto, Leave, NoLocal, Local
  <1>1. ASSUME LoginSucceed PROVE ClearedIsGone'
    BY <1>1, <1>a DEF LoginSucceed, ClearedIsGone, AnsweredCodeGone, CodesDrawn,
       Halves, Code
  <1>2. ASSUME AttemptsLapse PROVE ClearedIsGone'
    BY <1>2, <1>a DEF AttemptsLapse, ClearedIsGone, AnsweredCodeGone, CodesDrawn,
       Halves, Code
  <1>3. ASSUME NEW c \in Code, CodeLapse(c) PROVE ClearedIsGone'
    BY <1>3, <1>a DEF CodeLapse, ClearedIsGone, AnsweredCodeGone, CodesDrawn, Halves,
       Code
  <1>4. ASSUME NEW p \in Req, LoginFail(p) PROVE ClearedIsGone'
    BY <1>4, <1>a DEF LoginFail, ClearedIsGone, AnsweredCodeGone, CodesDrawn, Halves,
       Code
  <1>5. ASSUME NEW p \in Req, FailRead(p) PROVE ClearedIsGone'
    BY <1>5, <1>a DEF FailRead, ClearedIsGone, AnsweredCodeGone, CodesDrawn, Halves,
       Code
  <1>6. ASSUME NEW p \in Req, IncRead(p) PROVE ClearedIsGone'
    BY <1>6, <1>a DEF IncRead, ClearedIsGone, AnsweredCodeGone, CodesDrawn, Halves, Code
  <1>7. ASSUME NEW p \in Req, IncWrite(p) PROVE ClearedIsGone'
    BY <1>7, <1>a DEF IncWrite, ClearedIsGone, AnsweredCodeGone, CodesDrawn, Halves,
       Code
  <1>8. ASSUME NEW p \in Req, Lookup(p) PROVE ClearedIsGone'
    BY <1>8, <1>a DEF Lookup, ClearedIsGone, AnsweredCodeGone, CodesDrawn, Halves, Code
  <1>9. ASSUME NEW p \in Req, SaveCode(p) PROVE ClearedIsGone'
    BY <1>9, <1>a DEF SaveCode, ClearedIsGone, AnsweredCodeGone, CodesDrawn, Halves,
       Code
  <1>10. ASSUME NEW p \in Req, Block1(p) PROVE ClearedIsGone'
    BY <1>10, <1>a DEF Block1, ClearedIsGone, AnsweredCodeGone, CodesDrawn, Halves, Code
  <1>11. ASSUME NEW p \in Req, Block2(p) PROVE ClearedIsGone'
    BY <1>11, <1>a DEF Block2, ClearedIsGone, AnsweredCodeGone, CodesDrawn, Halves, Code
  <1>12. ASSUME NEW p \in Req, NEW c \in Code, UnblockRead(p, c) PROVE ClearedIsGone'
    BY <1>12, <1>a DEF UnblockRead, ClearedIsGone, AnsweredCodeGone, CodesDrawn,
       Halves, Code
  <1>13. ASSUME NEW p \in Req, NEW c \in Code, NewRead(p, c) PROVE ClearedIsGone'
    BY <1>13, <1>a DEF NewRead, ClearedIsGone, AnsweredCodeGone, CodesDrawn, Halves,
       Code
  <1>14. ASSUME NEW p \in Req, Unblock(p) PROVE ClearedIsGone'
    BY <1>14, <1>a DEF Unblock, ClearedIsGone, AnsweredCodeGone, CodesDrawn, Halves,
       Code
  <1>15. ASSUME NEW p \in Req, UnblockFind(p) PROVE ClearedIsGone'
    BY <1>15, <1>a DEF UnblockFind, ClearedIsGone, AnsweredCodeGone, CodesDrawn,
       Halves, Code
  <1>16. ASSUME NEW p \in Req, SetTemp(p) PROVE ClearedIsGone'
    BY <1>16, <1>a DEF SetTemp, ClearedIsGone, AnsweredCodeGone, CodesDrawn, Halves,
       Code
  <1>17. ASSUME NEW p \in Req, MailTemp(p) PROVE ClearedIsGone'
    BY <1>17, <1>a DEF MailTemp, ClearedIsGone, AnsweredCodeGone, CodesDrawn, Halves,
       Code
  <1>18. ASSUME NEW p \in Req, ClearAttempts(p) PROVE ClearedIsGone'
    BY <1>18, <1>a DEF ClearAttempts, ClearedIsGone, AnsweredCodeGone, CodesDrawn,
       Halves, Code
  <1>19. ASSUME NEW p \in Req, NEW t \in {"email_verification", "access"}, ActivateRead(p, t)
         PROVE  ClearedIsGone'
    BY <1>19, <1>a DEF ActivateRead, ClearedIsGone, AnsweredCodeGone, CodesDrawn,
       Halves, Code
  <1>20. ASSUME NEW p \in Req, Activate(p) PROVE ClearedIsGone'
    BY <1>20, <1>a DEF Activate, ClearedIsGone, AnsweredCodeGone, CodesDrawn, Halves,
       Code
  <1>21. ASSUME NEW p \in Req, ResetFind(p) PROVE ClearedIsGone'
    BY <1>21, <1>a DEF ResetFind, ClearedIsGone, AnsweredCodeGone, CodesDrawn, Halves,
       Code
  <1>22. ASSUME NEW p \in Req, SaveReset(p) PROVE ClearedIsGone'
    <2>1. \A c \in Code : changes[c] > 0 => c # lastCode + 1
      BY <1>a DEF CodesDrawn
    <2>2. \A q \in Req : loc[q].code # lastCode + 1
      BY <1>a DEF LocalsDrawn
    <2> QED
      BY <1>22, <2>1, <2>2, <1>a DEF SaveReset, ClearedIsGone, AnsweredCodeGone
  <1>23. ASSUME NEW p \in Req, NewFind(p) PROVE ClearedIsGone'
    BY <1>23, <1>a DEF NewFind, ClearedIsGone, AnsweredCodeGone, CodesDrawn, Halves,
       Code
  <1>24. ASSUME NEW p \in Req, NewUpdate(p) PROVE ClearedIsGone'
    <2>1. CASE loc[p].todo = {"update"}
      <3>1. loc[p].code \notin resetCodes' /\ resetCodes' \subseteq resetCodes
        BY <1>24, <2>1 DEF NewUpdate, ClearedIsGone
      <3>2. \A c \in Code : changes'[c] > 0 => c = loc[p].code \/ changes[c] > 0
        BY <1>24, <2>1, <1>a DEF NewUpdate, Finish
      <3>3. \A q \in Req : q # p => pc'[q] = pc[q] /\ loc'[q] = loc[q]
        BY <1>24, <2>1, <1>a DEF NewUpdate, Finish
      <3>4. pc'[p] = "idle"
        BY <1>24, <2>1, <1>a DEF NewUpdate, Finish
      <3> QED
        BY <3>1, <3>2, <3>3, <3>4 DEF ClearedIsGone, AnsweredCodeGone
    <2>2. CASE loc[p].todo # {"update"}
      <3>1. resetCodes' \subseteq resetCodes /\ changes' = changes /\ pc' = pc
        BY <1>24, <2>2 DEF NewUpdate, Finish
      <3>2. \A q \in Req : q # p => loc'[q] = loc[q]
        BY <1>24, <2>2, <1>a DEF NewUpdate, Finish
      <3>3. /\ loc'[p].code = loc[p].code
            /\ "clear" \notin loc'[p].todo => loc[p].code \notin resetCodes'
        BY <1>24, <2>2, <1>a DEF NewUpdate, Finish, ClearedIsGone
      <3> QED
        BY <3>1, <3>2, <3>3 DEF ClearedIsGone, AnsweredCodeGone
    <2> QED
      BY <2>1, <2>2
  <1>25. ASSUME NEW p \in Req, NewClear(p) PROVE ClearedIsGone'
    <2>1. CASE loc[p].todo = {"clear"}
      <3>1. loc[p].code \notin resetCodes' /\ resetCodes' \subseteq resetCodes
        BY <1>25, <2>1 DEF NewClear, ClearedIsGone
      <3>2. \A c \in Code : changes'[c] > 0 => c = loc[p].code \/ changes[c] > 0
        BY <1>25, <2>1, <1>a DEF NewClear, Finish
      <3>3. \A q \in Req : q # p => pc'[q] = pc[q] /\ loc'[q] = loc[q]
        BY <1>25, <2>1, <1>a DEF NewClear, Finish
      <3>4. pc'[p] = "idle"
        BY <1>25, <2>1, <1>a DEF NewClear, Finish
      <3> QED
        BY <3>1, <3>2, <3>3, <3>4 DEF ClearedIsGone, AnsweredCodeGone
    <2>2. CASE loc[p].todo # {"clear"}
      <3>1. resetCodes' \subseteq resetCodes /\ changes' = changes /\ pc' = pc
        BY <1>25, <2>2 DEF NewClear, Finish
      <3>2. \A q \in Req : q # p => loc'[q] = loc[q]
        BY <1>25, <2>2, <1>a DEF NewClear, Finish
      <3>3. /\ loc'[p].code = loc[p].code
            /\ "clear" \notin loc'[p].todo => loc[p].code \notin resetCodes'
        BY <1>25, <2>2, <1>a DEF NewClear, Finish, ClearedIsGone
      <3> QED
        BY <3>1, <3>2, <3>3 DEF ClearedIsGone, AnsweredCodeGone
    <2> QED
      BY <2>1, <2>2
  <1>26. ASSUME NEW p \in Req, Abort(p) PROVE ClearedIsGone'
    BY <1>26, <1>a DEF Abort, ClearedIsGone, AnsweredCodeGone, CodesDrawn, Halves, Code
  <1>27. ASSUME NEW p \in Req, MailCode(p) PROVE ClearedIsGone'
    BY <1>27, <1>a DEF MailCode, ClearedIsGone, AnsweredCodeGone, CodesDrawn, Halves,
       Code
  <1>28. ASSUME NEW p \in Req, ClearCode(p) PROVE ClearedIsGone'
    BY <1>28, <1>a DEF ClearCode, ClearedIsGone, AnsweredCodeGone, CodesDrawn, Halves,
       Code
  <1>29. CASE UNCHANGED vars
    BY <1>29, <1>a DEF ClearedIsGone, AnsweredCodeGone, CodesDrawn, Halves, Code
  <1> QED
    BY <1>1, <1>2, <1>3, <1>4, <1>5, <1>6, <1>7, <1>8, <1>9, <1>10, <1>11, <1>12,
       <1>13, <1>14, <1>15, <1>16, <1>17, <1>18, <1>19, <1>20, <1>21, <1>22, <1>23,
       <1>24, <1>25, <1>26, <1>27, <1>28, <1>29 DEF Next

\* Nothing but Activate with a mailed token and Unblock starts the chain.
LEMMA AccessStep == Typed /\ CodesDrawn /\ AccessEarned /\ [Next]_vars => AccessEarned'
  <1> SUFFICES ASSUME Typed /\ CodesDrawn /\ AccessEarned, [Next]_vars PROVE AccessEarned'
    OBVIOUS
  <1>a. /\ pc \in [Req -> Step] /\ loc \in [Req -> Local] /\ attempts \in Nat
        /\ lastCode \in Nat /\ lastPass \in Nat /\ failures \in Nat /\ changes \in [Code -> Nat]
        /\ \A q \in Req : loc[q].code \in Nat /\ loc[q].pass \in Nat /\ loc[q].n \in Nat
    BY BoundsAssumption DEF Typed, DataTyped, Pass, Local
  <1> USE DEF Goto, Leave, NoLocal, Local
  <1>1. ASSUME LoginSucceed PROVE AccessEarned'
    BY <1>1, <1>a DEF LoginSucceed, AccessEarned, OwnerSeen, AddressProved, CodesDrawn
  <1>2. ASSUME AttemptsLapse PROVE AccessEarned'
    BY <1>2, <1>a DEF AttemptsLapse, AccessEarned, OwnerSeen, AddressProved, CodesDrawn
  <1>3. ASSUME NEW c \in Code, CodeLapse(c) PROVE AccessEarned'
    BY <1>3, <1>a DEF CodeLapse, AccessEarned, OwnerSeen, AddressProved, CodesDrawn
  <1>4. ASSUME NEW p \in Req, LoginFail(p) PROVE AccessEarned'
    BY <1>4, <1>a DEF LoginFail, AccessEarned, OwnerSeen, AddressProved, CodesDrawn
  <1>5. ASSUME NEW p \in Req, FailRead(p) PROVE AccessEarned'
    BY <1>5, <1>a DEF FailRead, AccessEarned, OwnerSeen, AddressProved, CodesDrawn
  <1>6. ASSUME NEW p \in Req, IncRead(p) PROVE AccessEarned'
    BY <1>6, <1>a DEF IncRead, AccessEarned, OwnerSeen, AddressProved, CodesDrawn
  <1>7. ASSUME NEW p \in Req, IncWrite(p) PROVE AccessEarned'
    BY <1>7, <1>a DEF IncWrite, AccessEarned, OwnerSeen, AddressProved, CodesDrawn
  <1>8. ASSUME NEW p \in Req, Lookup(p) PROVE AccessEarned'
    BY <1>8, <1>a DEF Lookup, AccessEarned, OwnerSeen, AddressProved, CodesDrawn
  <1>9. ASSUME NEW p \in Req, SaveCode(p) PROVE AccessEarned'
    BY <1>9, <1>a DEF SaveCode, AccessEarned, OwnerSeen, AddressProved, CodesDrawn
  <1>10. ASSUME NEW p \in Req, Block1(p) PROVE AccessEarned'
    BY <1>10, <1>a DEF Block1, AccessEarned, OwnerSeen, AddressProved, CodesDrawn
  <1>11. ASSUME NEW p \in Req, Block2(p) PROVE AccessEarned'
    BY <1>11, <1>a DEF Block2, AccessEarned, OwnerSeen, AddressProved, CodesDrawn
  <1>12. ASSUME NEW p \in Req, NEW c \in Code, UnblockRead(p, c) PROVE AccessEarned'
    BY <1>12, <1>a DEF UnblockRead, AccessEarned, OwnerSeen, AddressProved, CodesDrawn
  <1>13. ASSUME NEW p \in Req, NEW c \in Code, NewRead(p, c) PROVE AccessEarned'
    BY <1>13, <1>a DEF NewRead, AccessEarned, OwnerSeen, AddressProved, CodesDrawn
  <1>14. ASSUME NEW p \in Req, Unblock(p) PROVE AccessEarned'
    BY <1>14, <1>a DEF Unblock, AccessEarned, OwnerSeen, AddressProved, CodesDrawn
  <1>15. ASSUME NEW p \in Req, UnblockFind(p) PROVE AccessEarned'
    BY <1>15, <1>a DEF UnblockFind, AccessEarned, OwnerSeen, AddressProved, CodesDrawn
  <1>16. ASSUME NEW p \in Req, SetTemp(p) PROVE AccessEarned'
    BY <1>16, <1>a DEF SetTemp, AccessEarned, OwnerSeen, AddressProved, CodesDrawn
  <1>17. ASSUME NEW p \in Req, MailTemp(p) PROVE AccessEarned'
    BY <1>17, <1>a DEF MailTemp, AccessEarned, OwnerSeen, AddressProved, CodesDrawn
  <1>18. ASSUME NEW p \in Req, ClearAttempts(p) PROVE AccessEarned'
    BY <1>18, <1>a DEF ClearAttempts, AccessEarned, OwnerSeen, AddressProved, CodesDrawn
  <1>19. ASSUME NEW p \in Req, NEW t \in {"email_verification", "access"}, ActivateRead(p, t)
         PROVE  AccessEarned'
    BY <1>19, <1>a DEF ActivateRead, AccessEarned, OwnerSeen, AddressProved, CodesDrawn
  <1>20. ASSUME NEW p \in Req, Activate(p) PROVE AccessEarned'
    BY <1>20, <1>a DEF Activate, AccessEarned, OwnerSeen, AddressProved, CodesDrawn
  <1>21. ASSUME NEW p \in Req, ResetFind(p) PROVE AccessEarned'
    BY <1>21, <1>a DEF ResetFind, AccessEarned, OwnerSeen, AddressProved, CodesDrawn
  <1>22. ASSUME NEW p \in Req, SaveReset(p) PROVE AccessEarned'
    BY <1>22, <1>a DEF SaveReset, AccessEarned, OwnerSeen, AddressProved, CodesDrawn
  <1>23. ASSUME NEW p \in Req, NewFind(p) PROVE AccessEarned'
    BY <1>23, <1>a DEF NewFind, AccessEarned, OwnerSeen, AddressProved, CodesDrawn
  <1>24. ASSUME NEW p \in Req, NewUpdate(p) PROVE AccessEarned'
    BY <1>24, <1>a DEF NewUpdate, Finish, AccessEarned, OwnerSeen, AddressProved,
       CodesDrawn
  <1>25. ASSUME NEW p \in Req, NewClear(p) PROVE AccessEarned'
    BY <1>25, <1>a DEF NewClear, Finish, AccessEarned, OwnerSeen, AddressProved,
       CodesDrawn
  <1>26. ASSUME NEW p \in Req, Abort(p) PROVE AccessEarned'
    BY <1>26, <1>a DEF Abort, AccessEarned, OwnerSeen, AddressProved, CodesDrawn
  <1>27. ASSUME NEW p \in Req, MailCode(p) PROVE AccessEarned'
    BY <1>27, <1>a DEF MailCode, AccessEarned, OwnerSeen, AddressProved, CodesDrawn
  <1>28. ASSUME NEW p \in Req, ClearCode(p) PROVE AccessEarned'
    BY <1>28, <1>a DEF ClearCode, AccessEarned, OwnerSeen, AddressProved, CodesDrawn
  <1>29. CASE UNCHANGED vars
    BY <1>29, <1>a DEF AccessEarned, OwnerSeen, AddressProved, CodesDrawn
  <1> QED
    BY <1>1, <1>2, <1>3, <1>4, <1>5, <1>6, <1>7, <1>8, <1>9, <1>10, <1>11, <1>12,
       <1>13, <1>14, <1>15, <1>16, <1>17, <1>18, <1>19, <1>20, <1>21, <1>22, <1>23,
       <1>24, <1>25, <1>26, <1>27, <1>28, <1>29 DEF Next

-----------------------------------------------------------------------------
(* The theorems. *)

\* In every behaviour of the account's requests, for any set of requests and
\* any bounds, the inductive invariant holds throughout.
THEOREM Invariance == Spec => []IInv
  <1>1. IInv /\ [Next]_vars => IInv'
    <2> SUFFICES ASSUME IInv, [Next]_vars PROVE IInv'
      OBVIOUS
    <2>1. Typed'
      BY StepTyped, LocalTyped, DataStep DEF IInv, Typed
    <2>2. CodesDrawn' /\ LocalsDrawn'
      BY CodesDrawnStep, LocalsDrawnStep DEF IInv
    <2>3. CounterBehind' /\ BlockEarned'
      BY CounterStep, EarnedStep DEF IInv
    <2>4. BlockHanded'
      BY HandedStep DEF IInv
    <2>5. CodesAccounted' /\ ClearedIsGone'
      BY AccountedStep, ClearedStep DEF IInv
    <2>6. AccessEarned'
      BY AccessStep DEF IInv
    <2> QED
      BY <2>1, <2>2, <2>3, <2>4, <2>5, <2>6 DEF IInv
  <1> QED
    BY InitIInv, <1>1, PTL DEF Spec

\* The rows, the keys, the counter and what each request remembers keep their
\* types; the counter never passes the number of failed logins, and a code is
\* never both an unblock code and a reset code.
THEOREM TypeCorrect == Spec => []TypeOK
  <1>1. IInv => TypeOK
    <2> SUFFICES ASSUME IInv PROVE TypeOK
      OBVIOUS
    <2>1. attempts \in 0..MaxFailures
      <3>1. Cardinality(Uncounted) \in Nat
        BY FS_CardinalityType DEF IInv, CounterBehind
      <3>2. attempts \in Nat /\ failures \in 0..MaxFailures
        BY DEF IInv, Typed, DataTyped
      <3> QED
        BY <3>1, <3>2, BoundsAssumption DEF IInv, CounterBehind
    <2>2. unblockCodes \cap resetCodes = {}
      BY DEF IInv, CodesDrawn
    <2> QED
      BY <2>1, <2>2 DEF IInv, Typed, DataTyped, TypeOK
  <1> QED
    BY <1>1, Invariance, PTL

\* A block takes more failed logins than MAX_ATTEMPTS_FAILED, for any number of
\* requests that read and write the counter at once.
THEOREM BlocksAreEarned == Spec => []BlockNeedsFailures
  <1>1. IInv => BlockNeedsFailures
    <2> SUFFICES ASSUME IInv PROVE BlockNeedsFailures
      OBVIOUS
    <2>1. Cardinality(Uncounted) \in Nat
      BY FS_CardinalityType DEF IInv, CounterBehind
    <2>2. attempts \in Nat /\ failures \in Nat
      BY BoundsAssumption DEF IInv, Typed, DataTyped
    <2>3. attempts <= failures
      BY <2>1, <2>2 DEF IInv, CounterBehind
    <2> QED
      BY <2>3 DEF IInv, BlockEarned, BlockNeedsFailures
  <1> QED
    BY <1>1, Invariance, PTL

\* A soft-deleted account has a code that was stored and handed to the mail
\* queue, wherever the request that blocked it was interrupted.
THEOREM BlocksCanBeUndone == Spec => []BlockedHasCode
  <1>1. IInv => BlockedHasCode
    BY DEF IInv, BlockHanded, BlockedHasCode
  <1> QED
    BY <1>1, Invariance, PTL

\* Whatever unblocks and password changes overlap or stop half-way, the owner
\* has a way to the password of the row.
THEOREM OwnerGetsIn == Spec => []PasswordRecoverable
  <1>1. IInv => PasswordRecoverable
    BY DEF IInv, CodesAccounted, Accounted, PasswordRecoverable
  <1> QED
    BY <1>1, Invariance, PTL

\* A reset code whose password change was answered is in Redis no more.
THEOREM AnsweredCodesAreGone == Spec => []AnsweredCodeGone
  <1>1. IInv => AnsweredCodeGone
    BY DEF IInv, ClearedIsGone
  <1> QED
    BY <1>1, Invariance, PTL

\* An access token activates an account only after the owner of the address was
\* seen: a mailed token was brought back, or an unblock code mailed.
THEOREM ActivationIsProved == Spec => []AddressProved
  <1>1. IInv => AddressProved
    BY DEF IInv, AccessEarned
  <1> QED
    BY <1>1, Invariance, PTL
=============================================================================
