------------------------- MODULE TokenSessionProofs -------------------------
(***************************************************************************)
(* Proofs of the safety of TokenSession for any number of requests,        *)
(* consents, rows and credentials: TypeInv is inductive by itself,         *)
(* TableInv with it, LineageInv with both, and CapInv with all of these.   *)
(* Under TableInv the steps that write a table have a lemma each, and the  *)
(* others are Quiet.  At the end, TokenSession implements Rotation.        *)
(***************************************************************************)
EXTENDS TokenSessionInv, FiniteSetTheorems, TLAPS

USE DEF db, redis, clock, counts, history

TypeInv == TypeOK /\ CredInHand /\ HeldStored

\* With these facts the index sets stay unexpanded below.
LEMMA Ranges ==
    /\ Cred \subseteq 0..MaxCred /\ Row \subseteq 0..MaxLogin
    /\ 0 \in 0..MaxCred /\ 0 \in 0..MaxLogin
    /\ NoLocal \in Local /\ NoRow \in RowRec
  BY ConstantsAssumption DEF Cred, Row, NoLocal, Local, NoRow, RowRec, Grant

\* A stored row is a proper row, with a credential and a family.
LEMMA StoredRow ==
    ASSUME NEW table \in [Row -> RowRec], NEW r \in Row, Stored(table, r)
    PROVE  table[r] \in [st: {"live", "soft"}, cred: Cred, family: Cred, consent: Grant]
  BY DEF RowRec, NoRow, Stored

\* The empty tables and idle requests have the declared shapes.
LEMMA InitType == Init => TypeInv
  <1> SUFFICES ASSUME Init PROVE TypeInv
    OBVIOUS
  <1>1. TypeOK  BY Ranges DEF Init, TypeOK, Step
  <1>2. CredInHand /\ HeldStored  BY DEF Init, CredInHand, HeldStored
  <1> QED  BY <1>1, <1>2 DEF TypeInv

\* Every step of every handler keeps the shapes.
LEMMA TypeStep == TypeInv /\ [Next]_vars => TypeInv'
  <1> SUFFICES ASSUME TypeInv, [Next]_vars PROVE TypeInv'
    OBVIOUS
  <1> USE DEF TypeInv
  <1>1. ASSUME NEW p \in Req, NEW c \in Cred, RefreshConsult(p, c) PROVE TypeInv'
    <2>1. pc' \in [Req -> Step]  BY <1>1 DEF TypeOK, RefreshConsult, Goto, Step
    <2>2. loc' \in [Req -> Local]
      BY <1>1, Ranges DEF TypeOK, RefreshConsult, Local
    <2>3. HeldStored'
      BY <1>1 DEF TypeOK, HeldStored, RefreshConsult, Goto, Stored
    <2>4. CredInHand'
      BY <1>1, Ranges DEF TypeOK, CredInHand, RefreshConsult, Goto
    <2> QED  BY <1>1, <2>1, <2>2, <2>3, <2>4 DEF TypeOK, RefreshConsult
  <1>2. ASSUME NEW p \in Req, KillTokens(p) PROVE TypeInv'
    <2>1. pc' \in [Req -> Step]  BY <1>2 DEF TypeOK, KillTokens, Goto, Step
    <2>2. held' \in [Req -> SUBSET Row]
      BY <1>2, Ranges DEF TypeOK, KillTokens
    <2>3. HeldStored'
      BY <1>2 DEF TypeOK, HeldStored, KillTokens, Goto, Stored
    <2>4. CredInHand'
      BY <1>2, Ranges DEF TypeOK, CredInHand, KillTokens, Goto
    <2> QED  BY <1>2, <2>1, <2>2, <2>3, <2>4 DEF TypeOK, KillTokens
  <1>3. ASSUME NEW p \in Req, KillSessions(p) PROVE TypeInv'
    <2>1. pc' \in [Req -> Step]  BY <1>3 DEF TypeOK, KillSessions, Goto, Step, Leave
    <2>2. loc' \in [Req -> Local]
      BY <1>3, Ranges DEF TypeOK, KillSessions, Leave
    <2>3. held' \in [Req -> SUBSET Row]
      BY <1>3 DEF TypeOK, KillSessions, Leave
    <2>4. tok' \in [Row -> RowRec]
      BY <1>3, Ranges DEF TypeOK, HeldStored, KillSessions, RowRec, NoRow, Stored
    <2>5. sess' \in [Row -> RowRec]
      BY <1>3, Ranges DEF TypeOK, KillSessions, RowRec, NoRow, Stored
    <2>6. reported' \subseteq Cred
      BY <1>3, Ranges DEF TypeOK, CredInHand, KillSessions
    <2>7. HeldStored'
      BY <1>3 DEF TypeOK, HeldStored, KillSessions, Goto, Stored, Leave
    <2>8. CredInHand'
      BY <1>3, Ranges DEF TypeOK, CredInHand, KillSessions, Goto, Leave
    <2> QED  BY <1>3, <2>1, <2>2, <2>3, <2>4, <2>5, <2>6, <2>7, <2>8 DEF TypeOK, KillSessions
  <1>4. ASSUME NEW p \in Req, RefreshFind(p) PROVE TypeInv'
    <2>1. pc' \in [Req -> Step]  BY <1>4 DEF TypeOK, RefreshFind, Goto, Step
    <2>2. loc' \in [Req -> Local]
      BY <1>4, Ranges DEF TypeOK, RefreshFind, LiveWith, Live, Local, RowRec, NoRow
    <2>3. HeldStored'
      BY <1>4 DEF TypeOK, HeldStored, RefreshFind, Goto, Stored
    <2>4. CredInHand'
      BY <1>4, Ranges DEF TypeOK, CredInHand, RefreshFind, Goto
    <2> QED  BY <1>4, <2>1, <2>2, <2>3, <2>4 DEF TypeOK, RefreshFind
  <1>5. ASSUME NEW p \in Req, RefreshFlag(p) PROVE TypeInv'
    <2>1. pc' \in [Req -> Step]  BY <1>5 DEF TypeOK, RefreshFlag, Goto, Step
    <2>2. used' \in [Cred -> 0..MaxCred]
      BY <1>5, Ranges DEF TypeOK, RefreshFlag, Local
    <2>3. HeldStored'
      BY <1>5 DEF TypeOK, HeldStored, RefreshFlag, Goto, Stored
    <2>4. CredInHand'
      BY <1>5, Ranges DEF TypeOK, CredInHand, RefreshFlag, Goto
    <2> QED  BY <1>5, <2>1, <2>2, <2>3, <2>4 DEF TypeOK, RefreshFlag
  <1>6. ASSUME NEW p \in Req, RefreshReread(p) PROVE TypeInv'
    <2>1. pc' \in [Req -> Step]  BY <1>6 DEF TypeOK, RefreshReread, Goto, Step
    <2>2. loc' \in [Req -> Local]
      BY <1>6, Ranges DEF TypeOK, RefreshReread, LiveWith, Local
    <2>3. HeldStored'
      BY <1>6 DEF TypeOK, HeldStored, RefreshReread, Goto, Stored
    <2>4. CredInHand'
      BY <1>6, Ranges DEF TypeOK, CredInHand, RefreshReread, Goto
    <2> QED  BY <1>6, <2>1, <2>2, <2>3, <2>4 DEF TypeOK, RefreshReread
  <1>7. ASSUME NEW p \in Req, RefreshRotate(p) PROVE TypeInv'
    <2>1. pc' \in [Req -> Step]  BY <1>7 DEF TypeOK, RefreshRotate, Goto, Step, Leave
    <2>2. loc' \in [Req -> Local]
      BY <1>7, Ranges DEF TypeOK, RefreshRotate, Leave
    <2>3. held' \in [Req -> SUBSET Row]
      BY <1>7 DEF TypeOK, RefreshRotate, Leave
    <2>4. lastCred + 1 \in Cred
      BY <1>7, Ranges, ConstantsAssumption DEF TypeOK, RefreshRotate, Cred
    <2>5. Stored(tok, loc[p].row)
      BY <1>7, Ranges, <2>4 DEF RefreshRotate, Affected
    <2>6. tok' \in [Row -> RowRec]
      <3> DEFINE r == loc[p].row
                 new == lastCred + 1
      <3>1. tok' = [tok EXCEPT ![r].cred = new] /\ new \in Cred /\ Stored(tok, r)
        BY <1>7, <2>4, <2>5 DEF RefreshRotate
      <3> HIDE DEF new
      <3>2. CASE r \in Row
        <4>1. [tok[r] EXCEPT !.cred = new] \in RowRec
          BY <3>1, <3>2, StoredRow DEF TypeOK, RowRec
        <4> QED  BY <3>1, <3>2, <4>1 DEF TypeOK
      <3>3. CASE r \notin Row  BY <3>1, <3>3 DEF TypeOK
      <3> QED  BY <3>2, <3>3
    <2>7. sess' \in [Row -> RowRec]
      <3>1. PICK new \in Cred :
               sess' = [s \in Row |-> IF s \in SessionsWith(loc[p].cred)
                                        THEN [sess[s] EXCEPT !.cred = new] ELSE sess[s]]
        BY <1>7, <2>4 DEF RefreshRotate
      <3>2. ASSUME NEW s \in Row
            PROVE  (IF s \in SessionsWith(loc[p].cred)
                      THEN [sess[s] EXCEPT !.cred = new] ELSE sess[s]) \in RowRec
        <4>1. sess \in [Row -> RowRec]
          BY DEF TypeOK
        <4>2. CASE s \in SessionsWith(loc[p].cred)
          <5>1. sess[s] \in [st: {"live", "soft"}, cred: Cred, family: Cred, consent: Grant]
            BY <4>1, <4>2, StoredRow DEF SessionsWith
          <5>2. [sess[s] EXCEPT !.cred = new] \in RowRec
            BY <5>1 DEF RowRec
          <5> QED  BY <4>2, <5>2
        <4>3. CASE s \notin SessionsWith(loc[p].cred)
          BY <4>1, <4>3
        <4> QED  BY <4>2, <4>3
      <3> QED  BY <3>1, <3>2
    <2>8. home' \in [Cred -> 0..MaxLogin]
      BY <1>7, Ranges, <2>4 DEF TypeOK, RefreshRotate, Local
    <2>9. parent' \in [Cred -> 0..MaxCred]
      BY <1>7, Ranges, <2>4 DEF TypeOK, RefreshRotate, Local
    <2>10. stillborn' \subseteq Cred
      BY <1>7, Ranges, <2>4 DEF TypeOK, RefreshRotate
    <2>11. HeldStored'
      BY <1>7 DEF TypeOK, HeldStored, RefreshRotate, Goto, Stored, Leave
    <2>12. CredInHand'
      BY <1>7, Ranges DEF TypeOK, CredInHand, RefreshRotate, Goto, Leave
    <2> QED  BY <1>7, Ranges, <2>1, <2>2, <2>3, <2>4, <2>5, <2>6, <2>7, <2>8, <2>9,
                <2>10, <2>11, <2>12 DEF TypeOK, RefreshRotate
  <1>8. ASSUME NEW p \in Req, NEW c \in Cred, RevokeFind(p, c) PROVE TypeInv'
    <2>1. pc' \in [Req -> Step]  BY <1>8 DEF TypeOK, RevokeFind, Goto, Step
    <2>2. loc' \in [Req -> Local]
      BY <1>8, Ranges DEF TypeOK, RevokeFind, Local
    <2>3. HeldStored'
      BY <1>8 DEF TypeOK, HeldStored, RevokeFind, Goto, Stored
    <2>4. CredInHand'
      BY <1>8, Ranges DEF TypeOK, CredInHand, RevokeFind, Goto
    <2> QED  BY <1>8, <2>1, <2>2, <2>3, <2>4 DEF TypeOK, RevokeFind
  <1>9. ASSUME NEW p \in Req, RevokeRead(p) PROVE TypeInv'
    <2>1. pc' \in [Req -> Step]  BY <1>9 DEF TypeOK, RevokeRead, Goto, Step
    <2>2. HeldStored'
      BY <1>9 DEF TypeOK, HeldStored, RevokeRead, Goto, Stored
    <2>3. CredInHand'
      BY <1>9, Ranges DEF TypeOK, CredInHand, RevokeRead, Goto
    <2> QED  BY <1>9, <2>1, <2>2, <2>3 DEF TypeOK, RevokeRead
  <1>10. ASSUME NEW p \in Req, RevokeDelete(p) PROVE TypeInv'
    <2>1. pc' \in [Req -> Step]  BY <1>10 DEF TypeOK, RevokeDelete, Goto, Step
    <2>2. tok' \in [Row -> RowRec]
      BY <1>10, Ranges DEF TypeOK, RevokeDelete
    <2>3. sess' \in [Row -> RowRec]
      BY <1>10, Ranges DEF TypeOK, RevokeDelete
    <2>4. HeldStored'
      BY <1>10 DEF TypeOK, HeldStored, RevokeDelete, Goto, Stored, HeldByOthers, NoRow
    <2>5. CredInHand'
      BY <1>10, Ranges DEF TypeOK, CredInHand, RevokeDelete, Goto
    <2> QED  BY <1>10, <2>1, <2>2, <2>3, <2>4, <2>5 DEF TypeOK, RevokeDelete
  <1>11. ASSUME NEW p \in Req, RevokeBlock(p) PROVE TypeInv'
    <2>1. pc' \in [Req -> Step]  BY <1>11 DEF TypeOK, RevokeBlock, Goto, Step, Leave
    <2>2. loc' \in [Req -> Local]
      BY <1>11, Ranges DEF TypeOK, RevokeBlock, Leave
    <2>3. held' \in [Req -> SUBSET Row]
      BY <1>11 DEF TypeOK, RevokeBlock, Leave
    <2>4. blocklist' \subseteq Cred
      BY <1>11, Ranges DEF TypeOK, CredInHand, RevokeBlock
    <2>5. HeldStored'
      BY <1>11 DEF TypeOK, HeldStored, RevokeBlock, Goto, Stored, Leave
    <2>6. CredInHand'
      BY <1>11, Ranges DEF TypeOK, CredInHand, RevokeBlock, Goto, Leave
    <2> QED  BY <1>11, <2>1, <2>2, <2>3, <2>4, <2>5, <2>6 DEF TypeOK, RevokeBlock
  <1>12. ASSUME NEW p \in Req, NEW k \in Grant, LoginRead(p, k) PROVE TypeInv'
    <2>1. pc' \in [Req -> Step]  BY <1>12 DEF TypeOK, LoginRead, Goto, Step
    <2>2. ASSUME NEW f \in Families(k) PROVE f \in 0..MaxCred
      <3>1. PICK r \in Row : Live(tok, r) /\ f = tok[r].family
        BY DEF Families
      <3> QED  BY <3>1, StoredRow, Ranges DEF TypeOK, Live, Stored
    <2>3. PICK f \in 0..MaxCred : loc' = [loc EXCEPT ![p].family = f, ![p].consent = k]
      BY <1>12, <2>2, Ranges DEF LoginRead
    <2>4. loc' \in [Req -> Local]
      BY <2>3 DEF TypeOK, Local
    <2>5. HeldStored'
      BY <1>12 DEF TypeOK, HeldStored, LoginRead, Goto, Stored
    <2>6. CredInHand'
      BY <1>12, Ranges DEF TypeOK, CredInHand, LoginRead, Goto
    <2> QED  BY <1>12, <2>1, <2>4, <2>5, <2>6 DEF TypeOK, LoginRead
  <1>13. ASSUME NEW p \in Req, LoginCount(p) PROVE TypeInv'
    <2>1. pc' \in [Req -> Step]  BY <1>13 DEF TypeOK, LoginCount, Goto, Step
    <2>2. lastRow + 1 \in 0..MaxLogin
      BY <1>13, ConstantsAssumption DEF TypeOK, LoginCount
    <2>3. loc' \in [Req -> Local]
      BY <1>13, Ranges, <2>2 DEF TypeOK, LoginCount, Local
    <2>4. HeldStored'
      BY <1>13 DEF TypeOK, HeldStored, LoginCount, Goto, Stored
    <2>5. CredInHand'
      BY <1>13, Ranges DEF TypeOK, CredInHand, LoginCount, Goto
    <2> QED  BY <1>13, Ranges, <2>1, <2>2, <2>3, <2>4, <2>5 DEF TypeOK, LoginCount
  <1>14. ASSUME NEW p \in Req, LoginEvict(p) PROVE TypeInv'
    <2>1. pc' \in [Req -> Step]  BY <1>14 DEF TypeOK, LoginEvict, Goto, Step
    <2>2. loc' \in [Req -> Local]
      BY <1>14, Ranges DEF TypeOK, LoginEvict, Local, EvictableSessions
    <2>3. HeldStored'
      BY <1>14 DEF TypeOK, HeldStored, LoginEvict, Goto, Stored
    <2>4. CredInHand'
      BY <1>14, Ranges DEF TypeOK, CredInHand, LoginEvict, Goto
    <2> QED  BY <1>14, <2>1, <2>2, <2>3, <2>4 DEF TypeOK, LoginEvict
  <1>15. ASSUME NEW p \in Req, LoginInsert(p) PROVE TypeInv'
    <2>1. pc' \in [Req -> Step]  BY <1>15 DEF TypeOK, LoginInsert, Goto, Step, Leave
    <2>2. loc' \in [Req -> Local]
      BY <1>15, Ranges DEF TypeOK, LoginInsert, Leave
    <2>3. held' \in [Req -> SUBSET Row]
      BY <1>15 DEF TypeOK, LoginInsert, Leave
    <2>4. lastCred + 1 \in Cred
      BY <1>15, Ranges, ConstantsAssumption DEF TypeOK, LoginInsert, Cred
    <2>5. [st |-> "live", cred |-> lastCred + 1, family |-> FamilyJoined(p, lastCred + 1),
              consent |-> loc[p].consent] \in RowRec
      BY <1>15, Ranges, <2>4 DEF TypeOK, FamilyJoined, Local, RowRec, Cred
    <2>6. tok' \in [Row -> RowRec]
      BY <1>15, Ranges, <2>4, <2>5 DEF TypeOK, LoginInsert
    <2>7. sess' \in [Row -> RowRec]
      BY <1>15, Ranges, <2>4, <2>5 DEF TypeOK, LoginInsert
    <2>8. home' \in [Cred -> 0..MaxLogin]
      BY <1>15, Ranges, <2>4 DEF TypeOK, LoginInsert, Local
    <2>9. HeldStored'
      BY <1>15 DEF TypeOK, HeldStored, LoginInsert, Goto, Stored, Leave
    <2>10. CredInHand'
      BY <1>15, Ranges DEF TypeOK, CredInHand, LoginInsert, Goto, Leave
    <2> QED  BY <1>15, Ranges, <2>1, <2>2, <2>3, <2>4, <2>5, <2>6, <2>7, <2>8, <2>9,
                <2>10 DEF TypeOK, LoginInsert
  <1>16. ASSUME NEW p \in Req, Abort(p) PROVE TypeInv'
    <2>1. pc' \in [Req -> Step]  BY <1>16 DEF TypeOK, Abort, Goto, Step, Leave
    <2>2. loc' \in [Req -> Local]
      BY <1>16, Ranges DEF TypeOK, Abort, Leave
    <2>3. held' \in [Req -> SUBSET Row]
      BY <1>16 DEF TypeOK, Abort, Leave
    <2>4. HeldStored'
      BY <1>16 DEF TypeOK, HeldStored, Abort, Goto, Stored, Leave
    <2>5. CredInHand'
      BY <1>16, Ranges DEF TypeOK, CredInHand, Abort, Goto, Leave
    <2> QED  BY <1>16, <2>1, <2>2, <2>3, <2>4, <2>5 DEF TypeOK, Abort
  <1>17. ASSUME NEW c \in Cred, Lapse(c) PROVE TypeInv'
    BY <1>17, Ranges DEF TypeOK, HeldStored, CredInHand, Lapse, Stored
  <1>18. ASSUME NEW c \in Cred, Expire(c) PROVE TypeInv'
    BY <1>18 DEF TypeOK, HeldStored, CredInHand, Expire, Stored
  <1>19. ASSUME NEW c \in Cred, LastSecond(c) PROVE TypeInv'
    BY <1>19 DEF TypeOK, HeldStored, CredInHand, LastSecond, Stored
  <1>20. CASE UNCHANGED vars
    BY <1>20 DEF vars, TypeOK, HeldStored, CredInHand, Stored
  <1> QED
    BY <1>1, <1>2, <1>3, <1>4, <1>5, <1>6, <1>7, <1>8, <1>9, <1>10, <1>11, <1>12, <1>13,
       <1>14, <1>15, <1>16, <1>17, <1>18, <1>19, <1>20 DEF Next

\* What a step that writes neither table, no history and no blocklist keeps.
LEMMA Frame ==
    ASSUME TableInv, UNCHANGED <<tok, sess, home, parent, lastCred>>
    PROVE  /\ DrawnOnly' /\ AtHome' /\ SessionPairsToken' /\ StoredUnspent' /\ RedeemedOnce'
           /\ \A c : Dead(c) => Dead(c)'
  BY DEF TableInv, DrawnOnly, AtHome, SessionPairsToken, StoredUnspent, RedeemedOnce, Dead,
         Stored, Spent

\* A rotation that goes through finds one session, in the row it was to find.
LEMMA RotateRow ==
    ASSUME TableInv, NEW p \in Req, RefreshRotate(p)
    PROVE  /\ loc[p].row \in Row
           /\ Stored(tok, loc[p].row) /\ tok[loc[p].row].cred = loc[p].cred
           /\ SessionsWith(loc[p].cred) = {loc[p].row}
  <1>1. \A s \in SessionsWith(loc[p].cred) :
           s = loc[p].row /\ Stored(tok, s) /\ tok[s].cred = loc[p].cred
    <2>1. home[loc[p].cred] = loc[p].row
      BY DEF TableInv, RotateAtHome, RefreshRotate
    <2> QED
      BY <2>1 DEF TableInv, SessionPairsToken, AtHome, SessionsWith
  <1>2. SessionsWith(loc[p].cred) # {}
    BY DEF RefreshRotate, Affected
  <1> QED
    BY <1>1, <1>2 DEF SessionsWith

\* The rotation: the one step that redeems a credential.
LEMMA RotateStep ==
    ASSUME TableInv, TypeInv', NEW p \in Req, RefreshRotate(p)
    PROVE  TableInv'
  <1> DEFINE r == loc[p].row
             old == loc[p].cred
             new == lastCred + 1
  <1>1. /\ r \in Row /\ Stored(tok, r) /\ tok[r].cred = old
        /\ Stored(sess, r) /\ sess[r].cred = old
        /\ old \in 1..lastCred
    BY RotateRow DEF SessionsWith, TableInv, RotateAtHome, RefreshRotate
  <1>2. new \in Cred /\ new \in Nat /\ lastCred \in Nat /\ lastCred < new
    BY ConstantsAssumption DEF RefreshRotate, TableInv, TypeOK, Cred
  <1>3. tok' = [tok EXCEPT ![r].cred = new] /\ sess' = [sess EXCEPT ![r].cred = new]
    BY <1>1, RotateRow DEF RefreshRotate, TableInv, TypeOK
  <1>4. /\ home' = [home EXCEPT ![new] = r] /\ parent' = [parent EXCEPT ![new] = old]
        /\ lastCred' = new /\ blocklist' = blocklist
        /\ pc' = [pc EXCEPT ![p] = "idle"] /\ loc' = [loc EXCEPT ![p] = NoLocal]
    BY DEF RefreshRotate, Leave, Goto
  <1>5. \A s \in Row : /\ Stored(tok, s) /\ s # r => tok[s].cred # old
                       /\ Stored(tok, s) => tok[s].cred \in 1..lastCred
    BY <1>1 DEF TableInv, AtHome, DrawnOnly, TypeOK, RowRec, NoRow, Stored, Cred
  <1>6. \A s \in Row : /\ Stored(tok', s) <=> Stored(tok, s)
                       /\ Stored(sess', s) <=> Stored(sess, s)
                       /\ tok'[s].cred = IF s = r THEN new ELSE tok[s].cred
                       /\ sess'[s].cred = IF s = r THEN new ELSE sess[s].cred
                       /\ tok'[s].family = tok[s].family /\ sess'[s].family = sess[s].family
                       /\ tok'[s].consent = tok[s].consent
                       /\ sess'[s].consent = sess[s].consent
    BY <1>1, <1>3 DEF TableInv, TypeOK, RowRec, NoRow, Stored
  <1> HIDE DEF r, old, new
  <1>7. DrawnOnly'
    BY <1>1, <1>2, <1>4, <1>5, <1>6 DEF TableInv, TypeOK, DrawnOnly
  <1>8. AtHome'
    BY <1>1, <1>2, <1>4, <1>5, <1>6 DEF TableInv, TypeOK, AtHome
  <1>9. RotateAtHome'
    BY <1>2, <1>4 DEF TableInv, TypeOK, RotateAtHome
  <1>10. SessionPairsToken'
    BY <1>6 DEF TableInv, SessionPairsToken
  <1>11. StoredUnspent'
    BY <1>1, <1>2, <1>4, <1>5, <1>6 DEF TableInv, TypeOK, StoredUnspent,
       SessionPairsToken, DrawnOnly, Spent
  <1>12. RedeemedOnce'
    BY <1>1, <1>2, <1>4 DEF TableInv, TypeOK, StoredUnspent, RedeemedOnce, Spent
  <1>13. ASSUME NEW c, Dead(c) PROVE Dead(c)'
    BY <1>1, <1>2, <1>4, <1>6, <1>13 DEF TableInv, TypeOK, Dead, Spent
  <1>14. RevokedDead'
    BY <1>4, <1>13 DEF TableInv, TypeOK, RevokedDead
  <1> QED
    BY <1>7, <1>8, <1>9, <1>10, <1>11, <1>12, <1>14 DEF TableInv, TypeInv

\* The revocation: both rows of the credential go in one transaction.
LEMMA DeleteStep ==
    ASSUME TableInv, TypeInv', NEW p \in Req, RevokeDelete(p)
    PROVE  TableInv'
  <1> DEFINE c == loc[p].cred
  <1>1. /\ home' = home /\ parent' = parent /\ lastCred' = lastCred /\ blocklist' = blocklist
        /\ pc' = [pc EXCEPT ![p] = "block"] /\ loc' = loc
    BY DEF RevokeDelete, Goto
  <1>2. \A s \in Row :
           /\ Stored(tok', s) => Stored(tok, s) /\ tok'[s] = tok[s] /\ tok[s].cred # c
           /\ Stored(sess', s) => Stored(sess, s) /\ sess'[s] = sess[s] /\ sess[s].cred # c
           /\ Stored(tok, s) /\ tok[s].cred # c => Stored(tok', s)
    BY DEF TableInv, TypeOK, RevokeDelete, SessionsWith, Stored, NoRow
  <1>3. PICK s \in Row : Stored(sess, s) /\ sess[s].cred = c
    BY DEF RevokeDelete, SessionsWith, Affected
  <1>4. c \in 1..lastCred /\ ~ Spent(c)
    <2>1. Stored(tok, s) /\ tok[s].cred = c /\ ~ Spent(c)
      BY <1>3 DEF TableInv, SessionPairsToken, StoredUnspent
    <2> QED
      BY <2>1 DEF TableInv, DrawnOnly, TypeOK, RowRec, NoRow, Stored, Cred
  <1> HIDE DEF c
  <1>5. DrawnOnly' /\ AtHome' /\ RotateAtHome'
    BY <1>1, <1>2 DEF TableInv, TypeOK, DrawnOnly, AtHome, RotateAtHome
  <1>6. SessionPairsToken'
    BY <1>2 DEF TableInv, SessionPairsToken
  <1>7. StoredUnspent' /\ RedeemedOnce'
    BY <1>1, <1>2 DEF TableInv, StoredUnspent, RedeemedOnce, Spent
  <1>8. ASSUME NEW d, Dead(d) \/ d = c PROVE Dead(d)'
    BY <1>1, <1>2, <1>4, <1>8 DEF Dead, Spent
  <1>9. RevokedDead'
    BY <1>1, <1>8 DEF TableInv, TypeOK, RevokedDead, c
  <1> QED
    BY <1>5, <1>6, <1>7, <1>9 DEF TableInv, TypeInv

\* The family deletion: rows are marked, none is lost or changed otherwise.
LEMMA KillStep ==
    ASSUME TableInv, TypeInv', NEW p \in Req, KillSessions(p)
    PROVE  TableInv'
  <1>1. /\ home' = home /\ parent' = parent /\ lastCred' = lastCred /\ blocklist' = blocklist
        /\ pc' = [pc EXCEPT ![p] = "idle"] /\ loc' = [loc EXCEPT ![p] = NoLocal]
    BY DEF KillSessions, Leave, Goto
  <1>2. ASSUME NEW r \in Row
        PROVE  /\ Stored(tok', r) <=> Stored(tok, r)
               /\ tok'[r].cred = tok[r].cred /\ tok'[r].family = tok[r].family
               /\ tok'[r].consent = tok[r].consent
               /\ Stored(sess', r) <=> Stored(sess, r)
               /\ sess'[r].cred = sess[r].cred /\ sess'[r].family = sess[r].family
               /\ sess'[r].consent = sess[r].consent
    <2>1. tok'[r] = IF r \in held[p] THEN [tok[r] EXCEPT !.st = "soft"] ELSE tok[r]
      BY DEF KillSessions
    <2>2. sess'[r] = IF Stored(sess, r) /\ sess[r].family = loc[p].family
                       THEN [sess[r] EXCEPT !.st = "soft"] ELSE sess[r]
      BY DEF KillSessions
    <2>3. r \in held[p] => Stored(tok, r)
      BY DEF TableInv, HeldStored
    <2> QED
      BY <2>1, <2>2, <2>3 DEF TableInv, TypeOK, RowRec, NoRow, Stored
  <1>3. DrawnOnly' /\ AtHome' /\ RotateAtHome'
    BY <1>1, <1>2 DEF TableInv, TypeOK, DrawnOnly, AtHome, RotateAtHome
  <1>4. SessionPairsToken'
    BY <1>2 DEF TableInv, SessionPairsToken
  <1>5. StoredUnspent' /\ RedeemedOnce'
    BY <1>1, <1>2 DEF TableInv, StoredUnspent, RedeemedOnce, Spent
  <1>6. ASSUME NEW c, Dead(c) PROVE Dead(c)'
    BY <1>1, <1>2, <1>6 DEF Dead, Spent
  <1>7. RevokedDead'
    BY <1>1, <1>6 DEF TableInv, TypeOK, RevokedDead
  <1> QED
    BY <1>3, <1>4, <1>5, <1>7 DEF TableInv, TypeInv

\* The login: a new pair of rows, and one session evicted to make room.
LEMMA InsertStep ==
    ASSUME TableInv, TypeInv', NEW p \in Req, LoginInsert(p)
    PROVE  TableInv'
  <1> DEFINE l == loc[p]
             c == lastCred + 1
             new == [st |-> "live", cred |-> c, family |-> FamilyJoined(p, c),
                     consent |-> l.consent]
  <1>1. /\ home' = [home EXCEPT ![c] = l.row] /\ parent' = parent /\ lastCred' = c
        /\ blocklist' = blocklist
        /\ pc' = [pc EXCEPT ![p] = "idle"] /\ loc' = [loc EXCEPT ![p] = NoLocal]
        /\ tok' = [tok EXCEPT ![l.row] = new]
    BY DEF LoginInsert, Leave, Goto
  <1>2. c \in Cred /\ c \in Nat /\ lastCred \in Nat /\ lastCred < c
    BY ConstantsAssumption DEF LoginInsert, TableInv, TypeOK, Cred
  <1>3. \A r \in Row : sess'[r] = IF r = l.row THEN new
                                  ELSE IF r = l.victim THEN NoRow ELSE sess[r]
    BY DEF LoginInsert
  <1>4. \A r \in Row : Stored(tok, r) => tok[r].cred \in 1..lastCred
    BY DEF TableInv, DrawnOnly, TypeOK, RowRec, NoRow, Stored, Cred
  <1>5. \A r \in Row : tok'[r] = IF r = l.row THEN new ELSE tok[r]
    BY <1>1 DEF TableInv, TypeOK
  <1>6. new.cred = c /\ new.st = "live"
    OBVIOUS
  <1>7. NoRow.st = "none"
    BY DEF NoRow
  <1> HIDE DEF c, l, new
  <1>8. DrawnOnly'
    BY <1>1, <1>2, <1>4, <1>5, <1>6 DEF TableInv, TypeOK, DrawnOnly, Stored
  <1>9. AtHome'
    BY <1>1, <1>2, <1>4, <1>5, <1>6 DEF TableInv, TypeOK, AtHome, Stored
  <1>10. RotateAtHome'
    BY <1>1, <1>2 DEF TableInv, TypeOK, RotateAtHome
  <1>11. SessionPairsToken'
    BY <1>3, <1>5, <1>6, <1>7 DEF TableInv, SessionPairsToken, Stored
  <1>12. StoredUnspent'
    <2>1. \A d \in Cred : parent[d] # c
      BY <1>2 DEF TableInv, TypeOK, DrawnOnly
    <2>2. ASSUME NEW r \in Row, Stored(sess', r)
          PROVE  sess'[r].cred = c \/ (Stored(sess, r) /\ sess'[r].cred = sess[r].cred)
      BY <1>3, <1>6, <1>7, <2>2 DEF Stored
    <2> QED
      BY <1>1, <2>1, <2>2 DEF TableInv, StoredUnspent, Spent
  <1>13. RedeemedOnce'
    BY <1>1 DEF TableInv, RedeemedOnce
  <1>14. ASSUME NEW d, Dead(d) PROVE Dead(d)'
    BY <1>1, <1>2, <1>5, <1>6, <1>14 DEF TableInv, Dead, Spent, Stored
  <1>15. RevokedDead'
    BY <1>1, <1>14 DEF TableInv, TypeOK, RevokedDead
  <1> QED
    BY <1>8, <1>9, <1>10, <1>11, <1>12, <1>13, <1>15 DEF TableInv, TypeInv

\* The blocklist entry written after a revocation.
LEMMA BlockStep ==
    ASSUME TableInv, TypeInv', NEW p \in Req, RevokeBlock(p)
    PROVE  TableInv'
  <1>1. /\ UNCHANGED <<tok, sess, home, parent, lastCred>>
        /\ blocklist' = blocklist \cup {loc[p].cred} /\ pc[p] = "block"
        /\ pc' = [pc EXCEPT ![p] = "idle"] /\ loc' = [loc EXCEPT ![p] = NoLocal]
    BY DEF RevokeBlock, Leave, Goto
  <1>2. RotateAtHome'
    BY <1>1 DEF TableInv, TypeOK, RotateAtHome
  <1>3. RevokedDead'
    BY <1>1, Frame DEF TableInv, TypeOK, RevokedDead
  <1> QED
    BY <1>1, <1>2, <1>3, Frame DEF TableInv, TypeInv

\* The other steps write no table: they move requests on.
Quiet ==
    /\ UNCHANGED <<tok, sess, home, parent, lastCred, blocklist>>
    /\ RotateAtHome'
    /\ \A p \in Req : pc'[p] = "block" => pc[p] = "block" /\ loc'[p].cred = loc[p].cred

\* A step that only moves requests about keeps the invariant.
LEMMA QuietStep == ASSUME TableInv, TypeInv', Quiet PROVE TableInv'
  <1>1. RevokedDead'
    BY Frame DEF Quiet, TableInv, RevokedDead
  <1> QED
    BY <1>1, Frame DEF Quiet, TableInv, TypeInv

\* A rotation reads the id of the row its credential is at home in.
LEMMA RereadQuiet == ASSUME TableInv, NEW p \in Req, RefreshReread(p) PROVE Quiet
  <1>1. PICK r \in Row : /\ Live(tok, r) /\ tok[r].cred = loc[p].cred
                         /\ loc' = [loc EXCEPT ![p].row = r]
    BY DEF RefreshReread, LiveWith
  <1>2. home[loc[p].cred] = r /\ loc[p].cred \in 1..lastCred
    BY <1>1 DEF TableInv, TypeOK, AtHome, DrawnOnly, Live, Stored, RowRec, NoRow, Cred
  <1>3. /\ loc'[p].cred = loc[p].cred /\ loc'[p].row = r
        /\ \A q \in Req \ {p} : loc'[q] = loc[q] /\ pc'[q] = pc[q]
        /\ pc'[p] = "rotate"
    BY <1>1 DEF RefreshReread, Goto, TableInv, TypeOK, Local
  <1>4. UNCHANGED <<tok, sess, home, parent, lastCred, blocklist>>
    BY DEF RefreshReread
  <1> QED
    BY <1>2, <1>3, <1>4 DEF Quiet, TableInv, RotateAtHome

\* A step that keeps the tables and takes no request to a rotation or a block.
LEMMA ElsewhereQuiet ==
    ASSUME TableInv, UNCHANGED <<tok, sess, home, parent, lastCred, blocklist>>,
           \A q \in Req : \/ pc'[q] = pc[q] /\ loc'[q] = loc[q]
                          \/ pc'[q] \notin {"rotate", "block"}
    PROVE  Quiet
  BY DEF Quiet, TableInv, RotateAtHome

\* Every step keeps the inductive invariant.
LEMMA TableInductive == TableInv /\ [Next]_vars => TableInv'
  <1> SUFFICES ASSUME TableInv, [Next]_vars PROVE TableInv'
    OBVIOUS
  <1>0. TypeInv'
    BY TypeStep DEF TableInv, TypeInv
  <1>1. ASSUME NEW p \in Req, NEW c \in Cred, RefreshConsult(p, c) PROVE Quiet
    BY <1>1, ElsewhereQuiet DEF RefreshConsult, Goto, TableInv, TypeOK
  <1>2. ASSUME NEW p \in Req, KillTokens(p) PROVE Quiet
    BY <1>2, ElsewhereQuiet DEF KillTokens, Goto, TableInv, TypeOK
  <1>3. ASSUME NEW p \in Req, RefreshFind(p) PROVE Quiet
    BY <1>3, ElsewhereQuiet DEF RefreshFind, Goto, TableInv, TypeOK
  <1>4. ASSUME NEW p \in Req, RefreshFlag(p) PROVE Quiet
    BY <1>4, ElsewhereQuiet DEF RefreshFlag, Goto, TableInv, TypeOK
  <1>5. ASSUME NEW p \in Req, NEW c \in Cred, RevokeFind(p, c) PROVE Quiet
    BY <1>5, ElsewhereQuiet DEF RevokeFind, Goto, TableInv, TypeOK
  <1>6. ASSUME NEW p \in Req, RevokeRead(p) PROVE Quiet
    BY <1>6, ElsewhereQuiet DEF RevokeRead, Goto, TableInv, TypeOK
  <1>7. ASSUME NEW p \in Req, NEW k \in Grant, LoginRead(p, k) PROVE Quiet
    BY <1>7, ElsewhereQuiet DEF LoginRead, Goto, TableInv, TypeOK
  <1>8. ASSUME NEW p \in Req, LoginCount(p) PROVE Quiet
    BY <1>8, ElsewhereQuiet DEF LoginCount, Goto, TableInv, TypeOK
  <1>9. ASSUME NEW p \in Req, LoginEvict(p) PROVE Quiet
    BY <1>9, ElsewhereQuiet DEF LoginEvict, Goto, TableInv, TypeOK
  <1>10. ASSUME NEW p \in Req, Abort(p) PROVE Quiet
    BY <1>10, ElsewhereQuiet DEF Abort, Leave, Goto, TableInv, TypeOK
  <1>11. ASSUME NEW c \in Cred, Lapse(c) PROVE Quiet
    BY <1>11, ElsewhereQuiet DEF Lapse
  <1>12. ASSUME NEW c \in Cred, Expire(c) PROVE Quiet
    BY <1>12, ElsewhereQuiet DEF Expire
  <1>13. ASSUME NEW c \in Cred, LastSecond(c) PROVE Quiet
    BY <1>13, ElsewhereQuiet DEF LastSecond
  <1>14. CASE UNCHANGED vars
    BY <1>0, <1>14, ElsewhereQuiet, QuietStep DEF vars
  <1> QED
    BY <1>0, <1>1, <1>2, <1>3, <1>4, <1>5, <1>6, <1>7, <1>8, <1>9, <1>10, <1>11, <1>12,
       <1>13, <1>14, QuietStep, RereadQuiet, RotateStep, DeleteStep, KillStep, InsertStep, BlockStep
    DEF Next

\* The inductive invariant holds at the start.
LEMMA InitTableInv == Init => TableInv
  <1> SUFFICES ASSUME Init PROVE TableInv
    OBVIOUS
  <1>1. TypeInv
    BY InitType DEF TypeInv
  <1>2. /\ \A r \in Row : ~ Stored(tok, r) /\ ~ Stored(sess, r)
        /\ \A d \in Cred : parent[d] = 0
        /\ \A p \in Req : pc[p] = "idle"
        /\ blocklist = {} /\ lastCred = 0
    BY DEF Init, Stored, NoRow
  <1>3. RedeemedOnce
    BY <1>2 DEF RedeemedOnce
  <1> QED
    BY <1>1, <1>2, <1>3 DEF TableInv, TypeInv, DrawnOnly, AtHome, RotateAtHome,
       SessionPairsToken, StoredUnspent, Spent, RevokedDead

-----------------------------------------------------------------------------
(* What becomes of a credential's row: LineageInv. *)

\* The history and the rows of the credentials that exist: a row keeps its
\* family, and it only dies.
RowsDie ==
    /\ lastCred <= lastCred' /\ lastRow <= lastRow'
    /\ \A c \in 1..lastCred :
          /\ home'[c] = home[c]
          /\ Stored(tok', home[c]) =>
                Stored(tok, home[c]) /\ tok'[home[c]].family = tok[home[c]].family
          /\ Live(tok', home[c]) => Live(tok, home[c])

\* A credential that exists was written to a row.
LEMMA HomeIsRow ==
    ASSUME TableInv, WrittenToRows
    PROVE  \A c \in 1..lastCred : c \in Cred /\ home[c] \in Row
  <1>1. lastCred \in 0..MaxCred /\ home \in [Cred -> 0..MaxLogin] /\ MaxCred \in Nat
        /\ MaxLogin \in Nat
    BY ConstantsAssumption DEF TableInv, TypeOK
  <1> QED
    BY <1>1 DEF WrittenToRows, Cred, Row

\* A login writes a row that nothing was written to; all else lets rows be, or die.
LEMMA RowsDieStep == TableInv /\ WrittenToRows /\ RowsFresh /\ [Next]_vars => RowsDie
  <1> SUFFICES ASSUME TableInv /\ WrittenToRows /\ RowsFresh, [Next]_vars PROVE RowsDie
    OBVIOUS
  <1>a. /\ pc \in [Req -> Step] /\ loc \in [Req -> Local] /\ held \in [Req -> SUBSET Row]
        /\ tok \in [Row -> RowRec] /\ home \in [Cred -> 0..MaxLogin]
        /\ used \in [Cred -> 0..MaxCred]
        /\ lastCred \in 0..MaxCred /\ lastRow \in 0..MaxLogin
        /\ MaxCred \in Nat /\ MaxLogin \in Nat
    BY ConstantsAssumption DEF TableInv, TypeOK
  <1>b. \A c \in 1..lastCred : c \in Cred /\ home[c] \in Row
    BY HomeIsRow
  <1>1. ASSUME NEW p \in Req, NEW c \in Cred, RefreshConsult(p, c) PROVE RowsDie
    BY <1>1, <1>a, <1>b DEF RefreshConsult, RowsDie, Stored, Live
  <1>2. ASSUME NEW p \in Req, NEW c \in Cred, RevokeFind(p, c) PROVE RowsDie
    BY <1>2, <1>a, <1>b DEF RevokeFind, RowsDie, Stored, Live
  <1>3. ASSUME NEW p \in Req, NEW k \in Grant, LoginRead(p, k) PROVE RowsDie
    BY <1>3, <1>a, <1>b DEF LoginRead, RowsDie, Stored, Live
  <1>4. ASSUME NEW p \in Req, KillTokens(p) PROVE RowsDie
    BY <1>4, <1>a, <1>b DEF KillTokens, RowsDie, Stored, Live
  <1>5. ASSUME NEW p \in Req, KillSessions(p) PROVE RowsDie
    <2>1. UNCHANGED <<home, lastCred, lastRow>>
      BY <1>5 DEF KillSessions
    <2>2. ASSUME NEW r \in Row
          PROVE  /\ Stored(tok', r) => Stored(tok, r) /\ tok'[r].family = tok[r].family
                 /\ Live(tok', r) => Live(tok, r)
      <3>1. tok'[r] = IF r \in held[p] THEN [tok[r] EXCEPT !.st = "soft"] ELSE tok[r]
        BY <1>5 DEF KillSessions
      <3>2. r \in held[p] => Stored(tok, r)
        BY DEF TableInv, HeldStored
      <3> QED
        BY <1>a, <3>1, <3>2 DEF RowRec, NoRow, Stored, Live
    <2> QED
      BY <1>a, <1>b, <2>1, <2>2 DEF RowsDie
  <1>6. ASSUME NEW p \in Req, RefreshFind(p) PROVE RowsDie
    BY <1>6, <1>a, <1>b DEF RefreshFind, RowsDie, Stored, Live
  <1>7. ASSUME NEW p \in Req, RefreshFlag(p) PROVE RowsDie
    BY <1>7, <1>a, <1>b DEF RefreshFlag, RowsDie, Stored, Live
  <1>8. ASSUME NEW p \in Req, RefreshReread(p) PROVE RowsDie
    BY <1>8, <1>a, <1>b DEF RefreshReread, RowsDie, Stored, Live
  <1>9. ASSUME NEW p \in Req, RefreshRotate(p) PROVE RowsDie
    <2> DEFINE r == loc[p].row
               new == lastCred + 1
    <2>1. /\ home' = [home EXCEPT ![new] = r] /\ lastCred' = new /\ lastRow' = lastRow
          /\ tok' = [tok EXCEPT ![r].cred = new]
      BY <1>9 DEF RefreshRotate
    <2>2. ASSUME NEW s \in Row
          PROVE  tok'[s].st = tok[s].st /\ tok'[s].family = tok[s].family
      BY <1>a, <2>1 DEF RowRec, NoRow
    <2> QED
      BY <1>a, <1>b, <2>1, <2>2 DEF RowsDie, Stored, Live
  <1>10. ASSUME NEW p \in Req, RevokeRead(p) PROVE RowsDie
    BY <1>10, <1>a, <1>b DEF RevokeRead, RowsDie, Stored, Live
  <1>11. ASSUME NEW p \in Req, RevokeDelete(p) PROVE RowsDie
    <2>1. UNCHANGED <<home, lastCred, lastRow>>
      BY <1>11 DEF RevokeDelete
    <2>2. \A r \in Row : tok'[r] = tok[r] \/ tok'[r] = NoRow
      BY <1>11 DEF RevokeDelete
    <2> QED
      BY <1>a, <1>b, <2>1, <2>2 DEF RowsDie, Stored, Live, NoRow
  <1>12. ASSUME NEW p \in Req, RevokeBlock(p) PROVE RowsDie
    BY <1>12, <1>a, <1>b DEF RevokeBlock, RowsDie, Stored, Live
  <1>13. ASSUME NEW p \in Req, LoginCount(p) PROVE RowsDie
    BY <1>13, <1>a, <1>b DEF LoginCount, RowsDie, Stored, Live
  <1>14. ASSUME NEW p \in Req, LoginEvict(p) PROVE RowsDie
    BY <1>14, <1>a, <1>b DEF LoginEvict, RowsDie, Stored, Live
  <1>15. ASSUME NEW p \in Req, LoginInsert(p) PROVE RowsDie
    <2> DEFINE r == loc[p].row
               new == lastCred + 1
    <2>1. /\ home' = [home EXCEPT ![new] = r] /\ lastCred' = new /\ lastRow' = lastRow
          /\ \A s \in Row : s # r => tok'[s] = tok[s]
      BY <1>a, <1>15 DEF LoginInsert
    <2>2. \A c \in Cred : home[c] # r
      BY <1>15 DEF LoginInsert, RowsFresh
    <2> QED
      BY <1>a, <1>b, <2>1, <2>2 DEF RowsDie, Stored, Live
  <1>16. ASSUME NEW p \in Req, Abort(p) PROVE RowsDie
    BY <1>16, <1>a, <1>b DEF Abort, RowsDie, Stored, Live
  <1>17. ASSUME NEW c \in Cred, Lapse(c) PROVE RowsDie
    BY <1>17, <1>a, <1>b DEF Lapse, RowsDie, Stored, Live
  <1>18. ASSUME NEW c \in Cred, Expire(c) PROVE RowsDie
    BY <1>18, <1>a, <1>b DEF Expire, RowsDie, Stored, Live
  <1>19. ASSUME NEW c \in Cred, LastSecond(c) PROVE RowsDie
    BY <1>19, <1>a, <1>b DEF LastSecond, RowsDie, Stored, Live
  <1>20. CASE UNCHANGED vars
    BY <1>20, <1>a, <1>b DEF vars, RowsDie, Stored, Live
  <1> QED
    BY <1>1, <1>2, <1>3, <1>4, <1>5, <1>6, <1>7, <1>8, <1>9, <1>10, <1>11, <1>12,
       <1>13, <1>14, <1>15, <1>16, <1>17, <1>18, <1>19, <1>20 DEF Next

\* A credential becomes visible with its row.
LEMMA WrittenToRowsStep ==
    TableInv /\ WrittenToRows /\ RowsFresh /\ [Next]_vars => WrittenToRows'
  <1> SUFFICES ASSUME TableInv /\ WrittenToRows /\ RowsFresh, [Next]_vars
               PROVE  WrittenToRows'
    OBVIOUS
  <1>a. /\ pc \in [Req -> Step] /\ loc \in [Req -> Local] /\ held \in [Req -> SUBSET Row]
        /\ tok \in [Row -> RowRec] /\ home \in [Cred -> 0..MaxLogin]
        /\ used \in [Cred -> 0..MaxCred]
        /\ lastCred \in 0..MaxCred /\ lastRow \in 0..MaxLogin
        /\ MaxCred \in Nat /\ MaxLogin \in Nat
    BY ConstantsAssumption DEF TableInv, TypeOK
  <1>b. /\ \A r \in Row : Stored(tok, r) => tok[r].cred <= lastCred
        /\ \A c \in 1..lastCred : c \in Cred /\ home[c] \in Row
    BY HomeIsRow DEF TableInv, DrawnOnly
  <1> USE DEF Goto, Leave
  <1>1. ASSUME NEW p \in Req, NEW c \in Cred, RefreshConsult(p, c) PROVE WrittenToRows'
    BY <1>1, <1>a, <1>b DEF RefreshConsult, WrittenToRows, Local
  <1>2. ASSUME NEW p \in Req, NEW c \in Cred, RevokeFind(p, c) PROVE WrittenToRows'
    <2>1. PICK r \in LiveWith(c) : TRUE
      BY <1>2 DEF RevokeFind
    <2>2. c <= lastCred
      BY <1>b, <2>1 DEF LiveWith, Live, Stored
    <2> QED
      BY <1>a, <2>2, <1>2 DEF RevokeFind, WrittenToRows, Local
  <1>3. ASSUME NEW p \in Req, NEW k \in Grant, LoginRead(p, k) PROVE WrittenToRows'
    BY <1>3, <1>a, <1>b DEF LoginRead, WrittenToRows, Local
  <1>4. ASSUME NEW p \in Req, KillTokens(p) PROVE WrittenToRows'
    BY <1>4, <1>a, <1>b DEF KillTokens, WrittenToRows, Local
  <1>5. ASSUME NEW p \in Req, KillSessions(p) PROVE WrittenToRows'
    <2>1. /\ UNCHANGED <<home, lastCred, lastRow, stillborn>>
          /\ reported' = reported \cup {loc[p].cred}
          /\ pc' = [pc EXCEPT ![p] = "idle"] /\ loc' = [loc EXCEPT ![p] = NoLocal]
      BY <1>5 DEF KillSessions
    <2>2. loc[p].cred \in 1..lastCred
      BY <1>a, <1>5 DEF KillSessions, WrittenToRows, TableInv, CredInHand, Cred
    <2> QED
      BY <1>a, <2>1, <2>2 DEF WrittenToRows
  <1>6. ASSUME NEW p \in Req, RefreshFind(p) PROVE WrittenToRows'
    BY <1>6, <1>a, <1>b DEF RefreshFind, WrittenToRows, Local
  <1>7. ASSUME NEW p \in Req, RefreshFlag(p) PROVE WrittenToRows'
    BY <1>7, <1>a, <1>b DEF RefreshFlag, WrittenToRows, Local
  <1>8. ASSUME NEW p \in Req, RefreshReread(p) PROVE WrittenToRows'
    BY <1>8, <1>a, <1>b DEF RefreshReread, WrittenToRows, Local
  <1>9. ASSUME NEW p \in Req, RefreshRotate(p) PROVE WrittenToRows'
    <2> DEFINE r == loc[p].row
               new == lastCred + 1
    <2>1. /\ home' = [home EXCEPT ![new] = r] /\ lastCred' = new /\ lastRow' = lastRow
          /\ pc' = [pc EXCEPT ![p] = "idle"] /\ loc' = [loc EXCEPT ![p] = NoLocal]
          /\ stillborn' \subseteq stillborn \cup {new} /\ reported' = reported
      BY <1>9 DEF RefreshRotate
    <2>2. r \in Row /\ home[loc[p].cred] = r /\ loc[p].cred \in Cred
      BY <1>b, <1>9, RotateRow DEF RefreshRotate, TableInv, RotateAtHome
    <2>3. new \in 1..MaxCred /\ r # 0 /\ r <= lastRow
      BY <1>a, <2>2, <1>9 DEF RefreshRotate, Row, WrittenToRows
    <2>4. \A c \in Cred : home'[c] <= lastRow' /\ (home'[c] # 0 <=> c <= lastCred')
      BY <1>a, <2>1, <2>3 DEF WrittenToRows, Cred
    <2>5. \A q \in Req : pc'[q] \notin {"idle", "count", "evict", "insert"}
                            => loc'[q].cred <= lastCred'
      BY <1>a, <2>1 DEF WrittenToRows, Local
    <2> QED
      BY <1>a, <2>1, <2>4, <2>5 DEF WrittenToRows
  <1>10. ASSUME NEW p \in Req, RevokeRead(p) PROVE WrittenToRows'
    BY <1>10, <1>a, <1>b DEF RevokeRead, WrittenToRows, Local
  <1>11. ASSUME NEW p \in Req, RevokeDelete(p) PROVE WrittenToRows'
    BY <1>11, <1>a, <1>b DEF RevokeDelete, WrittenToRows, Local
  <1>12. ASSUME NEW p \in Req, RevokeBlock(p) PROVE WrittenToRows'
    BY <1>12, <1>a, <1>b DEF RevokeBlock, WrittenToRows, Local
  <1>13. ASSUME NEW p \in Req, LoginCount(p) PROVE WrittenToRows'
    <2>1. /\ UNCHANGED <<home, lastCred, stillborn, reported>>
          /\ lastRow' = lastRow + 1
          /\ pc'[p] \in {"evict", "insert"}
          /\ \A q \in Req \ {p} : pc'[q] = pc[q] /\ loc'[q] = loc[q]
      BY <1>a, <1>13 DEF LoginCount
    <2>2. \A c \in Cred : home[c] \in Nat /\ home[c] <= lastRow
      BY <1>a DEF WrittenToRows
    <2> QED
      BY <1>a, <2>1, <2>2 DEF WrittenToRows
  <1>14. ASSUME NEW p \in Req, LoginEvict(p) PROVE WrittenToRows'
    BY <1>14, <1>a, <1>b DEF LoginEvict, WrittenToRows, Local
  <1>15. ASSUME NEW p \in Req, LoginInsert(p) PROVE WrittenToRows'
    <2> DEFINE r == loc[p].row
               new == lastCred + 1
    <2>1. /\ home' = [home EXCEPT ![new] = r] /\ lastCred' = new /\ lastRow' = lastRow
          /\ pc' = [pc EXCEPT ![p] = "idle"] /\ loc' = [loc EXCEPT ![p] = NoLocal]
          /\ stillborn' = stillborn /\ reported' = reported
      BY <1>15 DEF LoginInsert
    <2>2. r \in 1..lastRow
      BY <1>15 DEF LoginInsert, RowsFresh
    <2>3. new \in 1..MaxCred
      BY <1>a, <1>15 DEF LoginInsert
    <2>4. \A c \in Cred : home'[c] <= lastRow' /\ (home'[c] # 0 <=> c <= lastCred')
      BY <1>a, <2>1, <2>2, <2>3 DEF WrittenToRows, Cred
    <2>5. \A q \in Req : pc'[q] \notin {"idle", "count", "evict", "insert"}
                            => loc'[q].cred <= lastCred'
      BY <1>a, <2>1 DEF WrittenToRows, Local
    <2> QED
      BY <1>a, <2>1, <2>4, <2>5 DEF WrittenToRows
  <1>16. ASSUME NEW p \in Req, Abort(p) PROVE WrittenToRows'
    BY <1>16, <1>a, <1>b DEF Abort, WrittenToRows, Local
  <1>17. ASSUME NEW c \in Cred, Lapse(c) PROVE WrittenToRows'
    BY <1>17, <1>a, <1>b DEF Lapse, WrittenToRows, Local
  <1>18. ASSUME NEW c \in Cred, Expire(c) PROVE WrittenToRows'
    BY <1>18, <1>a, <1>b DEF Expire, WrittenToRows, Local
  <1>19. ASSUME NEW c \in Cred, LastSecond(c) PROVE WrittenToRows'
    BY <1>19, <1>a, <1>b DEF LastSecond, WrittenToRows, Local
  <1>20. CASE UNCHANGED vars
    BY <1>20, <1>a, <1>b DEF vars, WrittenToRows, Local
  <1> QED
    BY <1>1, <1>2, <1>3, <1>4, <1>5, <1>6, <1>7, <1>8, <1>9, <1>10, <1>11, <1>12,
       <1>13, <1>14, <1>15, <1>16, <1>17, <1>18, <1>19, <1>20 DEF Next

\* Two logins never write the same row.
LEMMA RowsFreshStep ==
    TableInv /\ WrittenToRows /\ RowsFresh /\ [Next]_vars => RowsFresh'
  <1> SUFFICES ASSUME TableInv /\ WrittenToRows /\ RowsFresh, [Next]_vars
               PROVE  RowsFresh'
    OBVIOUS
  <1>a. /\ pc \in [Req -> Step] /\ loc \in [Req -> Local] /\ held \in [Req -> SUBSET Row]
        /\ tok \in [Row -> RowRec] /\ home \in [Cred -> 0..MaxLogin]
        /\ used \in [Cred -> 0..MaxCred]
        /\ lastCred \in 0..MaxCred /\ lastRow \in 0..MaxLogin
        /\ MaxCred \in Nat /\ MaxLogin \in Nat
    BY ConstantsAssumption DEF TableInv, TypeOK
  <1>b. /\ \A r \in Row : Stored(tok, r) => tok[r].cred <= lastCred
        /\ \A c \in 1..lastCred : c \in Cred /\ home[c] \in Row
    BY HomeIsRow DEF TableInv, DrawnOnly
  <1> USE DEF Goto, Leave
  <1>1. ASSUME NEW p \in Req, NEW c \in Cred, RefreshConsult(p, c) PROVE RowsFresh'
    BY <1>1, <1>a DEF RefreshConsult, RowsFresh, Local
  <1>2. ASSUME NEW p \in Req, NEW c \in Cred, RevokeFind(p, c) PROVE RowsFresh'
    BY <1>2, <1>a DEF RevokeFind, RowsFresh, Local
  <1>3. ASSUME NEW p \in Req, NEW k \in Grant, LoginRead(p, k) PROVE RowsFresh'
    BY <1>3, <1>a DEF LoginRead, RowsFresh, Local
  <1>4. ASSUME NEW p \in Req, KillTokens(p) PROVE RowsFresh'
    BY <1>4, <1>a DEF KillTokens, RowsFresh, Local
  <1>5. ASSUME NEW p \in Req, KillSessions(p) PROVE RowsFresh'
    BY <1>5, <1>a DEF KillSessions, RowsFresh, Local
  <1>6. ASSUME NEW p \in Req, RefreshFind(p) PROVE RowsFresh'
    BY <1>6, <1>a DEF RefreshFind, RowsFresh, Local
  <1>7. ASSUME NEW p \in Req, RefreshFlag(p) PROVE RowsFresh'
    BY <1>7, <1>a DEF RefreshFlag, RowsFresh, Local
  <1>8. ASSUME NEW p \in Req, RefreshReread(p) PROVE RowsFresh'
    BY <1>8, <1>a DEF RefreshReread, RowsFresh, Local
  <1>9. ASSUME NEW p \in Req, RefreshRotate(p) PROVE RowsFresh'
    <2>1. /\ home' = [home EXCEPT ![lastCred + 1] = loc[p].row] /\ lastRow' = lastRow
          /\ pc'[p] = "idle" /\ \A q \in Req \ {p} : pc'[q] = pc[q] /\ loc'[q] = loc[q]
      BY <1>a, <1>9 DEF RefreshRotate
    <2>2. loc[p].cred \in Cred /\ home[loc[p].cred] = loc[p].row
      BY <1>b, <1>9 DEF RefreshRotate, TableInv, RotateAtHome
    <2>3. \A q \in Req : pc[q] \in {"evict", "insert"} => loc[q].row # loc[p].row
      BY <2>2 DEF RowsFresh
    <2> QED
      BY <1>a, <2>1, <2>3 DEF RowsFresh
  <1>10. ASSUME NEW p \in Req, RevokeRead(p) PROVE RowsFresh'
    BY <1>10, <1>a DEF RevokeRead, RowsFresh, Local
  <1>11. ASSUME NEW p \in Req, RevokeDelete(p) PROVE RowsFresh'
    BY <1>11, <1>a DEF RevokeDelete, RowsFresh, Local
  <1>12. ASSUME NEW p \in Req, RevokeBlock(p) PROVE RowsFresh'
    BY <1>12, <1>a DEF RevokeBlock, RowsFresh, Local
  <1>13. ASSUME NEW p \in Req, LoginCount(p) PROVE RowsFresh'
    <2>1. /\ home' = home /\ lastRow' = lastRow + 1 /\ loc'[p].row = lastRow + 1
          /\ \A q \in Req \ {p} : pc'[q] = pc[q] /\ loc'[q] = loc[q]
      BY <1>a, <1>13 DEF LoginCount, Local
    <2>2. /\ \A c \in Cred : home[c] # lastRow + 1
          /\ \A q \in Req : pc[q] \in {"evict", "insert"} => loc[q].row # lastRow + 1
      BY <1>a DEF WrittenToRows, RowsFresh
    <2> QED
      BY <1>a, <2>1, <2>2 DEF RowsFresh
  <1>14. ASSUME NEW p \in Req, LoginEvict(p) PROVE RowsFresh'
    <2>1. /\ UNCHANGED <<home, lastRow>> /\ pc[p] = "evict" /\ loc'[p].row = loc[p].row
          /\ \A q \in Req \ {p} : pc'[q] = pc[q] /\ loc'[q] = loc[q]
      BY <1>a, <1>14 DEF LoginEvict, Local
    <2> QED
      BY <1>a, <2>1 DEF RowsFresh
  <1>15. ASSUME NEW p \in Req, LoginInsert(p) PROVE RowsFresh'
    <2>1. /\ home' = [home EXCEPT ![lastCred + 1] = loc[p].row] /\ lastRow' = lastRow
          /\ pc'[p] = "idle" /\ \A q \in Req \ {p} : pc'[q] = pc[q] /\ loc'[q] = loc[q]
      BY <1>a, <1>15 DEF LoginInsert
    <2>2. \A q \in Req \ {p} : pc[q] \in {"evict", "insert"} => loc[q].row # loc[p].row
      BY <1>15 DEF LoginInsert, RowsFresh
    <2> QED
      BY <1>a, <2>1, <2>2 DEF RowsFresh
  <1>16. ASSUME NEW p \in Req, Abort(p) PROVE RowsFresh'
    BY <1>16, <1>a DEF Abort, RowsFresh, Local
  <1>17. ASSUME NEW c \in Cred, Lapse(c) PROVE RowsFresh'
    BY <1>17, <1>a DEF Lapse, RowsFresh, Local
  <1>18. ASSUME NEW c \in Cred, Expire(c) PROVE RowsFresh'
    BY <1>18, <1>a DEF Expire, RowsFresh, Local
  <1>19. ASSUME NEW c \in Cred, LastSecond(c) PROVE RowsFresh'
    BY <1>19, <1>a DEF LastSecond, RowsFresh, Local
  <1>20. CASE UNCHANGED vars
    BY <1>20, <1>a DEF vars, RowsFresh, Local
  <1> QED
    BY <1>1, <1>2, <1>3, <1>4, <1>5, <1>6, <1>7, <1>8, <1>9, <1>10, <1>11, <1>12,
       <1>13, <1>14, <1>15, <1>16, <1>17, <1>18, <1>19, <1>20 DEF Next

\* A step of a request that is about no family leaves what the others know.
LEMMA OthersKnow ==
    ASSUME FamilyKnown, RowsDie, used' = used, NEW p \in Req,
           pc'[p] \notin {"flag", "killTokens", "killSessions"},
           \A q \in Req \ {p} : pc'[q] = pc[q] /\ loc'[q] = loc[q] /\ held'[q] = held[q],
           \A q \in Req : pc[q] \in {"flag", "killTokens", "killSessions"}
                             => loc[q].cred \in 1..lastCred,
           lastCred \in Nat, lastCred' \in Nat
    PROVE  FamilyKnown'
  <1>1. \A c \in 1..lastCred : /\ home'[c] = home[c] /\ lastCred <= lastCred'
                               /\ \A f : InFamily(c, f) => InFamily(c, f)'
                               /\ Stored(tok', home[c]) => Stored(tok, home[c])
    BY DEF RowsDie, InFamily
  <1>2. \A c \in Cred : used'[c] # 0 => c <= lastCred' /\ InFamily(c, used[c])'
    BY <1>1 DEF FamilyKnown, RowsDie, Cred
  <1>3. ASSUME NEW q \in Req
        PROVE  /\ pc'[q] \in {"flag", "killTokens", "killSessions"} =>
                     loc'[q].family # 0 /\ InFamily(loc[q].cred, loc[q].family)'
               /\ pc'[q] = "killSessions" /\ Stored(tok', home'[loc'[q].cred]) =>
                     home'[loc'[q].cred] \in held'[q]
    <2>1. CASE q = p
      BY <2>1
    <2>2. CASE q # p
      <3>1. pc'[q] = pc[q] /\ loc'[q] = loc[q] /\ held'[q] = held[q]
        BY <2>2
      <3>2. PICK c, f : c = loc[q].cred /\ f = loc[q].family
        OBVIOUS
      <3>3. CASE pc[q] \in {"flag", "killTokens", "killSessions"}
        <4>1. f # 0 /\ InFamily(c, f) /\ c \in 1..lastCred
          BY <3>2, <3>3 DEF FamilyKnown
        <4>2. /\ InFamily(c, f)' /\ home'[c] = home[c]
              /\ Stored(tok', home[c]) => Stored(tok, home[c])
          BY <1>1, <4>1
        <4>3. InFamily(loc[q].cred, loc[q].family)'
          BY <3>1, <3>2, <4>2 DEF InFamily
        <4>4. pc[q] = "killSessions" /\ Stored(tok, home[c]) => home[c] \in held[q]
          BY <3>2 DEF FamilyKnown
        <4> QED
          BY <3>1, <3>2, <4>1, <4>2, <4>3, <4>4
      <3>4. CASE pc[q] \notin {"flag", "killTokens", "killSessions"}
        BY <3>1, <3>4
      <3> QED
        BY <3>3, <3>4
    <2> QED
      BY <2>1, <2>2
  <1> QED
    BY <1>2, <1>3 DEF FamilyKnown

\* The family that is marked is that of the row, which keeps it.
LEMMA FamilyKnownStep ==
    TableInv /\ WrittenToRows /\ RowsFresh /\ FamilyKnown /\ [Next]_vars => FamilyKnown'
  <1> SUFFICES ASSUME TableInv /\ WrittenToRows /\ RowsFresh /\ FamilyKnown, [Next]_vars
               PROVE  FamilyKnown'
    OBVIOUS
  <1>a. /\ pc \in [Req -> Step] /\ loc \in [Req -> Local] /\ held \in [Req -> SUBSET Row]
        /\ tok \in [Row -> RowRec] /\ home \in [Cred -> 0..MaxLogin]
        /\ used \in [Cred -> 0..MaxCred]
        /\ lastCred \in 0..MaxCred /\ lastRow \in 0..MaxLogin
        /\ MaxCred \in Nat /\ MaxLogin \in Nat
    BY ConstantsAssumption DEF TableInv, TypeOK
  <1>b. /\ lastCred <= lastCred'
        /\ \A c \in 1..lastCred : /\ c \in Cred /\ home'[c] = home[c]
                                  /\ \A f : InFamily(c, f) => InFamily(c, f)'
                                  /\ Stored(tok', home[c]) => Stored(tok, home[c])
    BY RowsDieStep, HomeIsRow DEF RowsDie, InFamily
  <1>c. \A p \in Req : pc[p] \in {"flag", "killTokens", "killSessions"}
                          => loc[p].cred \in 1..lastCred
    BY <1>a DEF WrittenToRows, TableInv, CredInHand, Cred
  <1>d. RowsDie /\ lastCred \in Nat /\ lastCred' \in Nat
    BY <1>a, RowsDieStep, TypeStep DEF TableInv, TypeInv, TypeOK
  <1> USE DEF Goto, Leave
  <1>1. ASSUME NEW p \in Req, NEW c \in Cred, RefreshConsult(p, c) PROVE FamilyKnown'
    <2>1. /\ UNCHANGED <<used, tok, home, lastCred>>
          /\ \A q \in Req \ {p} : pc'[q] = pc[q] /\ loc'[q] = loc[q] /\ held'[q] = held[q]
          /\ pc'[p] = (IF used[c] # 0 THEN "killTokens" ELSE "find")
          /\ loc'[p].cred = c /\ loc'[p].family = used[c]
      BY <1>a, <1>1 DEF RefreshConsult, Local
    <2>2. used[c] # 0 => InFamily(c, used[c])
      BY DEF FamilyKnown
    <2> QED
      BY <1>b, <1>c, <2>1, <2>2 DEF FamilyKnown, InFamily
  <1>2. ASSUME NEW p \in Req, NEW c \in Cred, RevokeFind(p, c) PROVE FamilyKnown'
    <2>1. /\ used' = used
          /\ \A q \in Req \ {p} : pc'[q] = pc[q] /\ loc'[q] = loc[q] /\ held'[q] = held[q]
          /\ pc'[p] \notin {"flag", "killTokens", "killSessions"}
      BY <1>a, <1>2 DEF RevokeFind
    <2> QED
      BY <1>c, <1>d, <2>1, OthersKnow
  <1>3. ASSUME NEW p \in Req, NEW k \in Grant, LoginRead(p, k) PROVE FamilyKnown'
    <2>1. /\ used' = used
          /\ \A q \in Req \ {p} : pc'[q] = pc[q] /\ loc'[q] = loc[q] /\ held'[q] = held[q]
          /\ pc'[p] \notin {"flag", "killTokens", "killSessions"}
      BY <1>a, <1>3 DEF LoginRead
    <2> QED
      BY <1>c, <1>d, <2>1, OthersKnow
  <1>4. ASSUME NEW p \in Req, KillTokens(p) PROVE FamilyKnown'
    <2>1. /\ UNCHANGED <<used, tok, home, lastCred, loc>> /\ pc[p] = "killTokens"
          /\ \A q \in Req \ {p} : pc'[q] = pc[q] /\ held'[q] = held[q]
          /\ pc'[p] = "killSessions"
          /\ held'[p] = {r \in Row : Stored(tok, r) /\ tok[r].family = loc[p].family}
      BY <1>a, <1>4 DEF KillTokens
    <2>2. loc[p].family # 0 /\ InFamily(loc[p].cred, loc[p].family)
          /\ home[loc[p].cred] \in Row
      BY <1>c, <2>1, HomeIsRow DEF FamilyKnown
    <2>3. Stored(tok, home[loc[p].cred]) => home[loc[p].cred] \in held'[p]
      BY <2>1, <2>2 DEF InFamily
    <2> QED
      BY <1>b, <1>c, <2>1, <2>2, <2>3 DEF FamilyKnown, InFamily
  <1>5. ASSUME NEW p \in Req, KillSessions(p) PROVE FamilyKnown'
    <2>1. /\ used' = used
          /\ \A q \in Req \ {p} : pc'[q] = pc[q] /\ loc'[q] = loc[q] /\ held'[q] = held[q]
          /\ pc'[p] \notin {"flag", "killTokens", "killSessions"}
      BY <1>a, <1>5 DEF KillSessions
    <2> QED
      BY <1>c, <1>d, <2>1, OthersKnow
  <1>6. ASSUME NEW p \in Req, RefreshFind(p) PROVE FamilyKnown'
    <2>1. PICK r \in Row : /\ Live(tok, r) /\ tok[r].cred = loc[p].cred
                           /\ loc' = [loc EXCEPT ![p].family = tok[r].family]
      BY <1>6 DEF RefreshFind, LiveWith
    <2>2. /\ UNCHANGED <<used, tok, home, lastCred, held>> /\ pc[p] = "find"
          /\ \A q \in Req \ {p} : pc'[q] = pc[q] /\ loc'[q] = loc[q]
          /\ pc'[p] = "flag" /\ loc'[p].cred = loc[p].cred /\ loc'[p].family = tok[r].family
      BY <1>a, <2>1, <1>6 DEF RefreshFind, Local
    <2>3. home[loc[p].cred] = r /\ tok[r].family # 0
      BY <1>a, <2>1, StoredRow DEF TableInv, AtHome, Live, Stored, Cred
    <2>4. InFamily(loc[p].cred, tok[r].family)
      BY <2>3 DEF InFamily
    <2> QED
      BY <1>b, <1>c, <2>2, <2>3, <2>4 DEF FamilyKnown, InFamily
  <1>7. ASSUME NEW p \in Req, RefreshFlag(p) PROVE FamilyKnown'
    <2>1. /\ UNCHANGED <<tok, home, lastCred, loc, held>> /\ pc[p] = "flag"
          /\ used' = [used EXCEPT ![loc[p].cred] = loc[p].family]
          /\ pc' = [pc EXCEPT ![p] = "reread"]
      BY <1>7 DEF RefreshFlag
    <2>2. loc[p].cred \in 1..lastCred /\ InFamily(loc[p].cred, loc[p].family)
      BY <1>c, <2>1 DEF FamilyKnown
    <2> QED
      BY <1>a, <1>b, <1>c, <2>1, <2>2 DEF FamilyKnown, InFamily
  <1>8. ASSUME NEW p \in Req, RefreshReread(p) PROVE FamilyKnown'
    <2>1. /\ used' = used
          /\ \A q \in Req \ {p} : pc'[q] = pc[q] /\ loc'[q] = loc[q] /\ held'[q] = held[q]
          /\ pc'[p] \notin {"flag", "killTokens", "killSessions"}
      BY <1>a, <1>8 DEF RefreshReread
    <2> QED
      BY <1>c, <1>d, <2>1, OthersKnow
  <1>9. ASSUME NEW p \in Req, RefreshRotate(p) PROVE FamilyKnown'
    <2>1. /\ used' = used
          /\ \A q \in Req \ {p} : pc'[q] = pc[q] /\ loc'[q] = loc[q] /\ held'[q] = held[q]
          /\ pc'[p] \notin {"flag", "killTokens", "killSessions"}
      BY <1>a, <1>9 DEF RefreshRotate
    <2> QED
      BY <1>c, <1>d, <2>1, OthersKnow
  <1>10. ASSUME NEW p \in Req, RevokeRead(p) PROVE FamilyKnown'
    <2>1. /\ used' = used
          /\ \A q \in Req \ {p} : pc'[q] = pc[q] /\ loc'[q] = loc[q] /\ held'[q] = held[q]
          /\ pc'[p] \notin {"flag", "killTokens", "killSessions"}
      BY <1>a, <1>10 DEF RevokeRead
    <2> QED
      BY <1>c, <1>d, <2>1, OthersKnow
  <1>11. ASSUME NEW p \in Req, RevokeDelete(p) PROVE FamilyKnown'
    <2>1. /\ used' = used
          /\ \A q \in Req \ {p} : pc'[q] = pc[q] /\ loc'[q] = loc[q] /\ held'[q] = held[q]
          /\ pc'[p] \notin {"flag", "killTokens", "killSessions"}
      BY <1>a, <1>11 DEF RevokeDelete
    <2> QED
      BY <1>c, <1>d, <2>1, OthersKnow
  <1>12. ASSUME NEW p \in Req, RevokeBlock(p) PROVE FamilyKnown'
    <2>1. /\ used' = used
          /\ \A q \in Req \ {p} : pc'[q] = pc[q] /\ loc'[q] = loc[q] /\ held'[q] = held[q]
          /\ pc'[p] \notin {"flag", "killTokens", "killSessions"}
      BY <1>a, <1>12 DEF RevokeBlock
    <2> QED
      BY <1>c, <1>d, <2>1, OthersKnow
  <1>13. ASSUME NEW p \in Req, LoginCount(p) PROVE FamilyKnown'
    <2>1. /\ used' = used
          /\ \A q \in Req \ {p} : pc'[q] = pc[q] /\ loc'[q] = loc[q] /\ held'[q] = held[q]
          /\ pc'[p] \notin {"flag", "killTokens", "killSessions"}
      BY <1>a, <1>13 DEF LoginCount
    <2> QED
      BY <1>c, <1>d, <2>1, OthersKnow
  <1>14. ASSUME NEW p \in Req, LoginEvict(p) PROVE FamilyKnown'
    <2>1. /\ used' = used
          /\ \A q \in Req \ {p} : pc'[q] = pc[q] /\ loc'[q] = loc[q] /\ held'[q] = held[q]
          /\ pc'[p] \notin {"flag", "killTokens", "killSessions"}
      BY <1>a, <1>14 DEF LoginEvict
    <2> QED
      BY <1>c, <1>d, <2>1, OthersKnow
  <1>15. ASSUME NEW p \in Req, LoginInsert(p) PROVE FamilyKnown'
    <2>1. /\ used' = used
          /\ \A q \in Req \ {p} : pc'[q] = pc[q] /\ loc'[q] = loc[q] /\ held'[q] = held[q]
          /\ pc'[p] \notin {"flag", "killTokens", "killSessions"}
      BY <1>a, <1>15 DEF LoginInsert
    <2> QED
      BY <1>c, <1>d, <2>1, OthersKnow
  <1>16. ASSUME NEW p \in Req, Abort(p) PROVE FamilyKnown'
    <2>1. /\ used' = used
          /\ \A q \in Req \ {p} : pc'[q] = pc[q] /\ loc'[q] = loc[q] /\ held'[q] = held[q]
          /\ pc'[p] \notin {"flag", "killTokens", "killSessions"}
      BY <1>a, <1>16 DEF Abort
    <2> QED
      BY <1>c, <1>d, <2>1, OthersKnow
  <1>17. ASSUME NEW c \in Cred, Lapse(c) PROVE FamilyKnown'
    <2>1. UNCHANGED <<tok, home, lastCred, pc, loc, held>> /\ used' = [used EXCEPT ![c] = 0]
      BY <1>17 DEF Lapse
    <2> QED
      BY <1>a, <1>b, <2>1 DEF FamilyKnown, InFamily
  <1>18. ASSUME NEW c \in Cred, Expire(c) PROVE FamilyKnown'
    <2>1. UNCHANGED <<tok, home, lastCred, pc, loc, held, used>>
      BY <1>18 DEF Expire
    <2> QED
      BY <1>b, <2>1 DEF FamilyKnown, InFamily
  <1>19. ASSUME NEW c \in Cred, LastSecond(c) PROVE FamilyKnown'
    <2>1. UNCHANGED <<tok, home, lastCred, pc, loc, held, used>>
      BY <1>19 DEF LastSecond
    <2> QED
      BY <1>b, <2>1 DEF FamilyKnown, InFamily
  <1>20. CASE UNCHANGED vars
    BY <1>20, <1>a, <1>b, <1>c DEF vars, FamilyKnown, InFamily
  <1> QED
    BY <1>1, <1>2, <1>3, <1>4, <1>5, <1>6, <1>7, <1>8, <1>9, <1>10, <1>11, <1>12,
       <1>13, <1>14, <1>15, <1>16, <1>17, <1>18, <1>19, <1>20 DEF Next

\* A mark is set before the credential is redeemed, and lapses only at its end.
LEMMA MarkedFirstStep ==
    TableInv /\ FamilyKnown /\ MarkedFirst /\ [Next]_vars => MarkedFirst'
  <1> SUFFICES ASSUME TableInv /\ FamilyKnown /\ MarkedFirst, [Next]_vars
               PROVE  MarkedFirst'
    OBVIOUS
  <1>a. /\ pc \in [Req -> Step] /\ loc \in [Req -> Local] /\ held \in [Req -> SUBSET Row]
        /\ tok \in [Row -> RowRec] /\ home \in [Cred -> 0..MaxLogin]
        /\ used \in [Cred -> 0..MaxCred]
        /\ lastCred \in 0..MaxCred /\ lastRow \in 0..MaxLogin
        /\ MaxCred \in Nat /\ MaxLogin \in Nat
    BY ConstantsAssumption DEF TableInv, TypeOK
  <1>b. \A d, e \in Cred : parent[d] = e => Spent(e)
    BY DEF Spent
  <1> USE DEF Goto, Leave
  <1>1. ASSUME NEW p \in Req, NEW c \in Cred, RefreshConsult(p, c) PROVE MarkedFirst'
    BY <1>1, <1>a DEF RefreshConsult, MarkedFirst, Spent, Local
  <1>2. ASSUME NEW p \in Req, NEW c \in Cred, RevokeFind(p, c) PROVE MarkedFirst'
    BY <1>2, <1>a DEF RevokeFind, MarkedFirst, Spent, Local
  <1>3. ASSUME NEW p \in Req, NEW k \in Grant, LoginRead(p, k) PROVE MarkedFirst'
    BY <1>3, <1>a DEF LoginRead, MarkedFirst, Spent, Local
  <1>4. ASSUME NEW p \in Req, KillTokens(p) PROVE MarkedFirst'
    BY <1>4, <1>a DEF KillTokens, MarkedFirst, Spent, Local
  <1>5. ASSUME NEW p \in Req, KillSessions(p) PROVE MarkedFirst'
    BY <1>5, <1>a DEF KillSessions, MarkedFirst, Spent, Local
  <1>6. ASSUME NEW p \in Req, RefreshFind(p) PROVE MarkedFirst'
    BY <1>6, <1>a DEF RefreshFind, MarkedFirst, Spent, Local
  <1>7. ASSUME NEW p \in Req, RefreshFlag(p) PROVE MarkedFirst'
    <2>1. loc[p].family # 0
      BY <1>7 DEF RefreshFlag, FamilyKnown
    <2>2. /\ UNCHANGED <<parent, ending, loc>> /\ pc' = [pc EXCEPT ![p] = "reread"]
          /\ used' = [used EXCEPT ![loc[p].cred] = loc[p].family]
      BY <1>7 DEF RefreshFlag
    <2> QED
      BY <1>a, <2>1, <2>2 DEF MarkedFirst, Spent
  <1>8. ASSUME NEW p \in Req, RefreshReread(p) PROVE MarkedFirst'
    BY <1>8, <1>a DEF RefreshReread, MarkedFirst, Spent, Local
  <1>9. ASSUME NEW p \in Req, RefreshRotate(p) PROVE MarkedFirst'
    BY <1>9, <1>a DEF RefreshRotate, MarkedFirst, Spent, Local
  <1>10. ASSUME NEW p \in Req, RevokeRead(p) PROVE MarkedFirst'
    BY <1>10, <1>a DEF RevokeRead, MarkedFirst, Spent, Local
  <1>11. ASSUME NEW p \in Req, RevokeDelete(p) PROVE MarkedFirst'
    BY <1>11, <1>a DEF RevokeDelete, MarkedFirst, Spent, Local
  <1>12. ASSUME NEW p \in Req, RevokeBlock(p) PROVE MarkedFirst'
    BY <1>12, <1>a DEF RevokeBlock, MarkedFirst, Spent, Local
  <1>13. ASSUME NEW p \in Req, LoginCount(p) PROVE MarkedFirst'
    BY <1>13, <1>a DEF LoginCount, MarkedFirst, Spent, Local
  <1>14. ASSUME NEW p \in Req, LoginEvict(p) PROVE MarkedFirst'
    BY <1>14, <1>a DEF LoginEvict, MarkedFirst, Spent, Local
  <1>15. ASSUME NEW p \in Req, LoginInsert(p) PROVE MarkedFirst'
    BY <1>15, <1>a DEF LoginInsert, MarkedFirst, Spent, Local
  <1>16. ASSUME NEW p \in Req, Abort(p) PROVE MarkedFirst'
    BY <1>16, <1>a DEF Abort, MarkedFirst, Spent, Local
  <1>17. ASSUME NEW c \in Cred, Lapse(c) PROVE MarkedFirst'
    BY <1>17, <1>a DEF Lapse, MarkedFirst, Spent, Local
  <1>18. ASSUME NEW c \in Cred, Expire(c) PROVE MarkedFirst'
    BY <1>18, <1>a DEF Expire, MarkedFirst, Spent, Local
  <1>19. ASSUME NEW c \in Cred, LastSecond(c) PROVE MarkedFirst'
    BY <1>19, <1>a DEF LastSecond, MarkedFirst, Spent, Local
  <1>20. CASE UNCHANGED vars
    BY <1>20, <1>a DEF vars, MarkedFirst, Spent, Local
  <1> QED
    BY <1>1, <1>2, <1>3, <1>4, <1>5, <1>6, <1>7, <1>8, <1>9, <1>10, <1>11, <1>12,
       <1>13, <1>14, <1>15, <1>16, <1>17, <1>18, <1>19, <1>20 DEF Next

\* Who is dead stays so: its row only dies.
LEMMA DeadStayDeadStep ==
    TableInv /\ WrittenToRows /\ RowsFresh /\ FamilyKnown /\ DeadStayDead /\ [Next]_vars
    => DeadStayDead'
  <1> SUFFICES ASSUME TableInv /\ WrittenToRows /\ RowsFresh /\ FamilyKnown
                      /\ DeadStayDead, [Next]_vars
               PROVE  DeadStayDead'
    OBVIOUS
  <1>a. /\ pc \in [Req -> Step] /\ loc \in [Req -> Local] /\ held \in [Req -> SUBSET Row]
        /\ tok \in [Row -> RowRec] /\ home \in [Cred -> 0..MaxLogin]
        /\ used \in [Cred -> 0..MaxCred]
        /\ lastCred \in 0..MaxCred /\ lastRow \in 0..MaxLogin
        /\ MaxCred \in Nat /\ MaxLogin \in Nat
    BY ConstantsAssumption DEF TableInv, TypeOK
  <1>b. /\ RowsDie /\ \A c \in 1..lastCred : c \in Cred /\ home[c] \in Row
        /\ stillborn \cup reported \subseteq 1..lastCred
    BY RowsDieStep, HomeIsRow DEF WrittenToRows
  <1>c. \A c \in stillborn \cup reported : ~ Live(tok', home'[c])
    BY <1>b DEF RowsDie, DeadStayDead
  <1> USE DEF Goto, Leave
  <1>1. ASSUME NEW p \in Req, NEW c \in Cred, RefreshConsult(p, c) PROVE DeadStayDead'
    BY <1>1, <1>a, <1>b, <1>c DEF RefreshConsult, DeadStayDead, Local
  <1>2. ASSUME NEW p \in Req, NEW c \in Cred, RevokeFind(p, c) PROVE DeadStayDead'
    BY <1>2, <1>a, <1>b, <1>c DEF RevokeFind, DeadStayDead, Local
  <1>3. ASSUME NEW p \in Req, NEW k \in Grant, LoginRead(p, k) PROVE DeadStayDead'
    BY <1>3, <1>a, <1>b, <1>c DEF LoginRead, DeadStayDead, Local
  <1>4. ASSUME NEW p \in Req, KillTokens(p) PROVE DeadStayDead'
    BY <1>4, <1>a, <1>b, <1>c DEF KillTokens, DeadStayDead, Local
  <1>5. ASSUME NEW p \in Req, KillSessions(p) PROVE DeadStayDead'
    <2>1. PICK c : c = loc[p].cred
      OBVIOUS
    <2>2. c \in 1..lastCred /\ home[c] \in Row /\ home'[c] = home[c]
      BY <1>a, <1>b, <2>1, <1>5
      DEF KillSessions, WrittenToRows, TableInv, CredInHand, Cred, RowsDie
    <2>3. /\ Stored(tok, home[c]) => home[c] \in held[p]
          /\ tok'[home[c]] = IF home[c] \in held[p] THEN [tok[home[c]] EXCEPT !.st = "soft"]
                                                    ELSE tok[home[c]]
      BY <2>1, <2>2, <1>5 DEF KillSessions, FamilyKnown
    <2>4. home[c] \in held[p] => Stored(tok, home[c])
      BY DEF TableInv, HeldStored
    <2>5. ~ Live(tok', home'[c])
      BY <1>a, <2>2, <2>3, <2>4, StoredRow DEF Live, Stored
    <2>6. /\ stillborn' = stillborn /\ reported' = reported \cup {c}
          /\ pc' = [pc EXCEPT ![p] = "idle"] /\ loc' = [loc EXCEPT ![p] = NoLocal]
      BY <2>1, <1>5 DEF KillSessions
    <2> QED
      BY <1>a, <1>c, <2>5, <2>6 DEF DeadStayDead
  <1>6. ASSUME NEW p \in Req, RefreshFind(p) PROVE DeadStayDead'
    BY <1>6, <1>a, <1>b, <1>c DEF RefreshFind, DeadStayDead, Local
  <1>7. ASSUME NEW p \in Req, RefreshFlag(p) PROVE DeadStayDead'
    BY <1>7, <1>a, <1>b, <1>c DEF RefreshFlag, DeadStayDead, Local
  <1>8. ASSUME NEW p \in Req, RefreshReread(p) PROVE DeadStayDead'
    <2>1. PICK r \in Row : /\ Live(tok, r) /\ tok[r].cred = loc[p].cred
                           /\ loc' = [loc EXCEPT ![p].row = r]
      BY <1>8 DEF RefreshReread, LiveWith
    <2>2. home[loc[p].cred] = r
      BY <2>1 DEF TableInv, AtHome, Live, Stored
    <2>3. loc[p].cred \notin stillborn
      BY <2>1, <2>2 DEF DeadStayDead
    <2>4. /\ UNCHANGED <<stillborn, reported, home, tok>>
          /\ \A q \in Req : loc'[q].cred = loc[q].cred
          /\ \A q \in Req \ {p} : pc'[q] = pc[q]
      BY <1>a, <2>1, <1>8 DEF RefreshReread, Local
    <2> QED
      BY <1>c, <2>3, <2>4 DEF DeadStayDead
  <1>9. ASSUME NEW p \in Req, RefreshRotate(p) PROVE DeadStayDead'
    <2>1. PICK new : new = lastCred + 1
      OBVIOUS
    <2>2. PICK r : r = loc[p].row
      OBVIOUS
    <2>a. r \in Row
      BY <2>2, <1>9, RotateRow
    <2>b. new \in Cred
      BY <1>a, <2>1, <1>9 DEF RefreshRotate, Cred
    <2>3. new \in Cred /\ r \in Row
      BY <2>a, <2>b
    <2>4. /\ home' = [home EXCEPT ![new] = r] /\ tok' = [tok EXCEPT ![r].cred = new]
          /\ stillborn' = (IF Live(tok, r) THEN stillborn ELSE stillborn \cup {new})
          /\ reported' = reported
          /\ pc' = [pc EXCEPT ![p] = "idle"] /\ loc' = [loc EXCEPT ![p] = NoLocal]
      BY <2>1, <2>2, <1>9 DEF RefreshRotate
    <2>5. ~ Live(tok, r) => ~ Live(tok', home'[new])
      BY <1>a, <2>3, <2>4 DEF Live, RowRec, NoRow
    <2>6. \A c \in stillborn' \cup reported' : ~ Live(tok', home'[c])
      BY <1>c, <2>4, <2>5
    <2>7. \A q \in Req : pc[q] = "rotate" => loc[q].cred # new
      BY <1>a, <2>1 DEF WrittenToRows, Local
    <2> QED
      BY <1>a, <2>4, <2>6, <2>7 DEF DeadStayDead
  <1>10. ASSUME NEW p \in Req, RevokeRead(p) PROVE DeadStayDead'
    BY <1>10, <1>a, <1>b, <1>c DEF RevokeRead, DeadStayDead, Local
  <1>11. ASSUME NEW p \in Req, RevokeDelete(p) PROVE DeadStayDead'
    BY <1>11, <1>a, <1>b, <1>c DEF RevokeDelete, DeadStayDead, Local
  <1>12. ASSUME NEW p \in Req, RevokeBlock(p) PROVE DeadStayDead'
    BY <1>12, <1>a, <1>b, <1>c DEF RevokeBlock, DeadStayDead, Local
  <1>13. ASSUME NEW p \in Req, LoginCount(p) PROVE DeadStayDead'
    BY <1>13, <1>a, <1>b, <1>c DEF LoginCount, DeadStayDead, Local
  <1>14. ASSUME NEW p \in Req, LoginEvict(p) PROVE DeadStayDead'
    BY <1>14, <1>a, <1>b, <1>c DEF LoginEvict, DeadStayDead, Local
  <1>15. ASSUME NEW p \in Req, LoginInsert(p) PROVE DeadStayDead'
    BY <1>15, <1>a, <1>b, <1>c DEF LoginInsert, DeadStayDead, Local
  <1>16. ASSUME NEW p \in Req, Abort(p) PROVE DeadStayDead'
    BY <1>16, <1>a, <1>b, <1>c DEF Abort, DeadStayDead, Local
  <1>17. ASSUME NEW c \in Cred, Lapse(c) PROVE DeadStayDead'
    BY <1>17, <1>a, <1>b, <1>c DEF Lapse, DeadStayDead, Local
  <1>18. ASSUME NEW c \in Cred, Expire(c) PROVE DeadStayDead'
    BY <1>18, <1>a, <1>b, <1>c DEF Expire, DeadStayDead, Local
  <1>19. ASSUME NEW c \in Cred, LastSecond(c) PROVE DeadStayDead'
    BY <1>19, <1>a, <1>b, <1>c DEF LastSecond, DeadStayDead, Local
  <1>20. CASE UNCHANGED vars
    BY <1>20, <1>a, <1>b, <1>c DEF vars, DeadStayDead, Local
  <1> QED
    BY <1>1, <1>2, <1>3, <1>4, <1>5, <1>6, <1>7, <1>8, <1>9, <1>10, <1>11, <1>12,
       <1>13, <1>14, <1>15, <1>16, <1>17, <1>18, <1>19, <1>20 DEF Next

\* A victim is a row that was written.
LEMMA VictimsChosenStep ==
    TableInv /\ WrittenToRows /\ RowsFresh /\ VictimsChosen /\ [Next]_vars => VictimsChosen'
  <1> SUFFICES ASSUME TableInv /\ WrittenToRows /\ RowsFresh /\ VictimsChosen, [Next]_vars
               PROVE  VictimsChosen'
    OBVIOUS
  <1>a. /\ pc \in [Req -> Step] /\ loc \in [Req -> Local] /\ held \in [Req -> SUBSET Row]
        /\ tok \in [Row -> RowRec] /\ home \in [Cred -> 0..MaxLogin]
        /\ used \in [Cred -> 0..MaxCred]
        /\ lastCred \in 0..MaxCred /\ lastRow \in 0..MaxLogin
        /\ MaxCred \in Nat /\ MaxLogin \in Nat
    BY ConstantsAssumption DEF TableInv, TypeOK
  <1>c. RowsDie
    BY RowsDieStep
  <1>b. \A c \in Cred : home[c] # 0 => home'[c] = home[c]
    BY <1>a, <1>c DEF RowsDie, WrittenToRows, Cred
  <1> USE DEF Goto, Leave
  <1>1. ASSUME NEW p \in Req, NEW c \in Cred, RefreshConsult(p, c) PROVE VictimsChosen'
    BY <1>1, <1>a, <1>b DEF RefreshConsult, VictimsChosen, Local, NoLocal
  <1>2. ASSUME NEW p \in Req, NEW c \in Cred, RevokeFind(p, c) PROVE VictimsChosen'
    BY <1>2, <1>a, <1>b DEF RevokeFind, VictimsChosen, Local, NoLocal
  <1>3. ASSUME NEW p \in Req, NEW k \in Grant, LoginRead(p, k) PROVE VictimsChosen'
    BY <1>3, <1>a, <1>b DEF LoginRead, VictimsChosen, Local, NoLocal
  <1>4. ASSUME NEW p \in Req, KillTokens(p) PROVE VictimsChosen'
    BY <1>4, <1>a, <1>b DEF KillTokens, VictimsChosen, Local, NoLocal
  <1>5. ASSUME NEW p \in Req, KillSessions(p) PROVE VictimsChosen'
    BY <1>5, <1>a, <1>b DEF KillSessions, VictimsChosen, Local, NoLocal
  <1>6. ASSUME NEW p \in Req, RefreshFind(p) PROVE VictimsChosen'
    BY <1>6, <1>a, <1>b DEF RefreshFind, VictimsChosen, Local, NoLocal
  <1>7. ASSUME NEW p \in Req, RefreshFlag(p) PROVE VictimsChosen'
    BY <1>7, <1>a, <1>b DEF RefreshFlag, VictimsChosen, Local, NoLocal
  <1>8. ASSUME NEW p \in Req, RefreshReread(p) PROVE VictimsChosen'
    BY <1>8, <1>a, <1>b DEF RefreshReread, VictimsChosen, Local, NoLocal
  <1>9. ASSUME NEW p \in Req, RefreshRotate(p) PROVE VictimsChosen'
    <2>1. /\ pc' = [pc EXCEPT ![p] = "idle"] /\ loc' = [loc EXCEPT ![p] = NoLocal]
      BY <1>9 DEF RefreshRotate
    <2> QED
      BY <1>a, <1>b, <2>1 DEF VictimsChosen, NoLocal
  <1>10. ASSUME NEW p \in Req, RevokeRead(p) PROVE VictimsChosen'
    BY <1>10, <1>a, <1>b DEF RevokeRead, VictimsChosen, Local, NoLocal
  <1>11. ASSUME NEW p \in Req, RevokeDelete(p) PROVE VictimsChosen'
    BY <1>11, <1>a, <1>b DEF RevokeDelete, VictimsChosen, Local, NoLocal
  <1>12. ASSUME NEW p \in Req, RevokeBlock(p) PROVE VictimsChosen'
    BY <1>12, <1>a, <1>b DEF RevokeBlock, VictimsChosen, Local, NoLocal
  <1>13. ASSUME NEW p \in Req, LoginCount(p) PROVE VictimsChosen'
    BY <1>13, <1>a, <1>b DEF LoginCount, VictimsChosen, Local, NoLocal
  <1>14. ASSUME NEW p \in Req, LoginEvict(p) PROVE VictimsChosen'
    <2>1. PICK r \in Row : /\ Live(sess, r) /\ loc' = [loc EXCEPT ![p].victim = r]
                           /\ UNCHANGED home /\ pc' = [pc EXCEPT ![p] = "insert"]
      BY <1>14 DEF LoginEvict, EvictableSessions
    <2>2. Stored(tok, r)
      BY <2>1 DEF TableInv, SessionPairsToken, Live, Stored
    <2>3. tok[r].cred \in Cred /\ home[tok[r].cred] = r
      BY <1>a, <2>2, StoredRow DEF TableInv, AtHome
    <2> QED
      BY <1>a, <2>1, <2>3 DEF VictimsChosen, Local
  <1>15. ASSUME NEW p \in Req, LoginInsert(p) PROVE VictimsChosen'
    <2>1. /\ pc' = [pc EXCEPT ![p] = "idle"] /\ loc' = [loc EXCEPT ![p] = NoLocal]
      BY <1>15 DEF LoginInsert
    <2> QED
      BY <1>a, <1>b, <2>1 DEF VictimsChosen, NoLocal
  <1>16. ASSUME NEW p \in Req, Abort(p) PROVE VictimsChosen'
    BY <1>16, <1>a, <1>b DEF Abort, VictimsChosen, Local, NoLocal
  <1>17. ASSUME NEW c \in Cred, Lapse(c) PROVE VictimsChosen'
    BY <1>17, <1>a, <1>b DEF Lapse, VictimsChosen, Local, NoLocal
  <1>18. ASSUME NEW c \in Cred, Expire(c) PROVE VictimsChosen'
    BY <1>18, <1>a, <1>b DEF Expire, VictimsChosen, Local, NoLocal
  <1>19. ASSUME NEW c \in Cred, LastSecond(c) PROVE VictimsChosen'
    BY <1>19, <1>a, <1>b DEF LastSecond, VictimsChosen, Local, NoLocal
  <1>20. CASE UNCHANGED vars
    BY <1>20, <1>a, <1>b DEF vars, VictimsChosen, Local, NoLocal
  <1> QED
    BY <1>1, <1>2, <1>3, <1>4, <1>5, <1>6, <1>7, <1>8, <1>9, <1>10, <1>11, <1>12,
       <1>13, <1>14, <1>15, <1>16, <1>17, <1>18, <1>19, <1>20 DEF Next

-----------------------------------------------------------------------------
(* How many sessions there can be: CapInv. *)

Places(k) == EvictableSessions(k) \cup Victims(k)

\* Rows and requests are finitely many, and so is every set of them.
LEMMA FiniteParts ==
    /\ \A S \in SUBSET Row : IsFiniteSet(S) /\ Cardinality(S) \in Nat
    /\ \A S \in SUBSET Req : /\ IsFiniteSet(S) /\ Cardinality(S) \in Nat
                             /\ Cardinality(S) <= Cardinality(Req)
    /\ Cardinality(Req) \in Nat
    /\ \A k : Places(k) \in SUBSET Row /\ EvictableSessions(k) \in SUBSET Row
              /\ Victims(k) \in SUBSET Row /\ CountedSessions(k) \in SUBSET Row
              /\ Adding(k) \in SUBSET Req /\ Replacing(k) \in SUBSET Req
              /\ Places(k)' \in SUBSET Row /\ Adding(k)' \in SUBSET Req
  <1>1. IsFiniteSet(Row)
    BY ConstantsAssumption, FS_Interval DEF Row
  <1>2. IsFiniteSet(Req)
    BY ConstantsAssumption
  <1>3. \A S \in SUBSET Row : IsFiniteSet(S) /\ Cardinality(S) \in Nat
    BY <1>1, FS_Subset, FS_CardinalityType
  <1>4. \A S \in SUBSET Req : /\ IsFiniteSet(S) /\ Cardinality(S) \in Nat
                              /\ Cardinality(S) <= Cardinality(Req)
    BY <1>2, FS_Subset, FS_CardinalityType
  <1>5. Cardinality(Req) \in Nat
    BY <1>2, FS_CardinalityType
  <1>6. \A k : Places(k) \in SUBSET Row /\ EvictableSessions(k) \in SUBSET Row
               /\ Victims(k) \in SUBSET Row /\ CountedSessions(k) \in SUBSET Row
               /\ Adding(k) \in SUBSET Req /\ Replacing(k) \in SUBSET Req
               /\ Places(k)' \in SUBSET Row /\ Adding(k)' \in SUBSET Req
    BY DEF Places, EvictableSessions, Victims, CountedSessions, Adding, Replacing
  <1> QED
    BY <1>3, <1>4, <1>5, <1>6

\* Fewer places, and fewer logins that will add one.
LEMMA NoMorePlaces ==
    ASSUME PlacesBound, NEW k \in Grant,
           Places(k)' \subseteq Places(k), Adding(k)' \subseteq Adding(k)
    PROVE  Cardinality(Places(k)') + Cardinality(Adding(k)')
               <= SessionCap - 1 + Cardinality(Req)
  <1>1. /\ Places(k) \in SUBSET Row /\ Adding(k) \in SUBSET Req
        /\ Places(k)' \in SUBSET Row /\ Adding(k)' \in SUBSET Req
    BY FiniteParts
  <1>2. /\ Cardinality(Places(k)') <= Cardinality(Places(k))
        /\ Cardinality(Adding(k)') <= Cardinality(Adding(k))
    BY <1>1, FiniteParts, FS_Subset
  <1>3. /\ Cardinality(Places(k)) \in Nat /\ Cardinality(Adding(k)) \in Nat
        /\ Cardinality(Places(k)') \in Nat /\ Cardinality(Adding(k)') \in Nat
        /\ Cardinality(Req) \in Nat /\ SessionCap \in Nat
    BY <1>1, FiniteParts, ConstantsAssumption
  <1>4. Cardinality(Places(k)) + Cardinality(Adding(k)) <= SessionCap - 1 + Cardinality(Req)
    BY DEF PlacesBound, Places
  <1> QED
    BY <1>2, <1>3, <1>4

\* Sessions are not added, only deleted.
SessionsDie ==
    \A r \in Row :
       /\ Stored(sess', r) => Stored(sess, r)
       /\ Live(sess', r) => Live(sess, r) /\ sess'[r].consent = sess[r].consent

\* A step that adds no session, and takes no request to the insertion of one.
LEMMA QuietPlaces ==
    ASSUME PlacesBound, SessionsDie,
           \A q \in Req : pc'[q] = "insert" => pc[q] = "insert" /\ loc'[q] = loc[q]
    PROVE  PlacesBound'
  <1> SUFFICES ASSUME NEW k \in Grant
               PROVE  Cardinality(Places(k)') + Cardinality(Adding(k)')
                          <= SessionCap - 1 + Cardinality(Req)
    BY DEF PlacesBound, Places
  <1>1. EvictableSessions(k)' \subseteq EvictableSessions(k)
    BY DEF EvictableSessions, SessionsDie
  <1>2. Replacing(k)' \subseteq Replacing(k) /\ Adding(k)' \subseteq Adding(k)
        /\ \A q \in Replacing(k)' : loc'[q] = loc[q]
    BY DEF Replacing, Adding
  <1>3. Victims(k)' \subseteq Victims(k)
    BY <1>2 DEF Victims, SessionsDie
  <1> QED
    BY <1>1, <1>2, <1>3, NoMorePlaces DEF Places

\* Each of them will delete one victim at most.
LEMMA VictimsFit ==
    ASSUME NEW k
    PROVE  Cardinality(Victims(k)) <= Cardinality(Replacing(k))
  <1> DEFINE f == [r \in Victims(k) |-> CHOOSE p \in Replacing(k) : loc[p].victim = r]
  <1>1. \A r \in Victims(k) : f[r] \in Replacing(k) /\ loc[f[r]].victim = r
    BY DEF Victims
  <1>2. f \in Injection(Victims(k), Replacing(k))
    <2>1. f \in [Victims(k) -> Replacing(k)]
      BY <1>1
    <2>2. \A a, b \in Victims(k) : f[a] = f[b] => a = b
      BY <1>1
    <2> QED
      BY <2>1, <2>2 DEF Injection, IsInjective
  <1>3. IsFiniteSet(Replacing(k))
    BY FiniteParts
  <1> QED
    BY <1>2, <1>3, FS_Injection

\* The count is read: while it is below the cap there is room for the logins in
\* progress.
LEMMA CountFits ==
    ASSUME TableInv, VictimsChosen, PlacesBound, NEW p \in Req, LoginCount(p)
    PROVE  PlacesBound'
  <1>1. /\ sess' = sess /\ pc[p] = "count"
        /\ pc'[p] = (IF AtCap(loc[p].consent) THEN "evict" ELSE "insert")
        /\ loc'[p].victim = loc[p].victim /\ loc'[p].consent = loc[p].consent
        /\ \A q \in Req \ {p} : pc'[q] = pc[q] /\ loc'[q] = loc[q]
    BY DEF LoginCount, Goto, TableInv, TypeOK, Local
  <1>2. loc'[p].victim = 0
    BY <1>1 DEF VictimsChosen
  <1>3. SessionsDie
    BY <1>1 DEF SessionsDie, Live, Stored
  <1>4. CASE AtCap(loc[p].consent)
    BY <1>1, <1>3, <1>4, QuietPlaces
  <1>5. CASE ~ AtCap(loc[p].consent)
    <2> SUFFICES ASSUME NEW k \in Grant
                 PROVE  Cardinality(Places(k)') + Cardinality(Adding(k)')
                            <= SessionCap - 1 + Cardinality(Req)
      BY DEF PlacesBound, Places
    <2>1. /\ \A q \in Req : q \in Replacing(k)' <=> q \in Replacing(k)
          /\ \A q \in Replacing(k) : q # p
      BY <1>1, <1>2 DEF Replacing
    <2>2. Replacing(k)' = Replacing(k)
      BY <2>1 DEF Replacing
    <2>3. Places(k)' = Places(k)
      <3>1. EvictableSessions(k)' = EvictableSessions(k)
        BY <1>1 DEF EvictableSessions, Live
      <3>2. \A q \in Replacing(k) : loc'[q] = loc[q]
        BY <1>1, <2>1 DEF Replacing
      <3>3. Victims(k)' = Victims(k)
        BY <1>1, <2>2, <3>2 DEF Victims, Stored
      <3> QED
        BY <3>1, <3>3 DEF Places
    <2>4. CASE k # loc[p].consent
      <3>1. Adding(k)' \subseteq Adding(k)
        BY <1>1, <2>4 DEF Adding
      <3> QED
        BY <2>3, <3>1, NoMorePlaces
    <2>5. CASE k = loc[p].consent
      <3>1. EvictableSessions(k) \subseteq CountedSessions(k)
        BY DEF EvictableSessions, CountedSessions
      <3>2. /\ Cardinality(CountedSessions(k)) \in Nat /\ SessionCap \in Nat
            /\ ~ (Cardinality(CountedSessions(k)) >= SessionCap)
        BY <1>5, <2>5, FiniteParts, ConstantsAssumption DEF AtCap
      <3>3. Cardinality(EvictableSessions(k)) <= Cardinality(CountedSessions(k))
        BY <3>1, FiniteParts, FS_Subset
      <3>4. Cardinality(Places(k)) <= Cardinality(EvictableSessions(k)) + Cardinality(Victims(k))
        <4>1. /\ IsFiniteSet(EvictableSessions(k)) /\ IsFiniteSet(Victims(k))
              /\ EvictableSessions(k) \cap Victims(k) \in SUBSET Row
          BY FiniteParts
        <4>2. Cardinality(Places(k)) = Cardinality(EvictableSessions(k)) + Cardinality(Victims(k))
                                  - Cardinality(EvictableSessions(k) \cap Victims(k))
          BY <4>1, FS_Union DEF Places
        <4>3. /\ Cardinality(EvictableSessions(k) \cap Victims(k)) \in Nat
              /\ Cardinality(EvictableSessions(k)) \in Nat /\ Cardinality(Victims(k)) \in Nat
          BY <4>1, FiniteParts
        <4> QED
          BY <4>2, <4>3
      <3>5. Cardinality(Adding(k)') + Cardinality(Replacing(k)) <= Cardinality(Req)
        <4>1. Adding(k)' \cap Replacing(k) = {}
          BY <1>1, <1>2, <2>1 DEF Adding, Replacing
        <4>2. Adding(k)' \in SUBSET Req /\ Replacing(k) \in SUBSET Req
          BY FiniteParts
        <4>3. IsFiniteSet(Adding(k)') /\ IsFiniteSet(Replacing(k))
              /\ Adding(k)' \cup Replacing(k) \in SUBSET Req
          BY <4>2, FiniteParts
        <4>4. Cardinality(Adding(k)' \cup Replacing(k))
                 = Cardinality(Adding(k)') + Cardinality(Replacing(k)) - Cardinality({})
          BY <4>1, <4>3, FS_Union
        <4>5. Cardinality({}) = 0 /\ Cardinality(Adding(k)') \in Nat
              /\ Cardinality(Replacing(k)) \in Nat
              /\ Cardinality(Adding(k)' \cup Replacing(k)) <= Cardinality(Req)
          BY <4>2, <4>3, FiniteParts, FS_EmptySet
        <4> QED
          BY <4>4, <4>5
      <3>6. Cardinality(Victims(k)) <= Cardinality(Replacing(k))
        BY VictimsFit
      <3>7. /\ Cardinality(Places(k)) \in Nat /\ Cardinality(EvictableSessions(k)) \in Nat
            /\ Cardinality(Victims(k)) \in Nat /\ Cardinality(Replacing(k)) \in Nat
            /\ Cardinality(Adding(k)') \in Nat /\ Cardinality(Req) \in Nat
        BY FiniteParts
      <3> QED
        BY <2>3, <3>2, <3>3, <3>4, <3>5, <3>6, <3>7
    <2> QED
      BY <2>4, <2>5
  <1> QED
    BY <1>4, <1>5

\* The victim is a session that counts.
LEMMA EvictFits ==
    ASSUME TableInv, PlacesBound, NEW p \in Req, LoginEvict(p)
    PROVE  PlacesBound'
  <1>1. PICK v \in EvictableSessions(loc[p].consent) :
           loc' = [loc EXCEPT ![p].victim = v]
    BY DEF LoginEvict
  <1>2. v \in Row /\ v # 0
    BY <1>1 DEF EvictableSessions, Row
  <1>3. /\ sess' = sess /\ pc[p] = "evict" /\ pc'[p] = "insert"
        /\ loc'[p].victim = v /\ loc'[p].consent = loc[p].consent
        /\ \A q \in Req \ {p} : pc'[q] = pc[q] /\ loc'[q] = loc[q]
    BY <1>1, <1>2 DEF LoginEvict, Goto, TableInv, TypeOK, Local
  <1> SUFFICES ASSUME NEW k \in Grant
               PROVE  Cardinality(Places(k)') + Cardinality(Adding(k)')
                          <= SessionCap - 1 + Cardinality(Req)
    BY DEF PlacesBound, Places
  <1>4. Adding(k)' \subseteq Adding(k)
    BY <1>2, <1>3 DEF Adding
  <1>5. EvictableSessions(k)' = EvictableSessions(k)
    BY <1>3 DEF EvictableSessions, Live
  <1>6. ASSUME NEW r \in Victims(k)' PROVE r \in Places(k)
    <2>1. PICK q \in Req : /\ q \in Replacing(k)' /\ loc'[q].victim = r
                           /\ r \in Row /\ Stored(sess, r)
      BY <1>3 DEF Victims, Stored, Replacing
    <2>2. CASE q = p
      <3>1. r = v /\ loc[p].consent = k
        BY <1>3, <2>1, <2>2 DEF Replacing
      <3> QED
        BY <1>1, <3>1 DEF Places
    <2>3. CASE q # p
      <3>1. q \in Replacing(k) /\ loc[q].victim = r
        BY <1>3, <2>1, <2>3 DEF Replacing
      <3> QED
        BY <2>1, <3>1 DEF Places, Victims
    <2> QED
      BY <2>2, <2>3
  <1>7. Places(k)' \subseteq Places(k)
    BY <1>5, <1>6 DEF Places
  <1> QED
    BY <1>4, <1>7, NoMorePlaces

\* A new session: the login was counted, or its victim, which is still stored,
\* makes room.
LEMMA InsertFits ==
    ASSUME TableInv, WrittenToRows, RowsFresh, VictimsChosen, PlacesBound,
           NEW p \in Req, LoginInsert(p)
    PROVE  PlacesBound'
  <1>1. PICK v, n, me : v = loc[p].victim /\ n = loc[p].row /\ me = loc[p].consent
    OBVIOUS
  <1>2. /\ pc[p] = "insert" /\ pc'[p] = "idle"
        /\ \A q \in Req \ {p} : pc'[q] = pc[q] /\ loc'[q] = loc[q]
        /\ v # 0 => Stored(sess, v)
    BY <1>1 DEF LoginInsert, Leave, Goto, TableInv, TypeOK
  <1>3. \A r \in Row : /\ r = n => sess'[r].consent = me
                       /\ r # n /\ r = v => sess'[r] = NoRow
                       /\ r # n /\ r # v => sess'[r] = sess[r]
    BY <1>1 DEF LoginInsert
  <1>4. \A q \in Req : loc[q].victim # 0 => loc[q].victim # n
    BY <1>1, <1>2 DEF VictimsChosen, RowsFresh
  <1> SUFFICES ASSUME NEW k \in Grant
               PROVE  Cardinality(Places(k)') + Cardinality(Adding(k)')
                          <= SessionCap - 1 + Cardinality(Req)
    BY DEF PlacesBound, Places
  <1>5. Replacing(k)' = Replacing(k) \ {p} /\ Adding(k)' = Adding(k) \ {p}
    BY <1>2 DEF Replacing, Adding
  <1>6. Victims(k)' \subseteq Victims(k) \ {v}
    <2> SUFFICES ASSUME NEW r \in Victims(k)' PROVE r \in Victims(k) /\ r # v
      OBVIOUS
    <2>1. PICK q \in Replacing(k) \ {p} : loc[q].victim = r /\ r \in Row /\ Stored(sess', r)
      BY <1>2, <1>5 DEF Victims, Replacing
    <2>2. r # n
      BY <1>4, <2>1 DEF Replacing
    <2>3. r # v
      BY <1>3, <2>1, <2>2 DEF Stored, NoRow
    <2>4. Stored(sess, r)
      BY <1>3, <2>1, <2>2, <2>3 DEF Stored
    <2> QED
      BY <2>1, <2>3, <2>4 DEF Victims
  <1>7. EvictableSessions(k)' \subseteq (EvictableSessions(k) \ {v}) \cup {n}
    BY <1>3 DEF EvictableSessions, Live, NoRow
  <1>8. CASE k # me
    <2>1. n \notin EvictableSessions(k)'
      BY <1>3, <1>8 DEF EvictableSessions
    <2>2. Places(k)' \subseteq Places(k) /\ Adding(k)' \subseteq Adding(k)
      BY <1>5, <1>6, <1>7, <2>1 DEF Places
    <2> QED
      BY <2>2, NoMorePlaces
  <1>9. CASE k = me
    <2>1. /\ Cardinality(Places(k)) + Cardinality(Adding(k))
                <= SessionCap - 1 + Cardinality(Req)
          /\ Places(k) \in SUBSET Row /\ IsFiniteSet(Places(k))
          /\ Adding(k) \in SUBSET Req /\ IsFiniteSet(Adding(k))
          /\ Cardinality(Places(k)) \in Nat /\ Cardinality(Adding(k)) \in Nat
          /\ Cardinality(Places(k)') \in Nat /\ Cardinality(Adding(k)') \in Nat
          /\ Cardinality(Req) \in Nat /\ SessionCap \in Nat
      BY FiniteParts, ConstantsAssumption DEF PlacesBound, Places
    <2>2. CASE v = 0
      <3>1. p \in Adding(k)
        BY <1>1, <1>2, <1>9, <2>2 DEF Adding
      <3>2. Cardinality(Adding(k)') = Cardinality(Adding(k)) - 1
        <4>1. Cardinality(Adding(k) \ {p}) = Cardinality(Adding(k)) - 1
          BY <2>1, <3>1, FS_RemoveElement
        <4> QED
          BY <1>5, <4>1
      <3>3. Places(k)' \subseteq Places(k) \cup {n}
        BY <1>6, <1>7 DEF Places
      <3>4. Cardinality(Places(k)') <= Cardinality(Places(k) \cup {n})
            /\ Cardinality(Places(k) \cup {n}) <= Cardinality(Places(k)) + 1
        BY <2>1, <3>3, FS_AddElement, FS_Subset
      <3>5. Cardinality(Places(k) \cup {n}) \in Nat
        BY <2>1, FS_AddElement, FS_CardinalityType
      <3> QED
        BY <2>1, <3>2, <3>4, <3>5
    <2>3. CASE v # 0
      <3>1. v \in Places(k)
        <4>1. p \in Replacing(k)
          BY <1>1, <1>2, <1>9, <2>3 DEF Replacing
        <4>2. v \in Row
          BY <1>1, <2>3 DEF TableInv, TypeOK, Local, Row
        <4> QED
          BY <1>1, <1>2, <2>3, <4>1, <4>2 DEF Places, Victims
      <3>2. Places(k)' \subseteq (Places(k) \ {v}) \cup {n}
        BY <1>6, <1>7 DEF Places
      <3>3. /\ IsFiniteSet(Places(k) \ {v})
            /\ Cardinality(Places(k) \ {v}) = Cardinality(Places(k)) - 1
        BY <2>1, <3>1, FS_RemoveElement
      <3>4. /\ IsFiniteSet((Places(k) \ {v}) \cup {n})
            /\ Cardinality((Places(k) \ {v}) \cup {n}) <= Cardinality(Places(k))
        <4>1. /\ IsFiniteSet((Places(k) \ {v}) \cup {n})
              /\ \/ Cardinality((Places(k) \ {v}) \cup {n}) = Cardinality(Places(k) \ {v})
                 \/ Cardinality((Places(k) \ {v}) \cup {n}) = Cardinality(Places(k) \ {v}) + 1
          BY <3>3, FS_AddElement
        <4> QED
          BY <2>1, <3>3, <4>1
      <3>5. Cardinality(Places(k)') <= Cardinality((Places(k) \ {v}) \cup {n})
        BY <3>2, <3>4, FS_Subset
      <3>6. Cardinality((Places(k) \ {v}) \cup {n}) \in Nat
        BY <3>4, FS_CardinalityType
      <3>7. Cardinality(Adding(k)') <= Cardinality(Adding(k))
        BY <1>5, <2>1, FS_Subset
      <3> QED
        BY <2>1, <3>4, <3>5, <3>6, <3>7
    <2> QED
      BY <2>2, <2>3
  <1> QED
    BY <1>8, <1>9

\* Every login keeps within the places there are.
LEMMA PlacesBoundStep ==
    TableInv /\ WrittenToRows /\ RowsFresh /\ VictimsChosen /\ PlacesBound
    /\ [Next]_vars
    => PlacesBound'
  <1> SUFFICES ASSUME TableInv /\ WrittenToRows /\ RowsFresh /\ VictimsChosen
                      /\ PlacesBound, [Next]_vars
               PROVE  PlacesBound'
    OBVIOUS
  <1>a. /\ pc \in [Req -> Step] /\ loc \in [Req -> Local] /\ held \in [Req -> SUBSET Row]
        /\ tok \in [Row -> RowRec] /\ home \in [Cred -> 0..MaxLogin]
        /\ used \in [Cred -> 0..MaxCred]
        /\ lastCred \in 0..MaxCred /\ lastRow \in 0..MaxLogin
        /\ MaxCred \in Nat /\ MaxLogin \in Nat
    BY ConstantsAssumption DEF TableInv, TypeOK
  <1>s. sess \in [Row -> RowRec]
    BY DEF TableInv, TypeOK
  <1> USE DEF Goto, Leave
  <1>1. ASSUME NEW p \in Req, NEW c \in Cred, RefreshConsult(p, c) PROVE PlacesBound'
    <2>1. SessionsDie
      BY <1>a, <1>s, <1>1 DEF RefreshConsult, SessionsDie, Live, Stored
    <2>2. \A q \in Req : pc'[q] = "insert" => pc[q] = "insert" /\ loc'[q] = loc[q]
      BY <1>a, <1>s, <1>1 DEF RefreshConsult
    <2> QED
      BY <2>1, <2>2, QuietPlaces
  <1>2. ASSUME NEW p \in Req, NEW c \in Cred, RevokeFind(p, c) PROVE PlacesBound'
    <2>1. SessionsDie
      BY <1>a, <1>s, <1>2 DEF RevokeFind, SessionsDie, Live, Stored
    <2>2. \A q \in Req : pc'[q] = "insert" => pc[q] = "insert" /\ loc'[q] = loc[q]
      BY <1>a, <1>s, <1>2 DEF RevokeFind
    <2> QED
      BY <2>1, <2>2, QuietPlaces
  <1>3. ASSUME NEW p \in Req, NEW k \in Grant, LoginRead(p, k) PROVE PlacesBound'
    <2>1. SessionsDie
      BY <1>a, <1>s, <1>3 DEF LoginRead, SessionsDie, Live, Stored
    <2>2. \A q \in Req : pc'[q] = "insert" => pc[q] = "insert" /\ loc'[q] = loc[q]
      BY <1>a, <1>s, <1>3 DEF LoginRead
    <2> QED
      BY <2>1, <2>2, QuietPlaces
  <1>4. ASSUME NEW p \in Req, KillTokens(p) PROVE PlacesBound'
    <2>1. SessionsDie
      BY <1>a, <1>s, <1>4 DEF KillTokens, SessionsDie, Live, Stored
    <2>2. \A q \in Req : pc'[q] = "insert" => pc[q] = "insert" /\ loc'[q] = loc[q]
      BY <1>a, <1>s, <1>4 DEF KillTokens
    <2> QED
      BY <2>1, <2>2, QuietPlaces
  <1>5. ASSUME NEW p \in Req, KillSessions(p) PROVE PlacesBound'
    <2>0. ASSUME NEW r \in Row
          PROVE  /\ Stored(sess', r) => Stored(sess, r)
                 /\ Live(sess', r) => Live(sess, r) /\ sess'[r].consent = sess[r].consent
      <3>1. PICK T : /\ \A x \in T : Stored(sess, x)
                     /\ sess' = [x \in Row |-> IF x \in T THEN [sess[x] EXCEPT !.st = "soft"]
                                                        ELSE sess[x]]
        BY <1>5 DEF KillSessions
      <3>2. CASE r \in T
        <4>1. sess'[r] = [sess[r] EXCEPT !.st = "soft"]
          BY <3>1, <3>2
        <4> QED
          BY <1>s, <3>1, <3>2, <4>1, StoredRow DEF Live, Stored
      <3>3. CASE r \notin T
        BY <3>1, <3>3 DEF Live, Stored
      <3> QED
        BY <3>2, <3>3
    <2>1. SessionsDie
      BY <2>0 DEF SessionsDie
    <2>2. \A q \in Req : pc'[q] = "insert" => pc[q] = "insert" /\ loc'[q] = loc[q]
      BY <1>a, <1>s, <1>5 DEF KillSessions
    <2> QED
      BY <2>1, <2>2, QuietPlaces
  <1>6. ASSUME NEW p \in Req, RefreshFind(p) PROVE PlacesBound'
    <2>1. SessionsDie
      BY <1>a, <1>s, <1>6 DEF RefreshFind, SessionsDie, Live, Stored
    <2>2. \A q \in Req : pc'[q] = "insert" => pc[q] = "insert" /\ loc'[q] = loc[q]
      BY <1>a, <1>s, <1>6 DEF RefreshFind
    <2> QED
      BY <2>1, <2>2, QuietPlaces
  <1>7. ASSUME NEW p \in Req, RefreshFlag(p) PROVE PlacesBound'
    <2>1. SessionsDie
      BY <1>a, <1>s, <1>7 DEF RefreshFlag, SessionsDie, Live, Stored
    <2>2. \A q \in Req : pc'[q] = "insert" => pc[q] = "insert" /\ loc'[q] = loc[q]
      BY <1>a, <1>s, <1>7 DEF RefreshFlag
    <2> QED
      BY <2>1, <2>2, QuietPlaces
  <1>8. ASSUME NEW p \in Req, RefreshReread(p) PROVE PlacesBound'
    <2>1. SessionsDie
      BY <1>a, <1>s, <1>8 DEF RefreshReread, SessionsDie, Live, Stored
    <2>2. \A q \in Req : pc'[q] = "insert" => pc[q] = "insert" /\ loc'[q] = loc[q]
      BY <1>a, <1>s, <1>8 DEF RefreshReread
    <2> QED
      BY <2>1, <2>2, QuietPlaces
  <1>9. ASSUME NEW p \in Req, RefreshRotate(p) PROVE PlacesBound'
    <2>0. ASSUME NEW r \in Row
          PROVE  /\ Stored(sess', r) => Stored(sess, r)
                 /\ Live(sess', r) => Live(sess, r) /\ sess'[r].consent = sess[r].consent
      <3>1. PICK new : new = lastCred + 1
        OBVIOUS
      <3>2. sess'[r] = IF r \in SessionsWith(loc[p].cred)
                         THEN [sess[r] EXCEPT !.cred = new] ELSE sess[r]
        BY <3>1, <1>9 DEF RefreshRotate
      <3>3. CASE r \in SessionsWith(loc[p].cred)
        <4>1. Stored(sess, r) /\ sess'[r] = [sess[r] EXCEPT !.cred = new]
          BY <3>2, <3>3 DEF SessionsWith
        <4> QED
          BY <1>s, <4>1 DEF Live, Stored, RowRec, NoRow
      <3>4. CASE r \notin SessionsWith(loc[p].cred)
        BY <3>2, <3>4 DEF Live, Stored
      <3> QED
        BY <3>3, <3>4
    <2>1. SessionsDie
      BY <2>0 DEF SessionsDie
    <2>2. \A q \in Req : pc'[q] = "insert" => pc[q] = "insert" /\ loc'[q] = loc[q]
      BY <1>a, <1>s, <1>9 DEF RefreshRotate
    <2> QED
      BY <2>1, <2>2, QuietPlaces
  <1>10. ASSUME NEW p \in Req, RevokeRead(p) PROVE PlacesBound'
    <2>1. SessionsDie
      BY <1>a, <1>s, <1>10 DEF RevokeRead, SessionsDie, Live, Stored
    <2>2. \A q \in Req : pc'[q] = "insert" => pc[q] = "insert" /\ loc'[q] = loc[q]
      BY <1>a, <1>s, <1>10 DEF RevokeRead
    <2> QED
      BY <2>1, <2>2, QuietPlaces
  <1>11. ASSUME NEW p \in Req, RevokeDelete(p) PROVE PlacesBound'
    <2>1. SessionsDie
      BY <1>a, <1>s, <1>11 DEF RevokeDelete, SessionsDie, Live, Stored, NoRow,
         SessionsWith
    <2>2. \A q \in Req : pc'[q] = "insert" => pc[q] = "insert" /\ loc'[q] = loc[q]
      BY <1>a, <1>s, <1>11 DEF RevokeDelete
    <2> QED
      BY <2>1, <2>2, QuietPlaces
  <1>12. ASSUME NEW p \in Req, RevokeBlock(p) PROVE PlacesBound'
    <2>1. SessionsDie
      BY <1>a, <1>s, <1>12 DEF RevokeBlock, SessionsDie, Live, Stored
    <2>2. \A q \in Req : pc'[q] = "insert" => pc[q] = "insert" /\ loc'[q] = loc[q]
      BY <1>a, <1>s, <1>12 DEF RevokeBlock
    <2> QED
      BY <2>1, <2>2, QuietPlaces
  <1>13. ASSUME NEW p \in Req, LoginCount(p) PROVE PlacesBound'
    BY <1>13, CountFits
  <1>14. ASSUME NEW p \in Req, LoginEvict(p) PROVE PlacesBound'
    BY <1>14, EvictFits
  <1>15. ASSUME NEW p \in Req, LoginInsert(p) PROVE PlacesBound'
    BY <1>15, InsertFits
  <1>16. ASSUME NEW p \in Req, Abort(p) PROVE PlacesBound'
    <2>1. SessionsDie
      BY <1>a, <1>s, <1>16 DEF Abort, SessionsDie, Live, Stored
    <2>2. \A q \in Req : pc'[q] = "insert" => pc[q] = "insert" /\ loc'[q] = loc[q]
      BY <1>a, <1>s, <1>16 DEF Abort
    <2> QED
      BY <2>1, <2>2, QuietPlaces
  <1>17. ASSUME NEW c \in Cred, Lapse(c) PROVE PlacesBound'
    <2>1. SessionsDie
      BY <1>a, <1>s, <1>17 DEF Lapse, SessionsDie, Live, Stored
    <2>2. \A q \in Req : pc'[q] = "insert" => pc[q] = "insert" /\ loc'[q] = loc[q]
      BY <1>a, <1>s, <1>17 DEF Lapse
    <2> QED
      BY <2>1, <2>2, QuietPlaces
  <1>18. ASSUME NEW c \in Cred, Expire(c) PROVE PlacesBound'
    <2>1. SessionsDie
      BY <1>a, <1>s, <1>18 DEF Expire, SessionsDie, Live, Stored
    <2>2. \A q \in Req : pc'[q] = "insert" => pc[q] = "insert" /\ loc'[q] = loc[q]
      BY <1>a, <1>s, <1>18 DEF Expire
    <2> QED
      BY <2>1, <2>2, QuietPlaces
  <1>19. ASSUME NEW c \in Cred, LastSecond(c) PROVE PlacesBound'
    <2>1. SessionsDie
      BY <1>a, <1>s, <1>19 DEF LastSecond, SessionsDie, Live, Stored
    <2>2. \A q \in Req : pc'[q] = "insert" => pc[q] = "insert" /\ loc'[q] = loc[q]
      BY <1>a, <1>s, <1>19 DEF LastSecond
    <2> QED
      BY <2>1, <2>2, QuietPlaces
  <1>20. CASE UNCHANGED vars
    <2>1. SessionsDie
      BY <1>20 DEF vars, SessionsDie, Live, Stored
    <2>2. \A q \in Req : pc'[q] = "insert" => pc[q] = "insert" /\ loc'[q] = loc[q]
      BY <1>20 DEF vars
    <2> QED
      BY <2>1, <2>2, QuietPlaces
  <1> QED
    BY <1>1, <1>2, <1>3, <1>4, <1>5, <1>6, <1>7, <1>8, <1>9, <1>10, <1>11, <1>12,
       <1>13, <1>14, <1>15, <1>16, <1>17, <1>18, <1>19, <1>20 DEF Next

-----------------------------------------------------------------------------
(* Every step is one that Rotation allows. *)

\* The life of each credential, as Rotation sees it.
Life == [c \in Cred |-> Status(c)]

\* A step that writes no new credential, and makes no row live, closes some
\* credentials at most.
LEMMA OnlyCloses ==
    ASSUME UNCHANGED <<home, parent, stillborn>>,
           \A c \in Cred : LiveWith(c)' \subseteq LiveWith(c)
    PROVE  Lives!Close
  <1>1. Life' = [c \in Cred |-> Status(c)']
    BY DEF Life
  <1>2. ASSUME NEW c \in Cred
        PROVE  /\ Status(c)' \in {"unborn", "current", "closed", "stillborn"}
               /\ Status(c)' # Status(c) =>
                     Status(c) = "current" /\ Status(c)' = "closed"
    BY DEF Status
  <1> QED
    BY <1>1, <1>2 DEF Life, Lives!Close, Lives!Cred, Lives!Status, Cred

\* Most steps leave the tokens and the history alone.
LEMMA TokensStay ==
    ASSUME UNCHANGED <<tok, home, parent, stillborn>>
    PROVE  Lives!Close
  <1>1. \A c \in Cred : LiveWith(c)' \subseteq LiveWith(c)
    BY DEF LiveWith, Live
  <1> QED
    BY <1>1, OnlyCloses

\* The credential about to be written is in no row and nobody's past.
LEMMA NextIsUnborn ==
    ASSUME IInv, lastCred < MaxCred
    PROVE  /\ lastCred + 1 \in Cred
           /\ home[lastCred + 1] = 0
           /\ lastCred + 1 \notin stillborn
  <1>1. lastCred \in Nat /\ MaxCred \in Nat /\ home \in [Cred -> 0..MaxLogin]
    BY ConstantsAssumption DEF IInv, TableInv, TypeOK
  <1>2. lastCred + 1 \in Cred /\ ~ (lastCred + 1 <= lastCred)
    BY <1>1 DEF Cred
  <1>3. lastCred + 1 \notin 1..lastCred
    BY <1>1
  <1> QED
    BY <1>2, <1>3 DEF IInv, LineageInv, WrittenToRows

\* A login makes its credential current, and touches no other's.
LEMMA LoginIsLogin ==
    ASSUME IInv, NEW p \in Req, LoginInsert(p)
    PROVE  Lives!Login(lastCred + 1)
  <1>1. PICK new, r : new = lastCred + 1 /\ r = loc[p].row
    OBVIOUS
  <1>2. new \in Cred /\ home[new] = 0 /\ new \notin stillborn
    BY <1>1, NextIsUnborn DEF LoginInsert
  <1>3. /\ r \in Row /\ r # 0 /\ \A c \in Cred : home[c] # r
    <2>1. lastRow \in 0..MaxLogin /\ MaxLogin \in Nat
      BY ConstantsAssumption DEF IInv, TableInv, TypeOK
    <2> QED
      BY <1>1, <2>1 DEF LoginInsert, IInv, LineageInv, RowsFresh, Row
  <1>4. tok \in [Row -> RowRec] /\ home \in [Cred -> 0..MaxLogin]
    BY DEF IInv, TableInv, TypeOK
  <1>5. /\ home' = [home EXCEPT ![new] = r] /\ UNCHANGED <<parent, stillborn>>
        /\ tok'[r].st = "live" /\ tok'[r].cred = new
        /\ \A x \in Row : x # r => tok'[x] = tok[x]
    BY <1>1, <1>3, <1>4 DEF LoginInsert
  <1>6. Status(new) = "unborn" /\ Status(new)' = "current"
    <2>1. r \in LiveWith(new)'
      BY <1>3, <1>5 DEF LiveWith, Live
    <2>2. home'[new] # 0
      BY <1>2, <1>3, <1>4, <1>5
    <2> QED
      BY <1>2, <1>5, <2>1, <2>2 DEF Status
  <1>7. ASSUME NEW c \in Cred, c # new
        PROVE  Status(c)' = Status(c)
    <2>1. \A x \in LiveWith(c) : x # r
      BY <1>3, <1>7 DEF LiveWith, Live, IInv, TableInv, AtHome, Stored
    <2>2. LiveWith(c)' = LiveWith(c)
      BY <1>5, <1>7, <2>1 DEF LiveWith, Live
    <2>3. home'[c] = home[c]
      BY <1>4, <1>5, <1>7
    <2> QED
      BY <1>5, <2>2, <2>3 DEF Status
  <1>8. Life' = [Life EXCEPT ![new] = "current"]
    <2>1. Life' = [c \in Cred |-> Status(c)']
      BY DEF Life
    <2> QED
      BY <1>2, <1>6, <1>7, <2>1 DEF Life
  <1> QED
    BY <1>1, <1>2, <1>5, <1>6, <1>8 DEF Life, Lives!Login

\* A rotation closes the credential it redeems and makes the new one current;
\* when a family deletion was faster, the new one is stillborn.
LEMMA RotationIsRedemption ==
    ASSUME IInv, NEW p \in Req, RefreshRotate(p)
    PROVE  \/ Lives!Redeem(loc[p].cred, lastCred + 1)
           \/ Lives!RedeemTooLate(loc[p].cred, lastCred + 1)
  <1>1. PICK new, r, old : new = lastCred + 1 /\ r = loc[p].row /\ old = loc[p].cred
    OBVIOUS
  <1>2. new \in Cred /\ home[new] = 0 /\ new \notin stillborn
    BY <1>1, NextIsUnborn DEF RefreshRotate
  <1>3. tok \in [Row -> RowRec] /\ home \in [Cred -> 0..MaxLogin] /\ lastCred \in 0..MaxCred
        /\ parent \in [Cred -> 0..MaxCred] /\ MaxCred \in Nat
    BY ConstantsAssumption DEF IInv, TableInv, TypeOK
  <1>4. /\ r \in Row /\ tok[r].cred = old /\ SessionsWith(old) = {r}
        /\ old \in 1..lastCred /\ home[old] = r /\ old \notin stillborn
    <2>1. pc[p] = "rotate" /\ TableInv
      BY DEF RefreshRotate, IInv
    <2>2. old \in 1..lastCred /\ home[old] = r /\ old \notin stillborn
      BY <1>1, <2>1 DEF IInv, LineageInv, DeadStayDead, TableInv, RotateAtHome
    <2> QED
      BY <1>1, <2>1, <2>2, RotateRow
  <1>5. old \in Cred /\ old # new /\ r # 0
    <2>1. old \in 1..lastCred /\ lastCred \in 0..MaxCred /\ MaxCred \in Nat
      BY <1>3, <1>4
    <2>2. old \in Cred
      BY <2>1 DEF Cred
    <2>3. old # new
      BY <1>1, <2>1
    <2>4. r # 0
      BY <1>4 DEF Row
    <2> QED
      BY <2>2, <2>3, <2>4
  <1>6. ~ Spent(old)
    BY <1>4 DEF IInv, TableInv, StoredUnspent, SessionsWith
  <1>7. /\ home' = [home EXCEPT ![new] = r] /\ parent' = [parent EXCEPT ![new] = old]
        /\ stillborn' = IF Live(tok, r) THEN stillborn ELSE stillborn \cup {new}
        /\ \A x \in Row : /\ tok'[x].st = tok[x].st
                          /\ tok'[x].cred = IF x = r THEN new ELSE tok[x].cred
    <2>1. /\ home' = [home EXCEPT ![new] = r] /\ parent' = [parent EXCEPT ![new] = old]
          /\ stillborn' = IF Live(tok, r) THEN stillborn ELSE stillborn \cup {new}
          /\ tok' = [tok EXCEPT ![r].cred = new]
      BY <1>1 DEF RefreshRotate
    <2> QED
      BY <1>3, <2>1 DEF RowRec, NoRow
  <1>8. /\ LiveWith(old)' = {}
        /\ LiveWith(old) # {} <=> Live(tok, r)
        /\ LiveWith(new)' # {} <=> Live(tok, r)
        /\ \A c \in Cred \ {old, new} : LiveWith(c)' = LiveWith(c)
    <2>1. \A x \in Row : Live(tok, x) /\ tok[x].cred = old => x = r
      BY <1>4, <1>5 DEF IInv, TableInv, AtHome, Live, Stored
    <2>2. \A x \in Row : Live(tok, x) => tok[x].cred # new
      BY <1>2, <1>5 DEF IInv, TableInv, AtHome, Live, Stored, Row
    <2>3. \A x \in Row : Live(tok', x) <=> Live(tok, x)
      BY <1>7 DEF Live
    <2>4. LiveWith(old)' = {}
      BY <1>5, <1>7, <2>1, <2>3 DEF LiveWith
    <2>5. LiveWith(old) # {} <=> Live(tok, r)
      BY <1>4, <2>1 DEF LiveWith
    <2>6. LiveWith(new)' # {} <=> Live(tok, r)
      BY <1>4, <1>7, <2>2, <2>3 DEF LiveWith
    <2>7. ASSUME NEW c \in Cred \ {old, new}
          PROVE  LiveWith(c)' = LiveWith(c)
      BY <1>4, <1>7, <2>3 DEF LiveWith
    <2> QED
      BY <2>4, <2>5, <2>6, <2>7
  <1>9. Life' = [c \in Cred |-> Status(c)']
    BY DEF Life
  <1>10. \A c \in Cred \ {old, new} : Status(c)' = Status(c)
    <2>1. \A c \in Cred \ {old, new} : home'[c] = home[c] /\ (c \in stillborn' <=> c \in stillborn)
      BY <1>3, <1>7
    <2> QED
      BY <1>8, <2>1 DEF Status
  <1>11. Status(new) = "unborn" /\ Status(old)' = "closed" /\ home'[new] # 0
    <2>1. home'[old] # 0 /\ old \notin stillborn' /\ home'[new] # 0
      BY <1>2, <1>3, <1>4, <1>5, <1>7
    <2> QED
      BY <1>2, <1>8, <2>1 DEF Status
  <1>12. Lives!Redeemed(old) <=> Spent(old)
    BY DEF Lives!Redeemed, Lives!Cred, Spent, Cred
  <1>13. CASE Live(tok, r)
    <2>1. Status(old) = "current" /\ Status(new)' = "current"
      BY <1>2, <1>4, <1>5, <1>7, <1>8, <1>11, <1>13 DEF Status
    <2>2. Life' = [Life EXCEPT ![old] = "closed", ![new] = "current"]
      BY <1>2, <1>5, <1>9, <1>10, <1>11, <2>1 DEF Life
    <2> QED
      BY <1>1, <1>2, <1>5, <1>7, <1>11, <2>1, <2>2 DEF Life, Lives!Redeem
  <1>14. CASE ~ Live(tok, r)
    <2>1. Status(old) = "closed" /\ Status(new)' = "stillborn"
      BY <1>2, <1>4, <1>5, <1>7, <1>8, <1>11, <1>14 DEF Status
    <2>2. Life' = [Life EXCEPT ![new] = "stillborn"]
      BY <1>2, <1>5, <1>9, <1>10, <1>11, <2>1 DEF Life
    <2> QED
      BY <1>1, <1>2, <1>5, <1>6, <1>7, <1>11, <1>12, <2>1, <2>2 DEF Life,
         Lives!RedeemTooLate
  <1> QED
    BY <1>1, <1>13, <1>14

\* Every step is one of Rotation; most of them close nothing.
LEMMA StepIsAllowed == IInv /\ [Next]_vars => Lives!Next
  <1> SUFFICES ASSUME IInv, [Next]_vars PROVE Lives!Next
    OBVIOUS
  <1>1. ASSUME NEW p \in Req, NEW c \in Cred, RefreshConsult(p, c) PROVE Lives!Next
    BY <1>1, TokensStay DEF Goto, Leave, RefreshConsult, Lives!Next
  <1>2. ASSUME NEW p \in Req, NEW c \in Cred, RevokeFind(p, c) PROVE Lives!Next
    BY <1>2, TokensStay DEF Goto, Leave, RevokeFind, Lives!Next
  <1>3. ASSUME NEW p \in Req, NEW k \in Grant, LoginRead(p, k) PROVE Lives!Next
    BY <1>3, TokensStay DEF Goto, Leave, LoginRead, Lives!Next
  <1>4. ASSUME NEW p \in Req, KillTokens(p) PROVE Lives!Next
    BY <1>4, TokensStay DEF Goto, Leave, KillTokens, Lives!Next
  <1>5. ASSUME NEW p \in Req, KillSessions(p) PROVE Lives!Next
    <2>1. UNCHANGED <<home, parent, stillborn>>
      BY <1>5 DEF KillSessions
    <2>2. tok \in [Row -> RowRec]
      BY DEF IInv, TableInv, TypeOK
    <2>3. ASSUME NEW r \in Row PROVE Live(tok', r) => tok'[r] = tok[r]
      <3>1. tok'[r] = IF r \in held[p] THEN [tok[r] EXCEPT !.st = "soft"] ELSE tok[r]
        BY <1>5 DEF KillSessions
      <3> QED
        BY <2>2, <3>1, StoredRow DEF Live, Stored, RowRec, NoRow
    <2>4. \A c \in Cred : LiveWith(c)' \subseteq LiveWith(c)
      BY <2>3 DEF LiveWith, Live
    <2> QED
      BY <2>1, <2>4, OnlyCloses DEF Lives!Next
  <1>6. ASSUME NEW p \in Req, RefreshFind(p) PROVE Lives!Next
    BY <1>6, TokensStay DEF Goto, Leave, RefreshFind, Lives!Next
  <1>7. ASSUME NEW p \in Req, RefreshFlag(p) PROVE Lives!Next
    BY <1>7, TokensStay DEF Goto, Leave, RefreshFlag, Lives!Next
  <1>8. ASSUME NEW p \in Req, RefreshReread(p) PROVE Lives!Next
    BY <1>8, TokensStay DEF Goto, Leave, RefreshReread, Lives!Next
  <1>9. ASSUME NEW p \in Req, RefreshRotate(p) PROVE Lives!Next
    <2>1. \/ Lives!Redeem(loc[p].cred, lastCred + 1)
          \/ Lives!RedeemTooLate(loc[p].cred, lastCred + 1)
      BY <1>9, RotationIsRedemption
    <2>2. loc[p].cred \in Cred /\ lastCred + 1 \in Cred
      BY <1>9, NextIsUnborn DEF RefreshRotate, IInv, TableInv, CredInHand
    <2> QED
      BY <2>1, <2>2 DEF Lives!Next, Lives!Cred, Cred
  <1>10. ASSUME NEW p \in Req, RevokeRead(p) PROVE Lives!Next
    BY <1>10, TokensStay DEF Goto, Leave, RevokeRead, Lives!Next
  <1>11. ASSUME NEW p \in Req, RevokeDelete(p) PROVE Lives!Next
    <2>1. UNCHANGED <<home, parent, stillborn>>
      BY <1>11 DEF RevokeDelete
    <2>2. \A r \in Row : tok'[r] = tok[r] \/ tok'[r] = NoRow
      BY <1>11 DEF RevokeDelete
    <2>3. \A c \in Cred : LiveWith(c)' \subseteq LiveWith(c)
      BY <2>2 DEF LiveWith, Live, NoRow
    <2> QED
      BY <2>1, <2>3, OnlyCloses DEF Lives!Next
  <1>12. ASSUME NEW p \in Req, RevokeBlock(p) PROVE Lives!Next
    BY <1>12, TokensStay DEF Goto, Leave, RevokeBlock, Lives!Next
  <1>13. ASSUME NEW p \in Req, LoginCount(p) PROVE Lives!Next
    BY <1>13, TokensStay DEF Goto, Leave, LoginCount, Lives!Next
  <1>14. ASSUME NEW p \in Req, LoginEvict(p) PROVE Lives!Next
    BY <1>14, TokensStay DEF Goto, Leave, LoginEvict, Lives!Next
  <1>15. ASSUME NEW p \in Req, LoginInsert(p) PROVE Lives!Next
    <2>1. Lives!Login(lastCred + 1) /\ lastCred + 1 \in Cred
      BY <1>15, LoginIsLogin, NextIsUnborn DEF LoginInsert
    <2> QED
      BY <2>1 DEF Lives!Next, Lives!Cred, Cred
  <1>16. ASSUME NEW p \in Req, Abort(p) PROVE Lives!Next
    BY <1>16, TokensStay DEF Goto, Leave, Abort, Lives!Next
  <1>17. ASSUME NEW c \in Cred, Lapse(c) PROVE Lives!Next
    BY <1>17, TokensStay DEF Goto, Leave, Lapse, Lives!Next
  <1>18. ASSUME NEW c \in Cred, Expire(c) PROVE Lives!Next
    BY <1>18, TokensStay DEF Goto, Leave, Expire, Lives!Next
  <1>19. ASSUME NEW c \in Cred, LastSecond(c) PROVE Lives!Next
    BY <1>19, TokensStay DEF Goto, Leave, LastSecond, Lives!Next
  <1>20. CASE UNCHANGED vars
    BY <1>20, TokensStay DEF vars, Lives!Next
  <1> QED
    BY <1>1, <1>2, <1>3, <1>4, <1>5, <1>6, <1>7, <1>8, <1>9, <1>10, <1>11, <1>12,
       <1>13, <1>14, <1>15, <1>16, <1>17, <1>18, <1>19, <1>20 DEF Next

-----------------------------------------------------------------------------
(* The theorems. *)

\* Nothing has been written, and nobody is at work.
LEMMA InitLineage == Init => LineageInv /\ CapInv
  <1> SUFFICES ASSUME Init PROVE LineageInv /\ CapInv
    OBVIOUS
  <1>1. /\ \A r \in Row : ~ Live(tok, r) /\ ~ Live(sess, r) /\ ~ Stored(sess, r)
        /\ \A c \in Cred : home[c] = 0 /\ used[c] = 0 /\ parent[c] = 0
        /\ \A p \in Req : pc[p] = "idle" /\ loc[p].victim = 0
        /\ stillborn = {} /\ reported = {} /\ lastCred = 0 /\ lastRow = 0
    BY DEF Init, Live, Stored, NoRow, NoLocal
  <1>2. WrittenToRows /\ RowsFresh
    BY <1>1, ConstantsAssumption DEF WrittenToRows, RowsFresh, Cred
  <1>3. FamilyKnown /\ MarkedFirst /\ DeadStayDead
    BY <1>1 DEF FamilyKnown, MarkedFirst, DeadStayDead, Spent, Cred
  <1>4. VictimsChosen
    BY <1>1 DEF VictimsChosen
  <1>5. PlacesBound
    <2> SUFFICES ASSUME NEW k \in Grant
                 PROVE  Cardinality(EvictableSessions(k) \cup Victims(k)) + Cardinality(Adding(k))
                            <= SessionCap - 1 + Cardinality(Req)
      BY DEF PlacesBound
    <2>1. EvictableSessions(k) \cup Victims(k) = {} /\ Adding(k) = {}
      BY <1>1 DEF EvictableSessions, Victims, Adding
    <2>2. Cardinality({}) = 0
      BY FS_EmptySet
    <2>3. Cardinality(Req) \in Nat /\ SessionCap \in Nat \ {0}
      BY FiniteParts, ConstantsAssumption
    <2>4. /\ Cardinality(EvictableSessions(k) \cup Victims(k)) = 0
          /\ Cardinality(Adding(k)) = 0
      BY <2>1, <2>2
    <2> QED
      BY <2>3, <2>4
  <1> QED
    BY <1>2, <1>3, <1>4, <1>5 DEF LineageInv, CapInv

\* In every behaviour, for any number of requests, consents, rows and
\* credentials, the inductive invariant holds throughout.
THEOREM Invariance == Spec => []IInv
  <1>1. Init => IInv
    BY InitTableInv, InitLineage DEF IInv
  <1>2. IInv /\ [Next]_vars => IInv'
    BY TableInductive, WrittenToRowsStep, RowsFreshStep, FamilyKnownStep, MarkedFirstStep,
       DeadStayDeadStep, VictimsChosenStep, PlacesBoundStep
    DEF IInv, LineageInv, CapInv
  <1> QED
    BY <1>1, <1>2, PTL DEF Spec

\* The tables, the Redis keys and the requests in progress keep their shapes: in
\* particular every stored row has a credential and a family of its own.
THEOREM TypeCorrect == Spec => []TypeOK
  <1>1. IInv => TypeOK  BY DEF IInv, TableInv
  <1> QED  BY <1>1, Invariance, PTL

\* The affected-rows checks of the rotation's transaction make refresh tokens
\* one-time, for any number of concurrent refreshes, revocations and deletions.
THEOREM RedeemedOnceHolds == Spec => []RedeemedOnce
  <1>1. IInv => RedeemedOnce  BY DEF IInv, TableInv
  <1> QED  BY <1>1, Invariance, PTL

\* The two tables, linked by nothing but the jti, never drift apart.
THEOREM SessionPairsTokenHolds == Spec => []SessionPairsToken
  <1>1. IInv => SessionPairsToken  BY DEF IInv, TableInv
  <1> QED  BY <1>1, Invariance, PTL

\* A credential is either revoked or redeemed, whatever races with what.
THEOREM RevokedNotRedeemedHolds == Spec => []RevokedNotRedeemed
  <1>1. IInv => RevokedNotRedeemed
    BY DEF IInv, TableInv, RevokedDead, Dead, RevokedNotRedeemed
  <1> QED  BY <1>1, Invariance, PTL

\* A replay is noticed: a redeemed token stays marked until its last second, with
\* the family its row belongs to, whatever was rotated or deleted meanwhile.
THEOREM MarksArePlaced == Spec => []SpentIsMarked
  <1>1. IInv => SpentIsMarked
    BY DEF IInv, LineageInv, MarkedFirst, FamilyKnown, InFamily, SpentIsMarked
  <1> QED
    BY <1>1, Invariance, PTL

\* The report of a reuse is final: the row that the reused token and its
\* descendants share is never live again.
THEOREM ReportedLineagesAreDead == Spec => []ReportedLineageDead
  <1>1. IInv => ReportedLineageDead
    BY DEF IInv, LineageInv, DeadStayDead, ReportedLineageDead
  <1> QED
    BY <1>1, Invariance, PTL

\* The cap can be exceeded, since logins do not see each other's rows, but by
\* less than the number of requests in progress: each login counted before it
\* adds, and a login that found the cap reached deletes as much as it adds.
THEOREM SessionsAreBounded == Spec => []SessionBound
  <1>1. IInv => SessionBound
    <2> SUFFICES ASSUME IInv, NEW k \in Grant
                 PROVE  Cardinality(EvictableSessions(k)) <= SessionCap - 1 + Cardinality(Req)
      BY DEF SessionBound
    <2>1. Cardinality(Places(k)) + Cardinality(Adding(k)) <= SessionCap - 1 + Cardinality(Req)
      BY DEF IInv, CapInv, PlacesBound, Places
    <2>2. IsFiniteSet(Places(k)) /\ EvictableSessions(k) \subseteq Places(k)
      BY FiniteParts DEF Places
    <2>3. Cardinality(EvictableSessions(k)) <= Cardinality(Places(k))
      BY <2>2, FS_Subset
    <2>4. /\ Cardinality(EvictableSessions(k)) \in Nat /\ Cardinality(Places(k)) \in Nat
          /\ Cardinality(Adding(k)) \in Nat /\ Cardinality(Req) \in Nat /\ SessionCap \in Nat
      BY FiniteParts, ConstantsAssumption
    <2> QED
      BY <2>1, <2>3, <2>4
  <1> QED
    BY <1>1, Invariance, PTL

\* TokenSession implements Rotation: each credential is redeemed at most once and
\* only while it is current, and is never current again.
THEOREM RotationIsImplemented == Spec => ImplementsRotation
  <1>1. Init => Lives!Init
    BY DEF Init, Lives!Init, Lives!Cred, Cred, Status
  <1>2. IInv /\ [Next]_vars => [Lives!Next]_<<[c \in Cred |-> Status(c)], parent>>
    BY StepIsAllowed
  <1> QED
    BY <1>1, <1>2, Invariance, PTL DEF Spec, ImplementsRotation, Lives!Spec
=============================================================================
