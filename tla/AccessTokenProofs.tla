-------------------------- MODULE AccessTokenProofs --------------------------
(***************************************************************************)
(* Proofs of the safety of AccessToken, for any number of requests, any    *)
(* lifetime of a token and of a blocklist entry, and a clock that ticks    *)
(* between any two steps: a confirmed revocation is seen by every later    *)
(* introspection, and only a revocation that committed is.                 *)
(***************************************************************************)
EXTENDS AccessToken, TLAPS

-----------------------------------------------------------------------------
(* The inductive invariant. *)

ClockTyped ==
    /\ now \in 0..MaxTime
    /\ signed \in [Jti -> 0..NotSigned]
    /\ blocked \in [Jti -> 0..MaxTime + BlockTTL]

TablesTyped ==
    /\ row \in [Row -> 0..MaxJti]
    /\ session \subseteq Row /\ gone \subseteq Row /\ direct \subseteq Row

Local == [row: 0..MaxRow, jti: 0..MaxJti, old: 0..MaxJti, direct: BOOLEAN,
          knew: SUBSET Jti, active: BOOLEAN, at: 0..MaxTime]
RequestsTyped == pc \in [Req -> Step] /\ loc \in [Req -> Local]

\* A token is answered once it is signed, revoked once it was answered, and
\* confirmed once it was revoked; none is signed in the future.
LifeInOrder ==
    /\ answered \subseteq Drawn /\ revoked \subseteq answered /\ confirmed \subseteq revoked
    /\ \A c \in Drawn : signed[c] <= now

\* A stored jti is one row's, was given to a client and is not revoked.
StoredOnce ==
    /\ \A r, s \in Row : row[r] = row[s] /\ row[r] # 0 => r = s
    /\ \A r \in Row : row[r] # 0 => row[r] \in answered \ revoked
    /\ \A r \in session : row[r] # 0

\* What a login or a refresh is about to store was given to nobody yet, and no
\* two of them store the same.
FreshWhenWritten ==
    \A p \in Req : At(p, "write") =>
        /\ loc[p].jti \in Drawn \ answered
        /\ \A q \in Req : At(q, "write") /\ loc[q].jti = loc[p].jti => q = p

\* A revocation that is being completed committed, and an introspection judges a
\* token some client was given.
RequestsKnow ==
    \A p \in Req :
        /\ pc[p] \in {"block", "confirm"} => loc[p].jti \in revoked
        /\ pc[p] \in {"verify", "lookup", "told"}
              => loc[p].jti \in answered /\ loc[p].knew \subseteq confirmed

\* An entry that outlives its token.
Outlived(c) == AccessLife <= BlockTTL => blocked[c] >= signed[c] + AccessLife

\* Only revoked tokens have an entry, and those whose revocation is confirmed,
\* or about to be, have one that lasts.
EntriesLast ==
    /\ \A c \in Jti : blocked[c] # 0 => c \in revoked
    /\ \A c \in confirmed : Outlived(c)
    /\ \A p \in Req : At(p, "confirm") => Outlived(loc[p].jti)

IInv ==
    /\ ClockTyped /\ TablesTyped /\ RequestsTyped
    /\ LifeInOrder /\ StoredOnce /\ FreshWhenWritten
    /\ RequestsKnow /\ EntriesLast
    /\ RevokedInactive /\ InactiveWasRevoked

-----------------------------------------------------------------------------
(* What every step preserves, part by part. *)

\* The bounds are natural numbers.
LEMMA BoundsAreNatural ==
    /\ AccessLife \in Nat /\ BlockTTL \in Nat
    /\ MaxRow \in Nat /\ MaxJti \in Nat /\ MaxTime \in Nat
  BY ClockAssumption

\* The clock, the signatures and the entries stay within their bounds.
LEMMA ClockTypedStep == ClockTyped /\ [Next]_vars => ClockTyped'
  <1> SUFFICES ASSUME ClockTyped, [Next]_vars PROVE ClockTyped'
    OBVIOUS
  <1>a. /\ now \in 0..MaxTime /\ MaxTime \in Nat /\ BlockTTL \in Nat
        /\ signed \in [Jti -> 0..NotSigned] /\ blocked \in [Jti -> 0..MaxTime + BlockTTL]
    BY BoundsAreNatural DEF ClockTyped
  <1>b. now + BlockTTL \in 0..MaxTime + BlockTTL /\ now \in 0..NotSigned
    BY <1>a DEF NotSigned
  <1> USE DEF At, Goto, Leave, tables, tokens, history
  <1>1. ASSUME Tick PROVE ClockTyped'
    BY <1>1, <1>a, <1>b DEF Tick, ClockTyped, Tell, EntryFor
  <1>2. ASSUME NEW r \in Row, Evict(r) PROVE ClockTyped'
    BY <1>2, <1>a, <1>b DEF Evict, ClockTyped, Tell, EntryFor
  <1>3. ASSUME NEW F \in SUBSET Row, FamilyDeleted(F) PROVE ClockTyped'
    BY <1>3, <1>a, <1>b DEF FamilyDeleted, ClockTyped, Tell, EntryFor
  <1>4. ASSUME NEW p \in Req, NEW d \in BOOLEAN, LoginStart(p, d) PROVE ClockTyped'
    BY <1>4, <1>a, <1>b DEF LoginStart, ClockTyped, Tell, EntryFor
  <1>5. ASSUME NEW p \in Req, NEW r \in Row, RefreshRead(p, r) PROVE ClockTyped'
    BY <1>5, <1>a, <1>b DEF RefreshRead, ClockTyped, Tell, EntryFor
  <1>6. ASSUME NEW p \in Req, NEW r \in Row, RevokeFind(p, r) PROVE ClockTyped'
    BY <1>6, <1>a, <1>b DEF RevokeFind, ClockTyped, Tell, EntryFor
  <1>7. ASSUME NEW p \in Req, Sign(p) PROVE ClockTyped'
    BY <1>7, <1>a, <1>b DEF Sign, ClockTyped, Tell, EntryFor
  <1>8. ASSUME NEW p \in Req, LoginInsert(p) PROVE ClockTyped'
    BY <1>8, <1>a, <1>b DEF LoginInsert, ClockTyped, Tell, EntryFor
  <1>9. ASSUME NEW p \in Req, RefreshWrite(p) PROVE ClockTyped'
    BY <1>9, <1>a, <1>b DEF RefreshWrite, ClockTyped, Tell, EntryFor
  <1>10. ASSUME NEW p \in Req, Revoke(p) PROVE ClockTyped'
    BY <1>10, <1>a, <1>b DEF Revoke, ClockTyped, Tell, EntryFor
  <1>11. ASSUME NEW p \in Req, Block(p) PROVE ClockTyped'
    BY <1>11, <1>a, <1>b DEF Block, ClockTyped, Tell, EntryFor
  <1>12. ASSUME NEW p \in Req, Confirm(p) PROVE ClockTyped'
    BY <1>12, <1>a, <1>b DEF Confirm, ClockTyped, Tell, EntryFor
  <1>13. ASSUME NEW p \in Req, NEW c \in Jti, Present(p, c) PROVE ClockTyped'
    BY <1>13, <1>a, <1>b DEF Present, ClockTyped, Tell, EntryFor
  <1>14. ASSUME NEW p \in Req, Verify(p) PROVE ClockTyped'
    BY <1>14, <1>a, <1>b DEF Verify, ClockTyped, Tell, EntryFor
  <1>15. ASSUME NEW p \in Req, LookUp(p) PROVE ClockTyped'
    BY <1>15, <1>a, <1>b DEF LookUp, ClockTyped, Tell, EntryFor
  <1>16. ASSUME NEW p \in Req, Told(p) PROVE ClockTyped'
    BY <1>16, <1>a, <1>b DEF Told, ClockTyped, Tell, EntryFor
  <1>17. ASSUME NEW p \in Req, Abort(p) PROVE ClockTyped'
    BY <1>17, <1>a, <1>b DEF Abort, ClockTyped, Tell, EntryFor
  <1>18. CASE UNCHANGED vars
    BY <1>18, <1>a, <1>b DEF vars, ClockTyped, Tell, EntryFor
  <1> QED
    BY <1>1, <1>2, <1>3, <1>4, <1>5, <1>6, <1>7, <1>8, <1>9, <1>10, <1>11, <1>12,
       <1>13, <1>14, <1>15, <1>16, <1>17, <1>18 DEF Next

\* A request keeps its shape.
LEMMA RequestsTypedStep ==
    ClockTyped /\ TablesTyped /\ RequestsTyped /\ LifeInOrder /\ [Next]_vars => RequestsTyped'
  <1> SUFFICES ASSUME ClockTyped /\ TablesTyped /\ RequestsTyped /\ LifeInOrder, [Next]_vars
               PROVE  RequestsTyped'
    OBVIOUS
  <1>a. /\ now \in 0..MaxTime /\ MaxTime \in Nat /\ BlockTTL \in Nat
        /\ signed \in [Jti -> 0..NotSigned] /\ blocked \in [Jti -> 0..MaxTime + BlockTTL]
    BY BoundsAreNatural DEF ClockTyped
  <1>b. /\ row \in [Row -> 0..MaxJti] /\ MaxJti \in Nat /\ MaxRow \in Nat
        /\ session \subseteq Row /\ gone \subseteq Row /\ direct \subseteq Row
    BY BoundsAreNatural DEF TablesTyped
  <1>c. pc \in [Req -> Step] /\ loc \in [Req -> Local]
    BY DEF RequestsTyped
  <1>d. NoLocal \in Local
    BY <1>a, <1>b DEF NoLocal, Local
  <1>e. /\ confirmed \subseteq Jti /\ answered \subseteq Jti
        /\ Row \subseteq 0..MaxRow /\ Jti \subseteq 0..MaxJti
    BY <1>b DEF LifeInOrder, Drawn, Row, Jti
  <1> USE DEF At, Goto, Leave, tables, tokens, history
  <1>1. ASSUME Tick PROVE RequestsTyped'
    BY <1>1, <1>a, <1>b, <1>c, <1>d, <1>e DEF Tick, RequestsTyped, Step, Local, Tell
  <1>2. ASSUME NEW r \in Row, Evict(r) PROVE RequestsTyped'
    BY <1>2, <1>a, <1>b, <1>c, <1>d, <1>e DEF Evict, RequestsTyped, Step, Local, Tell
  <1>3. ASSUME NEW F \in SUBSET Row, FamilyDeleted(F) PROVE RequestsTyped'
    BY <1>3, <1>a, <1>b, <1>c, <1>d, <1>e DEF FamilyDeleted, RequestsTyped, Step,
       Local, Tell
  <1>4. ASSUME NEW p \in Req, NEW d \in BOOLEAN, LoginStart(p, d) PROVE RequestsTyped'
    BY <1>4, <1>a, <1>b, <1>c, <1>d, <1>e DEF LoginStart, RequestsTyped, Step, Local,
       Tell
  <1>5. ASSUME NEW p \in Req, NEW r \in Row, RefreshRead(p, r) PROVE RequestsTyped'
    BY <1>5, <1>a, <1>b, <1>c, <1>d, <1>e DEF RefreshRead, RequestsTyped, Step, Local,
       Tell
  <1>6. ASSUME NEW p \in Req, NEW r \in Row, RevokeFind(p, r) PROVE RequestsTyped'
    BY <1>6, <1>a, <1>b, <1>c, <1>d, <1>e DEF RevokeFind, RequestsTyped, Step, Local,
       Tell
  <1>7. ASSUME NEW p \in Req, Sign(p) PROVE RequestsTyped'
    BY <1>7, <1>a, <1>b, <1>c, <1>d, <1>e DEF Sign, NewJti, RequestsTyped, Step,
       Local, Tell
  <1>8. ASSUME NEW p \in Req, LoginInsert(p) PROVE RequestsTyped'
    BY <1>8, <1>a, <1>b, <1>c, <1>d, <1>e DEF LoginInsert, RequestsTyped, Step, Local,
       Tell
  <1>9. ASSUME NEW p \in Req, RefreshWrite(p) PROVE RequestsTyped'
    BY <1>9, <1>a, <1>b, <1>c, <1>d, <1>e DEF RefreshWrite, RequestsTyped, Step,
       Local, Tell
  <1>10. ASSUME NEW p \in Req, Revoke(p) PROVE RequestsTyped'
    BY <1>10, <1>a, <1>b, <1>c, <1>d, <1>e DEF Revoke, RequestsTyped, Step, Local, Tell
  <1>11. ASSUME NEW p \in Req, Block(p) PROVE RequestsTyped'
    BY <1>11, <1>a, <1>b, <1>c, <1>d, <1>e DEF Block, RequestsTyped, Step, Local, Tell
  <1>12. ASSUME NEW p \in Req, Confirm(p) PROVE RequestsTyped'
    BY <1>12, <1>a, <1>b, <1>c, <1>d, <1>e DEF Confirm, RequestsTyped, Step, Local, Tell
  <1>13. ASSUME NEW p \in Req, NEW c \in Jti, Present(p, c) PROVE RequestsTyped'
    BY <1>13, <1>a, <1>b, <1>c, <1>d, <1>e DEF Present, RequestsTyped, Step, Local, Tell
  <1>14. ASSUME NEW p \in Req, Verify(p) PROVE RequestsTyped'
    <2>1. CASE Expired(loc[p].jti)
      <3>1. /\ pc' = [pc EXCEPT ![p] = "told"]
            /\ loc' = [loc EXCEPT ![p].active = FALSE, ![p].at = now]
        BY <1>14, <2>1 DEF Verify, Tell
      <3>2. [loc[p] EXCEPT !.active = FALSE, !.at = now] \in Local
        BY <1>a, <1>c DEF Local
      <3>3. loc' = [loc EXCEPT ![p] = [loc[p] EXCEPT !.active = FALSE, !.at = now]]
        BY <3>1
      <3>4. loc' \in [Req -> Local]
        BY <1>c, <3>2, <3>3
      <3>5. pc' \in [Req -> Step]
        BY <1>c, <3>1 DEF Step
      <3> QED
        BY <3>4, <3>5 DEF RequestsTyped
    <2>2. CASE ~ Expired(loc[p].jti)
      <3>1. pc' = [pc EXCEPT ![p] = "lookup"] /\ loc' = loc
        BY <1>14, <2>2 DEF Verify
      <3> QED
        BY <1>c, <3>1 DEF RequestsTyped, Step
    <2> QED
      BY <2>1, <2>2
  <1>15. ASSUME NEW p \in Req, LookUp(p) PROVE RequestsTyped'
    BY <1>15, <1>a, <1>b, <1>c, <1>d, <1>e DEF LookUp, RequestsTyped, Step, Local, Tell
  <1>16. ASSUME NEW p \in Req, Told(p) PROVE RequestsTyped'
    BY <1>16, <1>a, <1>b, <1>c, <1>d, <1>e DEF Told, RequestsTyped, Step, Local, Tell
  <1>17. ASSUME NEW p \in Req, Abort(p) PROVE RequestsTyped'
    BY <1>17, <1>a, <1>b, <1>c, <1>d, <1>e DEF Abort, RequestsTyped, Step, Local, Tell
  <1>18. CASE UNCHANGED vars
    BY <1>18, <1>a, <1>b, <1>c, <1>d, <1>e DEF vars, RequestsTyped, Step, Local, Tell
  <1> QED
    BY <1>1, <1>2, <1>3, <1>4, <1>5, <1>6, <1>7, <1>8, <1>9, <1>10, <1>11, <1>12,
       <1>13, <1>14, <1>15, <1>16, <1>17, <1>18 DEF Next

\* The tables keep their shape.
LEMMA TablesTypedStep == TablesTyped /\ RequestsTyped /\ [Next]_vars => TablesTyped'
  <1> SUFFICES ASSUME TablesTyped /\ RequestsTyped, [Next]_vars PROVE TablesTyped'
    OBVIOUS
  <1>b. /\ row \in [Row -> 0..MaxJti] /\ MaxJti \in Nat /\ MaxRow \in Nat
        /\ session \subseteq Row /\ gone \subseteq Row /\ direct \subseteq Row
    BY BoundsAreNatural DEF TablesTyped
  <1>c. pc \in [Req -> Step] /\ loc \in [Req -> Local]
    BY DEF RequestsTyped
  <1>d. \A p \in Req : loc[p].jti \in 0..MaxJti
    BY <1>c DEF Local
  <1> USE DEF At, Goto, Leave, tables, tokens, history
  <1>1. ASSUME Tick PROVE TablesTyped'
    BY <1>1, <1>b, <1>d DEF Tick, TablesTyped, Tell
  <1>2. ASSUME NEW r \in Row, Evict(r) PROVE TablesTyped'
    BY <1>2, <1>b, <1>d DEF Evict, TablesTyped, Tell
  <1>3. ASSUME NEW F \in SUBSET Row, FamilyDeleted(F) PROVE TablesTyped'
    BY <1>3, <1>b, <1>d DEF FamilyDeleted, TablesTyped, Tell
  <1>4. ASSUME NEW p \in Req, NEW d \in BOOLEAN, LoginStart(p, d) PROVE TablesTyped'
    BY <1>4, <1>b, <1>d DEF LoginStart, TablesTyped, Tell
  <1>5. ASSUME NEW p \in Req, NEW r \in Row, RefreshRead(p, r) PROVE TablesTyped'
    BY <1>5, <1>b, <1>d DEF RefreshRead, TablesTyped, Tell
  <1>6. ASSUME NEW p \in Req, NEW r \in Row, RevokeFind(p, r) PROVE TablesTyped'
    BY <1>6, <1>b, <1>d DEF RevokeFind, TablesTyped, Tell
  <1>7. ASSUME NEW p \in Req, Sign(p) PROVE TablesTyped'
    BY <1>7, <1>b, <1>d DEF Sign, TablesTyped, Tell
  <1>8. ASSUME NEW p \in Req, LoginInsert(p) PROVE TablesTyped'
    BY <1>8, <1>b, <1>d DEF LoginInsert, TablesTyped, Tell
  <1>9. ASSUME NEW p \in Req, RefreshWrite(p) PROVE TablesTyped'
    BY <1>9, <1>b, <1>d DEF RefreshWrite, TablesTyped, Tell
  <1>10. ASSUME NEW p \in Req, Revoke(p) PROVE TablesTyped'
    BY <1>10, <1>b, <1>d DEF Revoke, TablesTyped, Tell
  <1>11. ASSUME NEW p \in Req, Block(p) PROVE TablesTyped'
    BY <1>11, <1>b, <1>d DEF Block, TablesTyped, Tell
  <1>12. ASSUME NEW p \in Req, Confirm(p) PROVE TablesTyped'
    BY <1>12, <1>b, <1>d DEF Confirm, TablesTyped, Tell
  <1>13. ASSUME NEW p \in Req, NEW c \in Jti, Present(p, c) PROVE TablesTyped'
    BY <1>13, <1>b, <1>d DEF Present, TablesTyped, Tell
  <1>14. ASSUME NEW p \in Req, Verify(p) PROVE TablesTyped'
    BY <1>14, <1>b, <1>d DEF Verify, TablesTyped, Tell
  <1>15. ASSUME NEW p \in Req, LookUp(p) PROVE TablesTyped'
    BY <1>15, <1>b, <1>d DEF LookUp, TablesTyped, Tell
  <1>16. ASSUME NEW p \in Req, Told(p) PROVE TablesTyped'
    BY <1>16, <1>b, <1>d DEF Told, TablesTyped, Tell
  <1>17. ASSUME NEW p \in Req, Abort(p) PROVE TablesTyped'
    BY <1>17, <1>b, <1>d DEF Abort, TablesTyped, Tell
  <1>18. CASE UNCHANGED vars
    BY <1>18, <1>b, <1>d DEF vars, TablesTyped, Tell
  <1> QED
    BY <1>1, <1>2, <1>3, <1>4, <1>5, <1>6, <1>7, <1>8, <1>9, <1>10, <1>11, <1>12,
       <1>13, <1>14, <1>15, <1>16, <1>17, <1>18 DEF Next

\* Signed, answered, revoked, confirmed: in this order.
LEMMA LifeInOrderStep ==
    ClockTyped /\ TablesTyped /\ RequestsTyped /\ LifeInOrder /\ StoredOnce
    /\ FreshWhenWritten /\ RequestsKnow /\ [Next]_vars
    => LifeInOrder'
  <1> SUFFICES ASSUME ClockTyped /\ TablesTyped /\ RequestsTyped /\ LifeInOrder
                      /\ StoredOnce /\ FreshWhenWritten /\ RequestsKnow, [Next]_vars
               PROVE  LifeInOrder'
    OBVIOUS
  <1>a. /\ now \in 0..MaxTime /\ MaxTime \in Nat /\ BlockTTL \in Nat
        /\ signed \in [Jti -> 0..NotSigned] /\ blocked \in [Jti -> 0..MaxTime + BlockTTL]
    BY BoundsAreNatural DEF ClockTyped
  <1>b. /\ row \in [Row -> 0..MaxJti] /\ MaxJti \in Nat /\ MaxRow \in Nat
        /\ session \subseteq Row /\ gone \subseteq Row /\ direct \subseteq Row
    BY BoundsAreNatural DEF TablesTyped
  <1>c. pc \in [Req -> Step] /\ loc \in [Req -> Local]
    BY DEF RequestsTyped
  <1> USE DEF At, Goto, Leave, tables, tokens, history
  <1>1. ASSUME Tick PROVE LifeInOrder'
    BY <1>1, <1>a, <1>b, <1>c DEF Tick, LifeInOrder, Drawn, NotSigned, Tell
  <1>2. ASSUME NEW r \in Row, Evict(r) PROVE LifeInOrder'
    BY <1>2, <1>a, <1>b, <1>c DEF Evict, LifeInOrder, Drawn, NotSigned, Tell
  <1>3. ASSUME NEW F \in SUBSET Row, FamilyDeleted(F) PROVE LifeInOrder'
    BY <1>3, <1>a, <1>b, <1>c DEF FamilyDeleted, LifeInOrder, Drawn, NotSigned, Tell
  <1>4. ASSUME NEW p \in Req, NEW d \in BOOLEAN, LoginStart(p, d) PROVE LifeInOrder'
    BY <1>4, <1>a, <1>b, <1>c DEF LoginStart, LifeInOrder, Drawn, NotSigned, Tell
  <1>5. ASSUME NEW p \in Req, NEW r \in Row, RefreshRead(p, r) PROVE LifeInOrder'
    BY <1>5, <1>a, <1>b, <1>c DEF RefreshRead, LifeInOrder, Drawn, NotSigned, Tell
  <1>6. ASSUME NEW p \in Req, NEW r \in Row, RevokeFind(p, r) PROVE LifeInOrder'
    BY <1>6, <1>a, <1>b, <1>c DEF RevokeFind, LifeInOrder, Drawn, NotSigned, Tell
  <1>7. ASSUME NEW p \in Req, Sign(p) PROVE LifeInOrder'
    BY <1>7, <1>a, <1>b, <1>c DEF Sign, NewJti, LifeInOrder, Drawn, NotSigned, Tell
  <1>8. ASSUME NEW p \in Req, LoginInsert(p) PROVE LifeInOrder'
    BY <1>8, <1>a, <1>b, <1>c DEF LoginInsert, FreshWhenWritten, LifeInOrder, Drawn,
       NotSigned, Tell
  <1>9. ASSUME NEW p \in Req, RefreshWrite(p) PROVE LifeInOrder'
    BY <1>9, <1>a, <1>b, <1>c DEF RefreshWrite, FreshWhenWritten, LifeInOrder, Drawn,
       NotSigned, Tell
  <1>10. ASSUME NEW p \in Req, Revoke(p) PROVE LifeInOrder'
    BY <1>10, <1>a, <1>b, <1>c DEF Revoke, StoredOnce, Found, LifeInOrder, Drawn,
       NotSigned, Tell
  <1>11. ASSUME NEW p \in Req, Block(p) PROVE LifeInOrder'
    BY <1>11, <1>a, <1>b, <1>c DEF Block, LifeInOrder, Drawn, NotSigned, Tell
  <1>12. ASSUME NEW p \in Req, Confirm(p) PROVE LifeInOrder'
    BY <1>12, <1>a, <1>b, <1>c DEF Confirm, RequestsKnow, LifeInOrder, Drawn,
       NotSigned, Tell
  <1>13. ASSUME NEW p \in Req, NEW c \in Jti, Present(p, c) PROVE LifeInOrder'
    BY <1>13, <1>a, <1>b, <1>c DEF Present, LifeInOrder, Drawn, NotSigned, Tell
  <1>14. ASSUME NEW p \in Req, Verify(p) PROVE LifeInOrder'
    BY <1>14, <1>a, <1>b, <1>c DEF Verify, LifeInOrder, Drawn, NotSigned, Tell
  <1>15. ASSUME NEW p \in Req, LookUp(p) PROVE LifeInOrder'
    BY <1>15, <1>a, <1>b, <1>c DEF LookUp, LifeInOrder, Drawn, NotSigned, Tell
  <1>16. ASSUME NEW p \in Req, Told(p) PROVE LifeInOrder'
    BY <1>16, <1>a, <1>b, <1>c DEF Told, LifeInOrder, Drawn, NotSigned, Tell
  <1>17. ASSUME NEW p \in Req, Abort(p) PROVE LifeInOrder'
    BY <1>17, <1>a, <1>b, <1>c DEF Abort, LifeInOrder, Drawn, NotSigned, Tell
  <1>18. CASE UNCHANGED vars
    BY <1>18, <1>a, <1>b, <1>c DEF vars, LifeInOrder, Drawn, NotSigned, Tell
  <1> QED
    BY <1>1, <1>2, <1>3, <1>4, <1>5, <1>6, <1>7, <1>8, <1>9, <1>10, <1>11, <1>12,
       <1>13, <1>14, <1>15, <1>16, <1>17, <1>18 DEF Next

\* A row gets a jti that was given to nobody, and loses the one that is revoked.
LEMMA StoredOnceStep ==
    ClockTyped /\ TablesTyped /\ RequestsTyped /\ LifeInOrder /\ StoredOnce
    /\ FreshWhenWritten /\ [Next]_vars
    => StoredOnce'
  <1> SUFFICES ASSUME ClockTyped /\ TablesTyped /\ RequestsTyped /\ LifeInOrder
                      /\ StoredOnce /\ FreshWhenWritten, [Next]_vars
               PROVE  StoredOnce'
    OBVIOUS
  <1>b. /\ row \in [Row -> 0..MaxJti] /\ MaxJti \in Nat /\ MaxRow \in Nat
        /\ session \subseteq Row /\ gone \subseteq Row /\ direct \subseteq Row
    BY BoundsAreNatural DEF TablesTyped
  <1>c. pc \in [Req -> Step] /\ loc \in [Req -> Local]
    BY DEF RequestsTyped
  <1> USE DEF At, Goto, Leave, tables, tokens, history
  <1>1. ASSUME Tick PROVE StoredOnce'
    BY <1>1, <1>b, <1>c DEF Tick, StoredOnce, Tell
  <1>2. ASSUME NEW r \in Row, Evict(r) PROVE StoredOnce'
    BY <1>2, <1>b, <1>c DEF Evict, StoredOnce, Tell
  <1>3. ASSUME NEW F \in SUBSET Row, FamilyDeleted(F) PROVE StoredOnce'
    BY <1>3, <1>b, <1>c DEF FamilyDeleted, StoredOnce, Tell
  <1>4. ASSUME NEW p \in Req, NEW d \in BOOLEAN, LoginStart(p, d) PROVE StoredOnce'
    BY <1>4, <1>b, <1>c DEF LoginStart, StoredOnce, Tell
  <1>5. ASSUME NEW p \in Req, NEW r \in Row, RefreshRead(p, r) PROVE StoredOnce'
    BY <1>5, <1>b, <1>c DEF RefreshRead, StoredOnce, Tell
  <1>6. ASSUME NEW p \in Req, NEW r \in Row, RevokeFind(p, r) PROVE StoredOnce'
    BY <1>6, <1>b, <1>c DEF RevokeFind, StoredOnce, Tell
  <1>7. ASSUME NEW p \in Req, Sign(p) PROVE StoredOnce'
    BY <1>7, <1>b, <1>c DEF Sign, StoredOnce, Tell
  <1>8. ASSUME NEW p \in Req, LoginInsert(p) PROVE StoredOnce'
    <2>1. loc[p].jti \in Drawn \ answered /\ loc[p].jti # 0
      BY <1>8 DEF LoginInsert, FreshWhenWritten, Drawn, Jti
    <2>2. \A r \in Row : row[r] # loc[p].jti
      BY <2>1 DEF StoredOnce
    <2>3. loc[p].jti \notin revoked
      BY <2>1 DEF LifeInOrder
    <2>4. PICK r \in Row : /\ row' = [row EXCEPT ![r] = loc[p].jti]
                           /\ session' = session \cup {r}
      BY <1>8 DEF LoginInsert
    <2>5. answered' = answered \cup {loc[p].jti} /\ revoked' = revoked
      BY <1>8 DEF LoginInsert
    <2> QED
      BY <1>b, <2>1, <2>2, <2>3, <2>4, <2>5 DEF StoredOnce
  <1>9. ASSUME NEW p \in Req, RefreshWrite(p) PROVE StoredOnce'
    <2>1. loc[p].jti \in Drawn \ answered /\ loc[p].jti # 0
      BY <1>9 DEF RefreshWrite, FreshWhenWritten, Drawn, Jti
    <2>2. \A r \in Row : row[r] # loc[p].jti
      BY <2>1 DEF StoredOnce
    <2>3. loc[p].jti \notin revoked
      BY <2>1 DEF LifeInOrder
    <2>4. /\ row' = [row EXCEPT ![loc[p].row] = loc[p].jti]
          /\ session' = session /\ loc[p].row \in Row
      BY <1>b, <1>9 DEF RefreshWrite
    <2>5. answered' = answered \cup {loc[p].jti} /\ revoked' = revoked
      BY <1>9 DEF RefreshWrite
    <2> QED
      BY <1>b, <2>1, <2>2, <2>3, <2>4, <2>5 DEF StoredOnce
  <1>10. ASSUME NEW p \in Req, Revoke(p) PROVE StoredOnce'
    <2>1. /\ row' = [row EXCEPT ![loc[p].row] = 0]
          /\ session' = session \ {loc[p].row} /\ loc[p].row \in Row
          /\ row[loc[p].row] = loc[p].jti /\ row[loc[p].row] # 0
          /\ answered' = answered /\ revoked' = revoked \cup {loc[p].jti}
      BY <1>b, <1>10 DEF Revoke, Found
    <2> QED
      BY <1>b, <2>1 DEF StoredOnce
  <1>11. ASSUME NEW p \in Req, Block(p) PROVE StoredOnce'
    BY <1>11, <1>b, <1>c DEF Block, StoredOnce, Tell
  <1>12. ASSUME NEW p \in Req, Confirm(p) PROVE StoredOnce'
    BY <1>12, <1>b, <1>c DEF Confirm, StoredOnce, Tell
  <1>13. ASSUME NEW p \in Req, NEW c \in Jti, Present(p, c) PROVE StoredOnce'
    BY <1>13, <1>b, <1>c DEF Present, StoredOnce, Tell
  <1>14. ASSUME NEW p \in Req, Verify(p) PROVE StoredOnce'
    BY <1>14, <1>b, <1>c DEF Verify, StoredOnce, Tell
  <1>15. ASSUME NEW p \in Req, LookUp(p) PROVE StoredOnce'
    BY <1>15, <1>b, <1>c DEF LookUp, StoredOnce, Tell
  <1>16. ASSUME NEW p \in Req, Told(p) PROVE StoredOnce'
    BY <1>16, <1>b, <1>c DEF Told, StoredOnce, Tell
  <1>17. ASSUME NEW p \in Req, Abort(p) PROVE StoredOnce'
    BY <1>17, <1>b, <1>c DEF Abort, StoredOnce, Tell
  <1>18. CASE UNCHANGED vars
    BY <1>18, <1>b, <1>c DEF vars, StoredOnce, Tell
  <1> QED
    BY <1>1, <1>2, <1>3, <1>4, <1>5, <1>6, <1>7, <1>8, <1>9, <1>10, <1>11, <1>12,
       <1>13, <1>14, <1>15, <1>16, <1>17, <1>18 DEF Next

\* Two requests never hold the same new jti.
LEMMA FreshStep ==
    ClockTyped /\ RequestsTyped /\ LifeInOrder /\ FreshWhenWritten /\ [Next]_vars
    => FreshWhenWritten'
  <1> SUFFICES ASSUME ClockTyped /\ RequestsTyped /\ LifeInOrder /\ FreshWhenWritten, [Next]_vars
               PROVE  FreshWhenWritten'
    OBVIOUS
  <1>a. /\ now \in 0..MaxTime /\ MaxTime \in Nat /\ BlockTTL \in Nat
        /\ signed \in [Jti -> 0..NotSigned] /\ blocked \in [Jti -> 0..MaxTime + BlockTTL]
    BY BoundsAreNatural DEF ClockTyped
  <1>c. pc \in [Req -> Step] /\ loc \in [Req -> Local]
    BY DEF RequestsTyped
  <1> USE DEF At, Goto, Leave, tables, tokens, history
  <1>1. ASSUME Tick PROVE FreshWhenWritten'
    BY <1>1, <1>a, <1>c DEF Tick, FreshWhenWritten, Drawn, NotSigned, Tell, Local,
       Step, NoLocal
  <1>2. ASSUME NEW r \in Row, Evict(r) PROVE FreshWhenWritten'
    BY <1>2, <1>a, <1>c DEF Evict, FreshWhenWritten, Drawn, NotSigned, Tell, Local,
       Step, NoLocal
  <1>3. ASSUME NEW F \in SUBSET Row, FamilyDeleted(F) PROVE FreshWhenWritten'
    BY <1>3, <1>a, <1>c DEF FamilyDeleted, FreshWhenWritten, Drawn, NotSigned, Tell,
       Local, Step, NoLocal
  <1>4. ASSUME NEW p \in Req, NEW d \in BOOLEAN, LoginStart(p, d)
        PROVE  FreshWhenWritten'
    BY <1>4, <1>a, <1>c DEF LoginStart, FreshWhenWritten, Drawn, NotSigned, Tell,
       Local, Step, NoLocal
  <1>5. ASSUME NEW p \in Req, NEW r \in Row, RefreshRead(p, r) PROVE FreshWhenWritten'
    BY <1>5, <1>a, <1>c DEF RefreshRead, FreshWhenWritten, Drawn, NotSigned, Tell,
       Local, Step, NoLocal
  <1>6. ASSUME NEW p \in Req, NEW r \in Row, RevokeFind(p, r) PROVE FreshWhenWritten'
    BY <1>6, <1>a, <1>c DEF RevokeFind, FreshWhenWritten, Drawn, NotSigned, Tell,
       Local, Step, NoLocal
  <1>7. ASSUME NEW p \in Req, Sign(p) PROVE FreshWhenWritten'
    <2>1. PICK c \in Jti \ Drawn : /\ signed' = [signed EXCEPT ![c] = now]
                                   /\ loc' = [loc EXCEPT ![p].jti = c]
      BY <1>7 DEF Sign, NewJti
    <2>2. pc' = [pc EXCEPT ![p] = "write"] /\ answered' = answered
      BY <1>7 DEF Sign
    <2>3. Drawn' = Drawn \cup {c}
      BY <1>a, <2>1 DEF Drawn, NotSigned
    <2>4. c \notin answered
      BY <2>1 DEF LifeInOrder
    <2>5. loc'[p].jti = c /\ \A q \in Req \ {p} : loc'[q] = loc[q]
      BY <1>c, <2>1 DEF Local
    <2> QED
      BY <1>c, <2>1, <2>2, <2>3, <2>4, <2>5 DEF FreshWhenWritten
  <1>8. ASSUME NEW p \in Req, LoginInsert(p) PROVE FreshWhenWritten'
    BY <1>8, <1>a, <1>c DEF LoginInsert, FreshWhenWritten, Drawn, NotSigned, Tell,
       Local, Step, NoLocal
  <1>9. ASSUME NEW p \in Req, RefreshWrite(p) PROVE FreshWhenWritten'
    BY <1>9, <1>a, <1>c DEF RefreshWrite, FreshWhenWritten, Drawn, NotSigned, Tell,
       Local, Step, NoLocal
  <1>10. ASSUME NEW p \in Req, Revoke(p) PROVE FreshWhenWritten'
    BY <1>10, <1>a, <1>c DEF Revoke, FreshWhenWritten, Drawn, NotSigned, Tell, Local,
       Step, NoLocal
  <1>11. ASSUME NEW p \in Req, Block(p) PROVE FreshWhenWritten'
    BY <1>11, <1>a, <1>c DEF Block, FreshWhenWritten, Drawn, NotSigned, Tell, Local,
       Step, NoLocal
  <1>12. ASSUME NEW p \in Req, Confirm(p) PROVE FreshWhenWritten'
    BY <1>12, <1>a, <1>c DEF Confirm, FreshWhenWritten, Drawn, NotSigned, Tell, Local,
       Step, NoLocal
  <1>13. ASSUME NEW p \in Req, NEW c \in Jti, Present(p, c) PROVE FreshWhenWritten'
    BY <1>13, <1>a, <1>c DEF Present, FreshWhenWritten, Drawn, NotSigned, Tell, Local,
       Step, NoLocal
  <1>14. ASSUME NEW p \in Req, Verify(p) PROVE FreshWhenWritten'
    BY <1>14, <1>a, <1>c DEF Verify, FreshWhenWritten, Drawn, NotSigned, Tell, Local,
       Step, NoLocal
  <1>15. ASSUME NEW p \in Req, LookUp(p) PROVE FreshWhenWritten'
    BY <1>15, <1>a, <1>c DEF LookUp, FreshWhenWritten, Drawn, NotSigned, Tell, Local,
       Step, NoLocal
  <1>16. ASSUME NEW p \in Req, Told(p) PROVE FreshWhenWritten'
    BY <1>16, <1>a, <1>c DEF Told, FreshWhenWritten, Drawn, NotSigned, Tell, Local,
       Step, NoLocal
  <1>17. ASSUME NEW p \in Req, Abort(p) PROVE FreshWhenWritten'
    BY <1>17, <1>a, <1>c DEF Abort, FreshWhenWritten, Drawn, NotSigned, Tell, Local,
       Step, NoLocal
  <1>18. CASE UNCHANGED vars
    BY <1>18, <1>a, <1>c DEF vars, FreshWhenWritten, Drawn, NotSigned, Tell, Local,
       Step, NoLocal
  <1> QED
    BY <1>1, <1>2, <1>3, <1>4, <1>5, <1>6, <1>7, <1>8, <1>9, <1>10, <1>11, <1>12,
       <1>13, <1>14, <1>15, <1>16, <1>17, <1>18 DEF Next

\* What a request knows of its token stays so.
LEMMA RequestsKnowStep ==
    TablesTyped /\ RequestsTyped /\ LifeInOrder /\ StoredOnce /\ RequestsKnow
    /\ [Next]_vars
    => RequestsKnow'
  <1> SUFFICES ASSUME TablesTyped /\ RequestsTyped /\ LifeInOrder /\ StoredOnce
                      /\ RequestsKnow, [Next]_vars
               PROVE  RequestsKnow'
    OBVIOUS
  <1>b. /\ row \in [Row -> 0..MaxJti] /\ MaxJti \in Nat /\ MaxRow \in Nat
        /\ session \subseteq Row /\ gone \subseteq Row /\ direct \subseteq Row
    BY BoundsAreNatural DEF TablesTyped
  <1>c. pc \in [Req -> Step] /\ loc \in [Req -> Local]
    BY DEF RequestsTyped
  <1> USE DEF At, Goto, Leave, tables, tokens, history
  <1>1. ASSUME Tick PROVE RequestsKnow'
    BY <1>1, <1>b, <1>c DEF Tick, RequestsKnow, Tell, Local, Step, NoLocal
  <1>2. ASSUME NEW r \in Row, Evict(r) PROVE RequestsKnow'
    BY <1>2, <1>b, <1>c DEF Evict, RequestsKnow, Tell, Local, Step, NoLocal
  <1>3. ASSUME NEW F \in SUBSET Row, FamilyDeleted(F) PROVE RequestsKnow'
    BY <1>3, <1>b, <1>c DEF FamilyDeleted, RequestsKnow, Tell, Local, Step, NoLocal
  <1>4. ASSUME NEW p \in Req, NEW d \in BOOLEAN, LoginStart(p, d) PROVE RequestsKnow'
    BY <1>4, <1>b, <1>c DEF LoginStart, RequestsKnow, Tell, Local, Step, NoLocal
  <1>5. ASSUME NEW p \in Req, NEW r \in Row, RefreshRead(p, r) PROVE RequestsKnow'
    BY <1>5, <1>b, <1>c DEF RefreshRead, RequestsKnow, Tell, Local, Step, NoLocal
  <1>6. ASSUME NEW p \in Req, NEW r \in Row, RevokeFind(p, r) PROVE RequestsKnow'
    BY <1>6, <1>b, <1>c DEF RevokeFind, RequestsKnow, Tell, Local, Step, NoLocal
  <1>7. ASSUME NEW p \in Req, Sign(p) PROVE RequestsKnow'
    BY <1>7, <1>b, <1>c DEF Sign, RequestsKnow, Tell, Local, Step, NoLocal
  <1>8. ASSUME NEW p \in Req, LoginInsert(p) PROVE RequestsKnow'
    BY <1>8, <1>b, <1>c DEF LoginInsert, RequestsKnow, Tell, Local, Step, NoLocal
  <1>9. ASSUME NEW p \in Req, RefreshWrite(p) PROVE RequestsKnow'
    BY <1>9, <1>b, <1>c DEF RefreshWrite, RequestsKnow, Tell, Local, Step, NoLocal
  <1>10. ASSUME NEW p \in Req, Revoke(p) PROVE RequestsKnow'
    BY <1>10, <1>b, <1>c DEF Revoke, RequestsKnow, Tell, Local, Step, NoLocal
  <1>11. ASSUME NEW p \in Req, Block(p) PROVE RequestsKnow'
    BY <1>11, <1>b, <1>c DEF Block, RequestsKnow, Tell, Local, Step, NoLocal
  <1>12. ASSUME NEW p \in Req, Confirm(p) PROVE RequestsKnow'
    BY <1>12, <1>b, <1>c DEF Confirm, RequestsKnow, Tell, Local, Step, NoLocal
  <1>13. ASSUME NEW p \in Req, NEW c \in Jti, Present(p, c) PROVE RequestsKnow'
    BY <1>13, <1>b, <1>c DEF Present, RequestsKnow, Tell, Local, Step, NoLocal
  <1>14. ASSUME NEW p \in Req, Verify(p) PROVE RequestsKnow'
    BY <1>14, <1>b, <1>c DEF Verify, RequestsKnow, Tell, Local, Step, NoLocal
  <1>15. ASSUME NEW p \in Req, LookUp(p) PROVE RequestsKnow'
    BY <1>15, <1>b, <1>c DEF LookUp, RequestsKnow, Tell, Local, Step, NoLocal
  <1>16. ASSUME NEW p \in Req, Told(p) PROVE RequestsKnow'
    BY <1>16, <1>b, <1>c DEF Told, RequestsKnow, Tell, Local, Step, NoLocal
  <1>17. ASSUME NEW p \in Req, Abort(p) PROVE RequestsKnow'
    BY <1>17, <1>b, <1>c DEF Abort, RequestsKnow, Tell, Local, Step, NoLocal
  <1>18. CASE UNCHANGED vars
    BY <1>18, <1>b, <1>c DEF vars, RequestsKnow, Tell, Local, Step, NoLocal
  <1> QED
    BY <1>1, <1>2, <1>3, <1>4, <1>5, <1>6, <1>7, <1>8, <1>9, <1>10, <1>11, <1>12,
       <1>13, <1>14, <1>15, <1>16, <1>17, <1>18 DEF Next

\* Nothing is signed for a jti a second time.
LEMMA SignedOnce == ClockTyped /\ [Next]_vars => \A c \in Drawn : signed'[c] = signed[c]
  <1> SUFFICES ASSUME ClockTyped, [Next]_vars
               PROVE  \A c \in Drawn : signed'[c] = signed[c]
    OBVIOUS
  <1>a. /\ now \in 0..MaxTime /\ MaxTime \in Nat /\ BlockTTL \in Nat
        /\ signed \in [Jti -> 0..NotSigned] /\ blocked \in [Jti -> 0..MaxTime + BlockTTL]
    BY BoundsAreNatural DEF ClockTyped
  <1> USE DEF At, Goto, Leave, tables, tokens, history
  <1>1. ASSUME Tick PROVE \A c \in Drawn : signed'[c] = signed[c]
    BY <1>1, <1>a DEF Tick, Drawn, NotSigned, Tell
  <1>2. ASSUME NEW r \in Row, Evict(r) PROVE \A c \in Drawn : signed'[c] = signed[c]
    BY <1>2, <1>a DEF Evict, Drawn, NotSigned, Tell
  <1>3. ASSUME NEW F \in SUBSET Row, FamilyDeleted(F)
        PROVE  \A c \in Drawn : signed'[c] = signed[c]
    BY <1>3, <1>a DEF FamilyDeleted, Drawn, NotSigned, Tell
  <1>4. ASSUME NEW p \in Req, NEW d \in BOOLEAN, LoginStart(p, d)
        PROVE  \A c \in Drawn : signed'[c] = signed[c]
    BY <1>4, <1>a DEF LoginStart, Drawn, NotSigned, Tell
  <1>5. ASSUME NEW p \in Req, NEW r \in Row, RefreshRead(p, r)
        PROVE  \A c \in Drawn : signed'[c] = signed[c]
    BY <1>5, <1>a DEF RefreshRead, Drawn, NotSigned, Tell
  <1>6. ASSUME NEW p \in Req, NEW r \in Row, RevokeFind(p, r)
        PROVE  \A c \in Drawn : signed'[c] = signed[c]
    BY <1>6, <1>a DEF RevokeFind, Drawn, NotSigned, Tell
  <1>7. ASSUME NEW p \in Req, Sign(p) PROVE \A c \in Drawn : signed'[c] = signed[c]
    BY <1>7, <1>a DEF Sign, NewJti, Drawn, NotSigned, Tell
  <1>8. ASSUME NEW p \in Req, LoginInsert(p)
        PROVE  \A c \in Drawn : signed'[c] = signed[c]
    BY <1>8, <1>a DEF LoginInsert, Drawn, NotSigned, Tell
  <1>9. ASSUME NEW p \in Req, RefreshWrite(p)
        PROVE  \A c \in Drawn : signed'[c] = signed[c]
    BY <1>9, <1>a DEF RefreshWrite, Drawn, NotSigned, Tell
  <1>10. ASSUME NEW p \in Req, Revoke(p) PROVE \A c \in Drawn : signed'[c] = signed[c]
    BY <1>10, <1>a DEF Revoke, Drawn, NotSigned, Tell
  <1>11. ASSUME NEW p \in Req, Block(p) PROVE \A c \in Drawn : signed'[c] = signed[c]
    BY <1>11, <1>a DEF Block, Drawn, NotSigned, Tell
  <1>12. ASSUME NEW p \in Req, Confirm(p) PROVE \A c \in Drawn : signed'[c] = signed[c]
    BY <1>12, <1>a DEF Confirm, Drawn, NotSigned, Tell
  <1>13. ASSUME NEW p \in Req, NEW b \in Jti, Present(p, b)
         PROVE  \A c \in Drawn : signed'[c] = signed[c]
    BY <1>13, <1>a DEF Present, Drawn, NotSigned, Tell
  <1>14. ASSUME NEW p \in Req, Verify(p) PROVE \A c \in Drawn : signed'[c] = signed[c]
    BY <1>14, <1>a DEF Verify, Drawn, NotSigned, Tell
  <1>15. ASSUME NEW p \in Req, LookUp(p) PROVE \A c \in Drawn : signed'[c] = signed[c]
    BY <1>15, <1>a DEF LookUp, Drawn, NotSigned, Tell
  <1>16. ASSUME NEW p \in Req, Told(p) PROVE \A c \in Drawn : signed'[c] = signed[c]
    BY <1>16, <1>a DEF Told, Drawn, NotSigned, Tell
  <1>17. ASSUME NEW p \in Req, Abort(p) PROVE \A c \in Drawn : signed'[c] = signed[c]
    BY <1>17, <1>a DEF Abort, Drawn, NotSigned, Tell
  <1>18. CASE UNCHANGED vars
    BY <1>18, <1>a DEF vars, Drawn, NotSigned, Tell
  <1> QED
    BY <1>1, <1>2, <1>3, <1>4, <1>5, <1>6, <1>7, <1>8, <1>9, <1>10, <1>11, <1>12,
       <1>13, <1>14, <1>15, <1>16, <1>17, <1>18 DEF Next

\* An entry is written BlockTTL ahead of a clock the signature is not ahead of.
LEMMA EntriesLastStep ==
    ClockTyped /\ RequestsTyped /\ LifeInOrder /\ RequestsKnow /\ EntriesLast
    /\ [Next]_vars
    => EntriesLast'
  <1> SUFFICES ASSUME ClockTyped /\ RequestsTyped /\ LifeInOrder /\ RequestsKnow
                      /\ EntriesLast, [Next]_vars
               PROVE  EntriesLast'
    OBVIOUS
  <1>a. /\ now \in 0..MaxTime /\ MaxTime \in Nat /\ BlockTTL \in Nat
        /\ signed \in [Jti -> 0..NotSigned] /\ blocked \in [Jti -> 0..MaxTime + BlockTTL]
    BY BoundsAreNatural DEF ClockTyped
  <1>c. pc \in [Req -> Step] /\ loc \in [Req -> Local]
    BY DEF RequestsTyped
  <1>e. AccessLife \in Nat
    BY BoundsAreNatural
  <1>d. \A c \in Drawn : signed'[c] = signed[c]
    BY SignedOnce
  <1>f. revoked \subseteq Drawn /\ confirmed \subseteq Drawn /\ Drawn \subseteq Jti
    BY DEF LifeInOrder, Drawn
  <1>g. \A p \in Req : At(p, "confirm") => loc[p].jti \in Drawn
    BY <1>f DEF RequestsKnow, At
  <1> USE DEF At, Goto, Leave, tables, tokens, history
  <1>1. ASSUME Tick PROVE EntriesLast'
    BY <1>1, <1>a, <1>c, <1>d, <1>e, <1>f, <1>g DEF Tick, EntriesLast, Outlived, Tell,
       Local, Step, NoLocal
  <1>2. ASSUME NEW r \in Row, Evict(r) PROVE EntriesLast'
    BY <1>2, <1>a, <1>c, <1>d, <1>e, <1>f, <1>g DEF Evict, EntriesLast, Outlived,
       Tell, Local, Step, NoLocal
  <1>3. ASSUME NEW F \in SUBSET Row, FamilyDeleted(F) PROVE EntriesLast'
    BY <1>3, <1>a, <1>c, <1>d, <1>e, <1>f, <1>g DEF FamilyDeleted, EntriesLast,
       Outlived, Tell, Local, Step, NoLocal
  <1>4. ASSUME NEW p \in Req, NEW d \in BOOLEAN, LoginStart(p, d) PROVE EntriesLast'
    BY <1>4, <1>a, <1>c, <1>d, <1>e, <1>f, <1>g DEF LoginStart, EntriesLast, Outlived,
       Tell, Local, Step, NoLocal
  <1>5. ASSUME NEW p \in Req, NEW r \in Row, RefreshRead(p, r) PROVE EntriesLast'
    BY <1>5, <1>a, <1>c, <1>d, <1>e, <1>f, <1>g DEF RefreshRead, EntriesLast,
       Outlived, Tell, Local, Step, NoLocal
  <1>6. ASSUME NEW p \in Req, NEW r \in Row, RevokeFind(p, r) PROVE EntriesLast'
    BY <1>6, <1>a, <1>c, <1>d, <1>e, <1>f, <1>g DEF RevokeFind, EntriesLast, Outlived,
       Tell, Local, Step, NoLocal
  <1>7. ASSUME NEW p \in Req, Sign(p) PROVE EntriesLast'
    BY <1>7, <1>a, <1>c, <1>d, <1>e, <1>f, <1>g DEF Sign, EntriesLast, Outlived, Tell,
       Local, Step, NoLocal
  <1>8. ASSUME NEW p \in Req, LoginInsert(p) PROVE EntriesLast'
    BY <1>8, <1>a, <1>c, <1>d, <1>e, <1>f, <1>g DEF LoginInsert, EntriesLast,
       Outlived, Tell, Local, Step, NoLocal
  <1>9. ASSUME NEW p \in Req, RefreshWrite(p) PROVE EntriesLast'
    BY <1>9, <1>a, <1>c, <1>d, <1>e, <1>f, <1>g DEF RefreshWrite, EntriesLast,
       Outlived, Tell, Local, Step, NoLocal
  <1>10. ASSUME NEW p \in Req, Revoke(p) PROVE EntriesLast'
    BY <1>10, <1>a, <1>c, <1>d, <1>e, <1>f, <1>g DEF Revoke, EntriesLast, Outlived,
       Tell, Local, Step, NoLocal
  <1>11. ASSUME NEW p \in Req, Block(p) PROVE EntriesLast'
    <2>0. PICK c : c = loc[p].jti
      OBVIOUS
    <2>1. c \in revoked /\ c \in Drawn /\ c \in Jti /\ signed[c] <= now /\ signed[c] \in Nat
      BY <1>a, <1>f, <2>0, <1>11 DEF Block, RequestsKnow, LifeInOrder
    <2>2. /\ blocked' = [blocked EXCEPT ![c] = now + BlockTTL]
          /\ pc' = [pc EXCEPT ![p] = "confirm"]
          /\ UNCHANGED <<signed, loc, revoked, confirmed>>
      BY <2>0, <1>11 DEF Block, EntryFor
    <2>3. Outlived(c)'
      BY <1>a, <1>e, <2>1, <2>2 DEF Outlived
    <2>4. \A d \in Jti \ {c} : blocked'[d] = blocked[d] /\ signed'[d] = signed[d]
      BY <1>a, <2>2
    <2>5. \A d \in Jti : Outlived(d) => Outlived(d)'
      BY <2>3, <2>4 DEF Outlived
    <2>6. \A d \in Jti : blocked'[d] # 0 => d \in revoked'
      BY <1>a, <2>1, <2>2, <2>4 DEF EntriesLast
    <2>7. \A d \in confirmed' : Outlived(d)'
      BY <1>f, <2>2, <2>5 DEF EntriesLast
    <2>8. \A q \in Req : At(q, "confirm")' => Outlived(loc[q].jti)'
      BY <1>c, <1>f, <1>g, <2>0, <2>2, <2>3, <2>5 DEF EntriesLast
    <2> QED
      BY <2>6, <2>7, <2>8 DEF EntriesLast
  <1>12. ASSUME NEW p \in Req, Confirm(p) PROVE EntriesLast'
    BY <1>12, <1>a, <1>c, <1>d, <1>e, <1>f, <1>g DEF Confirm, EntriesLast, Outlived,
       Tell, Local, Step, NoLocal
  <1>13. ASSUME NEW p \in Req, NEW c \in Jti, Present(p, c) PROVE EntriesLast'
    BY <1>13, <1>a, <1>c, <1>d, <1>e, <1>f, <1>g DEF Present, EntriesLast, Outlived,
       Tell, Local, Step, NoLocal
  <1>14. ASSUME NEW p \in Req, Verify(p) PROVE EntriesLast'
    BY <1>14, <1>a, <1>c, <1>d, <1>e, <1>f, <1>g DEF Verify, EntriesLast, Outlived,
       Tell, Local, Step, NoLocal
  <1>15. ASSUME NEW p \in Req, LookUp(p) PROVE EntriesLast'
    BY <1>15, <1>a, <1>c, <1>d, <1>e, <1>f, <1>g DEF LookUp, EntriesLast, Outlived,
       Tell, Local, Step, NoLocal
  <1>16. ASSUME NEW p \in Req, Told(p) PROVE EntriesLast'
    BY <1>16, <1>a, <1>c, <1>d, <1>e, <1>f, <1>g DEF Told, EntriesLast, Outlived,
       Tell, Local, Step, NoLocal
  <1>17. ASSUME NEW p \in Req, Abort(p) PROVE EntriesLast'
    BY <1>17, <1>a, <1>c, <1>d, <1>e, <1>f, <1>g DEF Abort, EntriesLast, Outlived,
       Tell, Local, Step, NoLocal
  <1>18. CASE UNCHANGED vars
    BY <1>18, <1>a, <1>c, <1>d, <1>e, <1>f, <1>g DEF vars, EntriesLast, Outlived,
       Tell, Local, Step, NoLocal
  <1> QED
    BY <1>1, <1>2, <1>3, <1>4, <1>5, <1>6, <1>7, <1>8, <1>9, <1>10, <1>11, <1>12,
       <1>13, <1>14, <1>15, <1>16, <1>17, <1>18 DEF Next

\* The verdict inactive, on a token that expired or was revoked.
LEMMA DeadIsInactive ==
    ASSUME ClockTyped, RequestsTyped, LifeInOrder, RequestsKnow,
           RevokedInactive, InactiveWasRevoked,
           NEW p \in Req, Tell(p, FALSE), loc[p].jti \in Drawn,
           now >= signed[loc[p].jti] + AccessLife \/ loc[p].jti \in revoked
    PROVE  RevokedInactive' /\ InactiveWasRevoked'
  <1>1. /\ pc' = [pc EXCEPT ![p] = "told"]
        /\ loc' = [loc EXCEPT ![p].active = FALSE, ![p].at = now]
        /\ UNCHANGED <<signed, revoked>>
    BY DEF Tell, Goto, tokens, history
  <1>2. /\ loc'[p].active = FALSE /\ loc'[p].at = now
        /\ loc'[p].jti = loc[p].jti /\ loc'[p].knew = loc[p].knew
        /\ \A q \in Req \ {p} : loc'[q] = loc[q] /\ pc'[q] = pc[q]
    BY <1>1 DEF RequestsTyped, Local
  <1>3. RevokedInactive'
    <2> SUFFICES ASSUME AccessLife <= BlockTTL, NEW q \in Req, pc'[q] = "told",
                        loc'[q].active, loc'[q].jti \in loc'[q].knew
                 PROVE  loc'[q].at >= signed'[loc'[q].jti] + AccessLife
      BY DEF RevokedInactive, At
    <2>1. CASE q = p
      BY <1>1, <1>2, <2>1
    <2>2. CASE q # p
      BY <1>1, <1>2, <2>2 DEF RevokedInactive, At
    <2> QED
      BY <2>1, <2>2
  <1>4. InactiveWasRevoked'
    <2> SUFFICES ASSUME NEW q \in Req, pc'[q] = "told", ~ loc'[q].active
                 PROVE  \/ loc'[q].at >= signed'[loc'[q].jti] + AccessLife
                        \/ loc'[q].jti \in revoked'
      BY DEF InactiveWasRevoked, At
    <2>1. CASE q = p
      BY <1>1, <1>2, <2>1
    <2>2. CASE q # p
      <3>1. /\ loc'[q] = loc[q] /\ pc'[q] = pc[q]
            /\ signed' = signed /\ revoked' = revoked
        BY <1>1, <1>2, <2>2
      <3>2. At(q, "told") /\ ~ loc[q].active
        BY <3>1, Zenon DEF At
      <3>3. \/ loc[q].at >= signed[loc[q].jti] + AccessLife
            \/ loc[q].jti \in revoked
        BY <3>2, Zenon DEF InactiveWasRevoked
      <3> QED
        BY <3>1, <3>3, Zenon
    <2> QED
      BY <2>1, <2>2
  <1> QED
    BY <1>3, <1>4

\* The verdict active, on a token that lives or was not known to be revoked.
LEMMA AliveIsActive ==
    ASSUME ClockTyped, RequestsTyped, LifeInOrder, RequestsKnow,
           RevokedInactive, InactiveWasRevoked,
           NEW p \in Req, Tell(p, TRUE), loc[p].jti \in Drawn,
           AccessLife <= BlockTTL /\ loc[p].jti \in loc[p].knew
              => now >= signed[loc[p].jti] + AccessLife
    PROVE  RevokedInactive' /\ InactiveWasRevoked'
  <1>1. /\ pc' = [pc EXCEPT ![p] = "told"]
        /\ loc' = [loc EXCEPT ![p].active = TRUE, ![p].at = now]
        /\ UNCHANGED <<signed, revoked>>
    BY DEF Tell, Goto, tokens, history
  <1>2. /\ loc'[p].active = TRUE /\ loc'[p].at = now
        /\ loc'[p].jti = loc[p].jti /\ loc'[p].knew = loc[p].knew
        /\ \A q \in Req \ {p} : loc'[q] = loc[q] /\ pc'[q] = pc[q]
    BY <1>1 DEF RequestsTyped, Local
  <1>3. RevokedInactive'
    <2> SUFFICES ASSUME AccessLife <= BlockTTL, NEW q \in Req, pc'[q] = "told",
                        loc'[q].active, loc'[q].jti \in loc'[q].knew
                 PROVE  loc'[q].at >= signed'[loc'[q].jti] + AccessLife
      BY DEF RevokedInactive, At
    <2>1. CASE q = p
      BY <1>1, <1>2, <2>1
    <2>2. CASE q # p
      BY <1>1, <1>2, <2>2 DEF RevokedInactive, At
    <2> QED
      BY <2>1, <2>2
  <1>4. InactiveWasRevoked'
    <2> SUFFICES ASSUME NEW q \in Req, pc'[q] = "told", ~ loc'[q].active
                 PROVE  \/ loc'[q].at >= signed'[loc'[q].jti] + AccessLife
                        \/ loc'[q].jti \in revoked'
      BY DEF InactiveWasRevoked, At
    <2>1. CASE q = p
      BY <1>1, <1>2, <2>1
    <2>2. CASE q # p
      <3>1. /\ loc'[q] = loc[q] /\ pc'[q] = pc[q]
            /\ signed' = signed /\ revoked' = revoked
        BY <1>1, <1>2, <2>2
      <3>2. At(q, "told") /\ ~ loc[q].active
        BY <3>1, Zenon DEF At
      <3>3. \/ loc[q].at >= signed[loc[q].jti] + AccessLife
            \/ loc[q].jti \in revoked
        BY <3>2, Zenon DEF InactiveWasRevoked
      <3> QED
        BY <3>1, <3>3, Zenon
    <2> QED
      BY <2>1, <2>2
  <1> QED
    BY <1>3, <1>4

\* A verdict is reached by what the clock and the blocklist say.
LEMMA VerdictsStep ==
    ClockTyped /\ RequestsTyped /\ LifeInOrder /\ RequestsKnow /\ EntriesLast
    /\ RevokedInactive /\ InactiveWasRevoked /\ [Next]_vars
    => RevokedInactive' /\ InactiveWasRevoked'
  <1> SUFFICES ASSUME ClockTyped /\ RequestsTyped /\ LifeInOrder /\ RequestsKnow
                      /\ EntriesLast /\ RevokedInactive
                      /\ InactiveWasRevoked, [Next]_vars
               PROVE  RevokedInactive' /\ InactiveWasRevoked'
    OBVIOUS
  <1>a. /\ now \in 0..MaxTime /\ MaxTime \in Nat /\ BlockTTL \in Nat
        /\ signed \in [Jti -> 0..NotSigned] /\ blocked \in [Jti -> 0..MaxTime + BlockTTL]
    BY BoundsAreNatural DEF ClockTyped
  <1>c. pc \in [Req -> Step] /\ loc \in [Req -> Local]
    BY DEF RequestsTyped
  <1>e. AccessLife \in Nat
    BY BoundsAreNatural
  <1>d. \A c \in Drawn : signed'[c] = signed[c]
    BY SignedOnce
  <1>f. \A p \in Req : pc[p] \in {"verify", "lookup", "told"}
           => loc[p].jti \in Drawn /\ loc[p].jti \in Jti
    BY DEF LifeInOrder, RequestsKnow, Drawn
  <1> USE DEF At, Goto, Leave, tables, tokens, history
  <1>1. ASSUME Tick PROVE RevokedInactive' /\ InactiveWasRevoked'
    BY <1>1, <1>a, <1>c, <1>d, <1>e, <1>f DEF Tick, RevokedInactive,
       InactiveWasRevoked, Tell, Local, Step, NoLocal
  <1>2. ASSUME NEW r \in Row, Evict(r) PROVE RevokedInactive' /\ InactiveWasRevoked'
    BY <1>2, <1>a, <1>c, <1>d, <1>e, <1>f DEF Evict, RevokedInactive,
       InactiveWasRevoked, Tell, Local, Step, NoLocal
  <1>3. ASSUME NEW F \in SUBSET Row, FamilyDeleted(F)
        PROVE  RevokedInactive' /\ InactiveWasRevoked'
    BY <1>3, <1>a, <1>c, <1>d, <1>e, <1>f DEF FamilyDeleted, RevokedInactive,
       InactiveWasRevoked, Tell, Local, Step, NoLocal
  <1>4. ASSUME NEW p \in Req, NEW d \in BOOLEAN, LoginStart(p, d)
        PROVE  RevokedInactive' /\ InactiveWasRevoked'
    BY <1>4, <1>a, <1>c, <1>d, <1>e, <1>f DEF LoginStart, RevokedInactive,
       InactiveWasRevoked, Tell, Local, Step, NoLocal
  <1>5. ASSUME NEW p \in Req, NEW r \in Row, RefreshRead(p, r)
        PROVE  RevokedInactive' /\ InactiveWasRevoked'
    BY <1>5, <1>a, <1>c, <1>d, <1>e, <1>f DEF RefreshRead, RevokedInactive,
       InactiveWasRevoked, Tell, Local, Step, NoLocal
  <1>6. ASSUME NEW p \in Req, NEW r \in Row, RevokeFind(p, r)
        PROVE  RevokedInactive' /\ InactiveWasRevoked'
    BY <1>6, <1>a, <1>c, <1>d, <1>e, <1>f DEF RevokeFind, RevokedInactive,
       InactiveWasRevoked, Tell, Local, Step, NoLocal
  <1>7. ASSUME NEW p \in Req, Sign(p) PROVE RevokedInactive' /\ InactiveWasRevoked'
    BY <1>7, <1>a, <1>c, <1>d, <1>e, <1>f DEF Sign, RevokedInactive,
       InactiveWasRevoked, Tell, Local, Step, NoLocal
  <1>8. ASSUME NEW p \in Req, LoginInsert(p)
        PROVE  RevokedInactive' /\ InactiveWasRevoked'
    BY <1>8, <1>a, <1>c, <1>d, <1>e, <1>f DEF LoginInsert, RevokedInactive,
       InactiveWasRevoked, Tell, Local, Step, NoLocal
  <1>9. ASSUME NEW p \in Req, RefreshWrite(p)
        PROVE  RevokedInactive' /\ InactiveWasRevoked'
    BY <1>9, <1>a, <1>c, <1>d, <1>e, <1>f DEF RefreshWrite, RevokedInactive,
       InactiveWasRevoked, Tell, Local, Step, NoLocal
  <1>10. ASSUME NEW p \in Req, Revoke(p) PROVE RevokedInactive' /\ InactiveWasRevoked'
    BY <1>10, <1>a, <1>c, <1>d, <1>e, <1>f DEF Revoke, RevokedInactive,
       InactiveWasRevoked, Tell, Local, Step, NoLocal
  <1>11. ASSUME NEW p \in Req, Block(p) PROVE RevokedInactive' /\ InactiveWasRevoked'
    BY <1>11, <1>a, <1>c, <1>d, <1>e, <1>f DEF Block, RevokedInactive,
       InactiveWasRevoked, Tell, Local, Step, NoLocal
  <1>12. ASSUME NEW p \in Req, Confirm(p) PROVE RevokedInactive' /\ InactiveWasRevoked'
    BY <1>12, <1>a, <1>c, <1>d, <1>e, <1>f DEF Confirm, RevokedInactive,
       InactiveWasRevoked, Tell, Local, Step, NoLocal
  <1>13. ASSUME NEW p \in Req, NEW c \in Jti, Present(p, c)
         PROVE  RevokedInactive' /\ InactiveWasRevoked'
    BY <1>13, <1>a, <1>c, <1>d, <1>e, <1>f DEF Present, RevokedInactive,
       InactiveWasRevoked, Tell, Local, Step, NoLocal
  <1>14. ASSUME NEW p \in Req, Verify(p) PROVE RevokedInactive' /\ InactiveWasRevoked'
    <2>1. CASE Expired(loc[p].jti)
      <3>1. Tell(p, FALSE)
        BY <1>14, <2>1 DEF Verify
      <3>2. loc[p].jti \in Drawn /\ now >= signed[loc[p].jti] + AccessLife
        BY <1>f, <1>14, <2>1 DEF Verify, Expired
      <3> QED
        BY <3>1, <3>2, DeadIsInactive
    <2>2. CASE ~ Expired(loc[p].jti)
      <3>1. pc' = [pc EXCEPT ![p] = "lookup"] /\ UNCHANGED <<loc, revoked, signed>>
        BY <1>14, <2>2 DEF Verify
      <3> QED
        BY <1>c, <3>1 DEF RevokedInactive, InactiveWasRevoked
    <2> QED
      BY <2>1, <2>2
  <1>15. ASSUME NEW p \in Req, LookUp(p) PROVE RevokedInactive' /\ InactiveWasRevoked'
    <2>1. /\ loc[p].jti \in Drawn /\ loc[p].jti \in Jti
          /\ loc[p].knew \subseteq confirmed
      BY <1>f, <1>15 DEF LookUp, RequestsKnow
    <2>2. CASE OnBlockList(loc[p].jti)
      <3>1. Tell(p, FALSE)
        BY <1>15, <2>2 DEF LookUp
      <3>2. loc[p].jti \in revoked
        BY <1>a, <2>1, <2>2 DEF OnBlockList, EntriesLast
      <3> QED
        BY <2>1, <3>1, <3>2, DeadIsInactive
    <2>3. CASE ~ OnBlockList(loc[p].jti)
      <3>1. Tell(p, TRUE)
        BY <1>15, <2>3 DEF LookUp
      <3>2. AccessLife <= BlockTTL /\ loc[p].jti \in loc[p].knew
               => now >= signed[loc[p].jti] + AccessLife
        BY <1>a, <1>e, <2>1, <2>3 DEF OnBlockList, EntriesLast, Outlived
      <3> QED
        BY <2>1, <3>1, <3>2, AliveIsActive
    <2> QED
      BY <2>2, <2>3
  <1>16. ASSUME NEW p \in Req, Told(p) PROVE RevokedInactive' /\ InactiveWasRevoked'
    BY <1>16, <1>a, <1>c, <1>d, <1>e, <1>f DEF Told, RevokedInactive,
       InactiveWasRevoked, Tell, Local, Step, NoLocal
  <1>17. ASSUME NEW p \in Req, Abort(p) PROVE RevokedInactive' /\ InactiveWasRevoked'
    BY <1>17, <1>a, <1>c, <1>d, <1>e, <1>f DEF Abort, RevokedInactive,
       InactiveWasRevoked, Tell, Local, Step, NoLocal
  <1>18. CASE UNCHANGED vars
    BY <1>18, <1>a, <1>c, <1>d, <1>e, <1>f DEF vars, RevokedInactive,
       InactiveWasRevoked, Tell, Local, Step, NoLocal
  <1> QED
    BY <1>1, <1>2, <1>3, <1>4, <1>5, <1>6, <1>7, <1>8, <1>9, <1>10, <1>11, <1>12,
       <1>13, <1>14, <1>15, <1>16, <1>17, <1>18 DEF Next

\* A revocation is not undone.
LEMMA RevokedGrows == IInv /\ [Next]_vars => revoked \subseteq revoked'
  <1> SUFFICES ASSUME IInv, [Next]_vars PROVE revoked \subseteq revoked'
    OBVIOUS
  <1> USE DEF At, Goto, Leave, tables, tokens, history
  <1>1. ASSUME Tick PROVE revoked \subseteq revoked'
    BY <1>1 DEF Tick, Tell
  <1>2. ASSUME NEW r \in Row, Evict(r) PROVE revoked \subseteq revoked'
    BY <1>2 DEF Evict, Tell
  <1>3. ASSUME NEW F \in SUBSET Row, FamilyDeleted(F) PROVE revoked \subseteq revoked'
    BY <1>3 DEF FamilyDeleted, Tell
  <1>4. ASSUME NEW p \in Req, NEW d \in BOOLEAN, LoginStart(p, d)
        PROVE  revoked \subseteq revoked'
    BY <1>4 DEF LoginStart, Tell
  <1>5. ASSUME NEW p \in Req, NEW r \in Row, RefreshRead(p, r)
        PROVE  revoked \subseteq revoked'
    BY <1>5 DEF RefreshRead, Tell
  <1>6. ASSUME NEW p \in Req, NEW r \in Row, RevokeFind(p, r)
        PROVE  revoked \subseteq revoked'
    BY <1>6 DEF RevokeFind, Tell
  <1>7. ASSUME NEW p \in Req, Sign(p) PROVE revoked \subseteq revoked'
    BY <1>7 DEF Sign, Tell
  <1>8. ASSUME NEW p \in Req, LoginInsert(p) PROVE revoked \subseteq revoked'
    BY <1>8 DEF LoginInsert, Tell
  <1>9. ASSUME NEW p \in Req, RefreshWrite(p) PROVE revoked \subseteq revoked'
    BY <1>9 DEF RefreshWrite, Tell
  <1>10. ASSUME NEW p \in Req, Revoke(p) PROVE revoked \subseteq revoked'
    BY <1>10 DEF Revoke, Tell
  <1>11. ASSUME NEW p \in Req, Block(p) PROVE revoked \subseteq revoked'
    BY <1>11 DEF Block, Tell
  <1>12. ASSUME NEW p \in Req, Confirm(p) PROVE revoked \subseteq revoked'
    BY <1>12 DEF Confirm, Tell
  <1>13. ASSUME NEW p \in Req, NEW c \in Jti, Present(p, c)
         PROVE  revoked \subseteq revoked'
    BY <1>13 DEF Present, Tell
  <1>14. ASSUME NEW p \in Req, Verify(p) PROVE revoked \subseteq revoked'
    BY <1>14 DEF Verify, Tell
  <1>15. ASSUME NEW p \in Req, LookUp(p) PROVE revoked \subseteq revoked'
    BY <1>15 DEF LookUp, Tell
  <1>16. ASSUME NEW p \in Req, Told(p) PROVE revoked \subseteq revoked'
    BY <1>16 DEF Told, Tell
  <1>17. ASSUME NEW p \in Req, Abort(p) PROVE revoked \subseteq revoked'
    BY <1>17 DEF Abort, Tell
  <1>18. CASE UNCHANGED vars
    BY <1>18 DEF vars, Tell
  <1> QED
    BY <1>1, <1>2, <1>3, <1>4, <1>5, <1>6, <1>7, <1>8, <1>9, <1>10, <1>11, <1>12,
       <1>13, <1>14, <1>15, <1>16, <1>17, <1>18 DEF Next

-----------------------------------------------------------------------------
(* The theorems. *)

\* Nothing is signed, and nothing is blocked.
LEMMA InitIInv == Init => IInv
  <1> SUFFICES ASSUME Init PROVE IInv
    OBVIOUS
  <1>1. ClockTyped /\ TablesTyped
    BY BoundsAreNatural DEF Init, ClockTyped, TablesTyped, NotSigned
  <1>2. NoLocal \in Local
    BY BoundsAreNatural DEF NoLocal, Local
  <1>3. RequestsTyped
    BY <1>2 DEF Init, RequestsTyped, Step
  <1>4. LifeInOrder /\ StoredOnce
    BY DEF Init, LifeInOrder, StoredOnce, Drawn
  <1>5. FreshWhenWritten /\ RequestsKnow /\ EntriesLast
    BY DEF Init, FreshWhenWritten, RequestsKnow, EntriesLast, At
  <1>6. RevokedInactive /\ InactiveWasRevoked
    BY DEF Init, RevokedInactive, InactiveWasRevoked, At
  <1> QED
    BY <1>1, <1>3, <1>4, <1>5, <1>6 DEF IInv

\* In every behaviour of logins, refreshes, revocations and introspections the
\* inductive invariant holds throughout.
THEOREM Invariance == Spec => []IInv
  <1>1. IInv /\ [Next]_vars => IInv'
    BY ClockTypedStep, RequestsTypedStep, TablesTypedStep, LifeInOrderStep,
       StoredOnceStep,
       FreshStep, RequestsKnowStep, EntriesLastStep, VerdictsStep DEF IInv
  <1> QED
    BY InitIInv, <1>1, PTL DEF Spec

\* The tables, the tokens and the requests keep their shapes; a jti is in one
\* row at most, and a session has a token some client was given.
THEOREM TypeCorrect == Spec => []TypeOK
  <1>1. IInv => TypeOK
    <2> SUFFICES ASSUME IInv PROVE TypeOK
      OBVIOUS
    <2>1. ClockTyped /\ TablesTyped /\ RequestsTyped /\ LifeInOrder /\ StoredOnce
      BY DEF IInv
    <2>2. revoked \subseteq Jti
      BY <2>1 DEF LifeInOrder, Drawn
    <2>3. \A r \in session : row[r] # 0 /\ row[r] \in answered
      BY <2>1 DEF StoredOnce, TablesTyped
    <2>4. {session, gone, direct} \subseteq SUBSET Row
      BY <2>1 DEF TablesTyped
    <2>5. loc \in [Req -> [row: 0..MaxRow, jti: 0..MaxJti, old: 0..MaxJti, direct: BOOLEAN,
                           knew: SUBSET Jti, active: BOOLEAN, at: 0..MaxTime]]
      BY <2>1 DEF RequestsTyped, Local
    <2> QED
      BY <2>1, <2>2, <2>3, <2>4, <2>5
      DEF ClockTyped, TablesTyped, RequestsTyped, LifeInOrder, StoredOnce, TypeOK
  <1> QED
    BY <1>1, Invariance, PTL

\* After a confirmed revocation no introspection calls the token active, as long
\* as a token does not live longer than a blocklist entry.
THEOREM RevocationIsSeen == Spec => []RevokedInactive
  <1>1. IInv => RevokedInactive
    BY DEF IInv
  <1> QED
    BY <1>1, Invariance, PTL

\* A token is called inactive before its time only after it was revoked.
THEOREM InactivityIsEarned == Spec => []InactiveWasRevoked
  <1>1. IInv => InactiveWasRevoked
    BY DEF IInv
  <1> QED
    BY <1>1, Invariance, PTL

\* No step stores a revoked jti again or signs for it a second time.
THEOREM RevocationIsFinal == Spec => RevokedStaysOut
  <1>1. IInv /\ [Next]_vars => IInv'
    BY ClockTypedStep, RequestsTypedStep, TablesTypedStep, LifeInOrderStep,
       StoredOnceStep,
       FreshStep, RequestsKnowStep, EntriesLastStep, VerdictsStep DEF IInv
  <1>2. IInv /\ [Next]_vars => revoked \subseteq revoked'
    BY RevokedGrows
  <1>3. IInv /\ [Next]_vars
           => [\A c \in revoked : /\ \A r \in Row : row'[r] # c
                                  /\ signed'[c] = signed[c]]_vars
    <2> SUFFICES ASSUME IInv, [Next]_vars, NEW c \in revoked
                 PROVE  (\A r \in Row : row'[r] # c) /\ signed'[c] = signed[c]
      OBVIOUS
    <2>1. c \in Drawn
      BY DEF IInv, LifeInOrder
    <2>2. c \in revoked' /\ c # 0
      BY <1>2, <2>1 DEF Drawn, Jti
    <2>3. \A r \in Row : row'[r] # 0 => row'[r] \notin revoked'
      BY <1>1 DEF IInv, StoredOnce
    <2> QED
      BY <2>1, <2>2, <2>3, SignedOnce DEF IInv
  <1> QED
    BY <1>3, Invariance, PTL DEF Spec, RevokedStaysOut
===============================================================================
