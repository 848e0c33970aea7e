-------------------------- MODULE TokenSessionInv --------------------------
(***************************************************************************)
(* The inductive invariant behind the safety of TokenSession: TLC checks   *)
(* it on small instances, TokenSessionProofs proves it for all.            *)
(***************************************************************************)
EXTENDS TokenSession

\* A request that is neither idle nor a login has a credential in hand.
CredInHand ==
    \A p \in Req : pc[p] \notin {"idle", "count", "evict", "insert"} => loc[p].cred \in Cred

\* A family deletion holds rows only between its two statements, and nothing
\* takes a held row out of the table.
HeldStored ==
    \A p \in Req :
        /\ pc[p] # "killSessions" => held[p] = {}
        /\ \A r \in held[p] : Stored(tok, r)

\* Credentials beyond lastCred are in no row and in nobody's past.
DrawnOnly ==
    /\ \A r \in Row : Stored(tok, r) => tok[r].cred <= lastCred
    /\ \A d \in Cred : parent[d] <= lastCred

\* A credential is only ever found in the row it was written to.
AtHome == \A r \in Row : Stored(tok, r) => home[tok[r].cred] = r

\* A rotation holds the id of the row its credential was written to.
RotateAtHome ==
    \A p \in Req : pc[p] = "rotate" =>
        /\ loc[p].cred \in 1..lastCred
        /\ home[loc[p].cred] = loc[p].row

\* The jti of a stored session has not been redeemed.
StoredUnspent == \A r \in Row : Stored(sess, r) => ~ Spent(sess[r].cred)

\* Nothing can be obtained from a revoked credential any more.
Dead(c) ==
    /\ c \in 1..lastCred
    /\ ~ Spent(c)
    /\ \A r \in Row : Stored(tok, r) => tok[r].cred # c

RevokedDead ==
    /\ \A c \in blocklist : Dead(c)
    /\ \A p \in Req : pc[p] = "block" => Dead(loc[p].cred)

\* RedeemedOnce, SessionPairsToken and RevokedNotRedeemed, made inductive: a
\* rotation finds its own session only if nobody has redeemed or revoked the
\* credential since it was read.
TableInv ==
    /\ TypeOK /\ CredInHand /\ HeldStored
    /\ DrawnOnly /\ AtHome /\ RotateAtHome
    /\ SessionPairsToken /\ StoredUnspent /\ RedeemedOnce /\ RevokedDead

-----------------------------------------------------------------------------
(* What becomes of a credential's row. *)

\* The credentials up to lastCred are those that were written to a row, and no
\* request has any other in hand.
WrittenToRows ==
    /\ \A c \in Cred : home[c] <= lastRow /\ (home[c] # 0 <=> c <= lastCred)
    /\ \A p \in Req :
          pc[p] \notin {"idle", "count", "evict", "insert"} => loc[p].cred <= lastCred
    /\ stillborn \cup reported \subseteq 1..lastCred

\* The row a login is about to write is its own, and was never written.
RowsFresh ==
    \A p \in Req : pc[p] \in {"evict", "insert"} =>
        /\ loc[p].row \in 1..lastRow
        /\ \A c \in Cred : home[c] # loc[p].row
        /\ \A q \in Req :
              pc[q] \in {"evict", "insert"} /\ loc[q].row = loc[p].row => q = p

InFamily(c, f) == Stored(tok, home[c]) => tok[home[c]].family = f

\* A mark, and whoever read one or is about to write one, names the family of
\* the credential's row; a family deletion holds that row.
FamilyKnown ==
    /\ \A c \in Cred : used[c] # 0 => c <= lastCred /\ InFamily(c, used[c])
    /\ \A p \in Req :
          /\ pc[p] \in {"flag", "killTokens", "killSessions"} =>
                loc[p].family # 0 /\ InFamily(loc[p].cred, loc[p].family)
          /\ pc[p] = "killSessions" /\ Stored(tok, home[loc[p].cred]) =>
                home[loc[p].cred] \in held[p]

\* Whoever will redeem a credential has marked it.
MarkedFirst ==
    \A c \in Cred \ ending :
        Spent(c) \/ (\E p \in Req : pc[p] \in {"reread", "rotate"} /\ loc[p].cred = c)
            => used[c] # 0

\* What was reported, or written to a row already deleted, has no live row; it
\* was live when a rotation read it.
DeadStayDead ==
    /\ \A c \in stillborn \cup reported : ~ Live(tok, home[c])
    /\ \A p \in Req : pc[p] = "rotate" => loc[p].cred \notin stillborn

\* SpentIsMarked, ReportedLineageDead and the refinement of Rotation, made
\* inductive: a row is written by one login, and from then on only dies.
LineageInv == WrittenToRows /\ RowsFresh /\ FamilyKnown /\ MarkedFirst /\ DeadStayDead

-----------------------------------------------------------------------------
(* How many sessions there can be. *)

\* Only a login that found the cap reached has a victim, which was at home once.
VictimsChosen ==
    \A p \in Req : loc[p].victim # 0 =>
        pc[p] = "insert" /\ \E c \in Cred : home[c] = loc[p].victim

\* The logins that will add a session and delete none.
Adding(k) == {p \in Req : pc[p] = "insert" /\ loc[p].consent = k /\ loc[p].victim = 0}

\* The logins that will add a session and delete one, and what they will delete.
Replacing(k) == {p \in Req : pc[p] = "insert" /\ loc[p].consent = k /\ loc[p].victim # 0}
Victims(k)   == {r \in Row : Stored(sess, r) /\ \E p \in Replacing(k) : loc[p].victim = r}

\* SessionBound, made inductive: a victim that a family deletion overtakes frees
\* no place, but it had one.
PlacesBound ==
    \A k \in Grant :
        Cardinality(EvictableSessions(k) \cup Victims(k)) + Cardinality(Adding(k))
            <= SessionCap - 1 + Cardinality(Req)

CapInv == VictimsChosen /\ PlacesBound

-----------------------------------------------------------------------------
\* Every interleaving of refreshes, revocations, family deletions and logins keeps
\* all three: the tables paired and one-time, the lineages dead once reported, the
\* sessions within the cap and the requests in progress.
IInv == TableInv /\ LineageInv /\ CapInv
=============================================================================
