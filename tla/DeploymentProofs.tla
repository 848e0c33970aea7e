--------------------------- MODULE DeploymentProofs ---------------------------
(***************************************************************************)
(* Proofs of the safety of Deployment, for any list of releases, any       *)
(* tables whose rows are followed and any settings that may be missing.    *)
(* A transaction is a recursive function over its statements: what it does *)
(* to a schema is proved by induction over them.  Where a migration leads, *)
(* from each schema of the catalogue, is a lemma of its own: one for every *)
(* `up` and every `down`.                                                  *)
(***************************************************************************)
EXTENDS Catalogue, WellFoundedInduction, TLAPS

-----------------------------------------------------------------------------
(* Induction, and what the recursive definitions compute. *)

\* A set of numbers with 0 and every successor is all of them: the least
\* number outside it would have a predecessor inside it.
LEMMA SetInduction ==
    ASSUME NEW S \in SUBSET Nat, 0 \in S, \A n \in S : n + 1 \in S
    PROVE  S = Nat
  <1> DEFINE R == {ss \in Nat \X Nat : ss[1] < ss[2]}
             Rest == Nat \ S
  <1>1. IsWellFoundedOn(R, Nat)
    BY NatLessThanWellFounded, Zenon DEF OpToRel
  <1>2. SUFFICES ASSUME Rest # {} PROVE FALSE
    OBVIOUS
  <1>3. PICK m \in Rest : \A n \in Rest : ~ (<<n, m>> \in R)
    <2>1. Rest \subseteq Nat
      OBVIOUS
    <2> HIDE DEF R, Rest
    <2> QED
      BY <1>1, <1>2, <2>1, WFMin
  <1>4. m \in Nat /\ m - 1 \in Nat /\ (m - 1) + 1 = m
    BY <1>3
  <1>5. m - 1 \in Rest
    BY <1>3, <1>4
  <1>6. <<m - 1, m>> \in R
    BY <1>4
  <1> QED
    BY <1>3, <1>5, <1>6

\* The same from k to n.
LEMMA RangeInduction ==
    ASSUME NEW G, NEW k \in Nat, NEW n \in Nat, k \in G,
           \A i \in k + 1..n : i - 1 \in G => i \in G
    PROVE  \A i \in k..n : i \in G
  <1> DEFINE S == {d \in Nat : k + d <= n => k + d \in G}
  <1>1. 0 \in S
    OBVIOUS
  <1>2. ASSUME NEW d \in S PROVE d + 1 \in S
    <2>1. CASE k + (d + 1) <= n
      <3>1. k + d \in G /\ k + (d + 1) \in k + 1..n /\ (k + (d + 1)) - 1 = k + d
        BY <2>1
      <3>2. k + (d + 1) \in G
        BY <3>1
      <3> QED
        BY <3>2
    <2>2. CASE ~ (k + (d + 1) <= n)
      BY <2>2
    <2> QED
      BY <2>1, <2>2
  <1>3. S = Nat
    <2>1. S \in SUBSET Nat
      OBVIOUS
    <2> HIDE DEF S
    <2> QED
      BY <1>1, <1>2, <2>1, SetInduction
  <1>4. ASSUME NEW i \in k..n PROVE i \in G
    <2>1. i - k \in Nat /\ k + (i - k) = i /\ i <= n
      OBVIOUS
    <2>2. i - k \in S
      BY <1>3, <2>1
    <2> QED
      BY <2>1, <2>2
  <1> QED
    BY <1>4

\* Execute applies Executed to each statement, one after the other.
Steps(after, x, statements, used, picky) ==
    /\ after[0] = x
    /\ \A i \in 1..Len(statements) :
          after[i] = Executed(after[i - 1], statements[i], used, picky)
    /\ Execute(x, statements, used, picky) = after[Len(statements)]

LEMMA ExecuteSteps ==
    ASSUME NEW x, NEW statements, Len(statements) \in Nat, NEW used, NEW picky
    PROVE  \E after : Steps(after, x, statements, used, picky)
  <1> DEFINE To(n, g) == g = [i \in 0..n |->
                 IF i = 0 THEN x ELSE Executed(g[i - 1], statements[i], used, picky)]
             S == {n \in Nat : \E g : To(n, g)}
  <1>1. 0 \in S
    <2>1. To(0, [i \in 0..0 |-> x])
      OBVIOUS
    <2> QED
      BY <2>1
  <1>2. ASSUME NEW n \in S PROVE n + 1 \in S
    <2>1. PICK g : To(n, g)
      OBVIOUS
    <2> DEFINE h == [i \in 0..n + 1 |->
                 IF i <= n THEN g[i] ELSE Executed(g[n], statements[n + 1], used, picky)]
    <2>2. To(n + 1, h)
      <3>1. ASSUME NEW i \in 0..n + 1
            PROVE  h[i] = IF i = 0 THEN x
                          ELSE Executed(h[i - 1], statements[i], used, picky)
        <4>1. CASE i <= n
          BY <2>1, <4>1
        <4>2. CASE i = n + 1
          <5>1. n \in Nat /\ n \in 0..n + 1 /\ i - 1 = n /\ i # 0
            BY <4>2
          <5>2. h[n] = g[n] /\ h[i] = Executed(g[n], statements[n + 1], used, picky)
            BY <5>1, <4>2
          <5> QED
            BY <5>1, <5>2, <4>2
        <4> QED
          BY <4>1, <4>2
      <3> HIDE DEF h
      <3> QED
        BY <3>1 DEF h
    <2>3. n + 1 \in Nat /\ \E f : To(n + 1, f)
      <3> HIDE DEF h, To
      <3> QED
        BY <2>2
    <2> QED
      BY <2>3
  <1>3. S = Nat
    <2> HIDE DEF S
    <2> QED
      BY <1>1, <1>2, SetInduction DEF S
  <1> DEFINE F == CHOOSE g : To(Len(statements), g)
  <1>4. To(Len(statements), F)
    <2>1. \E g : To(Len(statements), g)
      BY <1>3
    <2> HIDE DEF To, S
    <2> QED
      BY <2>1
  <1>5. Execute(x, statements, used, picky) = F[Len(statements)]
    BY DEF Execute
  <1> HIDE DEF F
  <1>6. Steps(F, x, statements, used, picky)
    BY <1>4, <1>5 DEF Steps
  <1> QED
    BY <1>6

\* And ExecutePending executes each pending migration, one after the other.
Stages(after, x, from, to, used, picky) ==
    /\ after[0] = x
    /\ \A n \in 1..to - from :
          after[n] = Execute(after[n - 1], Migration[from + n].up, used, picky)
    /\ ExecutePending(x, from, to, used, picky) = after[to - from]

LEMMA PendingSteps ==
    ASSUME NEW x, NEW from \in Nat, NEW to \in Nat, from <= to, NEW used, NEW picky
    PROVE  \E after : Stages(after, x, from, to, used, picky)
  <1> DEFINE To(n, g) == g = [i \in 0..n |->
                 IF i = 0 THEN x
                 ELSE Execute(g[i - 1], Migration[from + i].up, used, picky)]
             S == {n \in Nat : \E g : To(n, g)}
  <1>1. 0 \in S
    <2>1. To(0, [i \in 0..0 |-> x])
      OBVIOUS
    <2> QED
      BY <2>1
  <1>2. ASSUME NEW n \in S PROVE n + 1 \in S
    <2>1. PICK g : To(n, g)
      OBVIOUS
    <2> DEFINE h == [i \in 0..n + 1 |->
                 IF i <= n THEN g[i]
                 ELSE Execute(g[n], Migration[from + (n + 1)].up, used, picky)]
    <2>2. To(n + 1, h)
      <3>1. ASSUME NEW i \in 0..n + 1
            PROVE  h[i] = IF i = 0 THEN x
                          ELSE Execute(h[i - 1], Migration[from + i].up, used, picky)
        <4>1. CASE i <= n
          BY <2>1, <4>1
        <4>2. CASE i = n + 1
          <5>1. n \in Nat /\ n \in 0..n + 1 /\ i - 1 = n /\ i # 0
            BY <4>2
          <5>2. h[n] = g[n] /\ h[i] = Execute(g[n], Migration[from + (n + 1)].up, used, picky)
            BY <5>1, <4>2
          <5> QED
            BY <5>1, <5>2, <4>2
        <4> QED
          BY <4>1, <4>2
      <3> HIDE DEF h
      <3> QED
        BY <3>1 DEF h
    <2>3. n + 1 \in Nat /\ \E f : To(n + 1, f)
      <3> HIDE DEF h, To
      <3> QED
        BY <2>2
    <2> QED
      BY <2>3
  <1>3. S = Nat
    <2> HIDE DEF S
    <2> QED
      BY <1>1, <1>2, SetInduction DEF S
  <1> DEFINE F == CHOOSE g : To(to - from, g)
  <1>4. to - from \in Nat
    OBVIOUS
  <1>5. To(to - from, F)
    <2>1. \E g : To(to - from, g)
      BY <1>3, <1>4
    <2> HIDE DEF To, S
    <2> QED
      BY <2>1
  <1>6. ExecutePending(x, from, to, used, picky) = F[to - from]
    BY DEF ExecutePending
  <1> HIDE DEF F
  <1>7. F[0] = x
    BY <1>4, <1>5
  <1>8. ASSUME NEW n \in 1..to - from
        PROVE  F[n] = Execute(F[n - 1], Migration[from + n].up, used, picky)
    BY <1>4, <1>5
  <1> HIDE DEF To
  <1>9. Stages(F, x, from, to, used, picky)
    BY <1>6, <1>7, <1>8 DEF Stages
  <1> QED
    BY <1>9

\* A failed statement is the last one that is executed.
LEMMA FailedExecuted ==
    ASSUME NEW x, NEW st, NEW used, NEW picky, x.outcome # "ok"
    PROVE  Executed(x, st, used, picky) = x
  BY DEF Executed

\* When statement k of a sequence fails, the sequence does, for the same reason.
LEMMA FailsAlike ==
    ASSUME NEW x, NEW statements, Len(statements) \in Nat, NEW used, NEW picky,
           NEW after, Steps(after, x, statements, used, picky),
           NEW k \in 1..Len(statements), after[k].outcome # "ok"
    PROVE  Execute(x, statements, used, picky).outcome = after[k].outcome
  <1> DEFINE n == Len(statements)
             G == {i \in 1..n : after[i].outcome = after[k].outcome}
  <1>1. ASSUME NEW i \in k + 1..n, i - 1 \in G PROVE i \in G
    <2>1. i - 1 \in 1..n /\ i \in 1..n /\ after[i - 1].outcome = after[k].outcome
      BY <1>1
    <2>2. after[i] = Executed(after[i - 1], statements[i], used, picky)
      BY <2>1 DEF Steps
    <2> QED
      BY <2>1, <2>2, FailedExecuted
  <1>2. k \in G /\ n \in k..n /\ k \in Nat
    OBVIOUS
  <1>3. n \in G
    <2> HIDE DEF G
    <2>1. \A i \in k..n : i \in G
      BY <1>1, <1>2, RangeInduction
    <2> QED
      BY <1>2, <2>1
  <1> QED
    BY <1>3 DEF Steps

\* The same of whether it fails, in a form that is easy to cite.
Broken(y) == y.outcome # "ok"

LEMMA FailsWithin ==
    ASSUME NEW x, NEW statements, Len(statements) \in Nat, NEW used, NEW picky,
           NEW after, Steps(after, x, statements, used, picky),
           NEW k \in 1..Len(statements), Broken(after[k])
    PROVE  Broken(Execute(x, statements, used, picky))
  <1> DEFINE n == Len(statements)
             G == {i \in 1..n : Broken(after[i])}
  <1>1. ASSUME NEW i \in k + 1..n, i - 1 \in G PROVE i \in G
    <2>1. i - 1 \in 1..n /\ i \in 1..n /\ Broken(after[i - 1])
      BY <1>1
    <2>2. after[i] = Executed(after[i - 1], statements[i], used, picky)
      BY <2>1 DEF Steps
    <2>3. after[i] = after[i - 1]
      BY <2>1, <2>2, FailedExecuted DEF Broken
    <2> QED
      BY <2>1, <2>3
  <1>2. k \in G /\ n \in k..n /\ k \in Nat
    OBVIOUS
  <1>3. n \in G
    <2> HIDE DEF G
    <2>1. \A i \in k..n : i \in G
      BY <1>1, <1>2, RangeInduction
    <2> QED
      BY <1>2, <2>1
  <1> QED
    BY <1>3 DEF Steps

\* A failed transaction executes no further migration.
LEMMA FailedStays ==
    ASSUME NEW x, NEW statements, Len(statements) \in Nat, NEW used, NEW picky,
           x.outcome # "ok"
    PROVE  Execute(x, statements, used, picky).outcome = x.outcome
  <1>1. PICK after : Steps(after, x, statements, used, picky)
    BY ExecuteSteps
  <1>2. CASE Len(statements) = 0
    BY <1>1, <1>2 DEF Steps
  <1>3. CASE Len(statements) # 0
    <2>1. 1 \in 1..Len(statements)
      BY <1>3
    <2>2. after[1] = Executed(x, statements[1], used, picky)
      BY <1>1, <2>1 DEF Steps
    <2>3. after[1].outcome = x.outcome
      BY <2>2, FailedExecuted
    <2> QED
      BY <1>1, <2>1, <2>3, FailsAlike
  <1> QED
    BY <1>2, <1>3

-----------------------------------------------------------------------------
(* The twenty migrations. *)

\* Which they are.
LEMMA Which ==
    /\ Latest = 20
    /\ Migration[1] = Init19032026
    /\ Migration[2] = ConsentRelation
    /\ Migration[3] = TokenBecomesConsentId
    /\ Migration[4] = NewRelations
    /\ Migration[5] = ConsentDates
    /\ Migration[6] = ClientIdRenamed
    /\ Migration[7] = Jti
    /\ Migration[8] = UserCreatedAt
    /\ Migration[9] = ClientNameUnique
    /\ Migration[10] = ConsentTable
    /\ Migration[11] = TokenFamily
    /\ Migration[12] = SessionTable
    /\ Migration[13] = SessionWithoutToken
    /\ Migration[14] = DeletedAt
    /\ Migration[15] = SecurityEventTable
    /\ Migration[16] = SecurityEventId
    /\ Migration[17] = SecurityEventEmail
    /\ Migration[18] = SecurityEventLabels
    /\ Migration[19] = SecurityEventReason
    /\ Migration[20] = UserDeletedAt
  BY DEF Latest, Migration

\* Their statements are finitely many.
LEMMA Sizes ==
    ASSUME NEW l \in 1..Latest
    PROVE  Len(Migration[l].up) \in Nat /\ Len(Migration[l].down) \in Nat
  <1>1. CASE l = 1
    BY <1>1, Which DEF Init19032026, InitDown
  <1>2. CASE l = 2
    BY <1>2, Which DEF ConsentRelation
  <1>3. CASE l = 3
    BY <1>3, Which DEF TokenBecomesConsentId
  <1>4. CASE l = 4
    BY <1>4, Which DEF NewRelations
  <1>5. CASE l = 5
    BY <1>5, Which DEF ConsentDates
  <1>6. CASE l = 6
    BY <1>6, Which DEF ClientIdRenamed
  <1>7. CASE l = 7
    BY <1>7, Which DEF Jti
  <1>8. CASE l = 8
    BY <1>8, Which DEF UserCreatedAt, Rekey
  <1>9. CASE l = 9
    BY <1>9, Which DEF ClientNameUnique
  <1>10. CASE l = 10
    BY <1>10, Which DEF ConsentTable
  <1>11. CASE l = 11
    BY <1>11, Which DEF TokenFamily
  <1>12. CASE l = 12
    BY <1>12, Which DEF SessionTable
  <1>13. CASE l = 13
    BY <1>13, Which DEF SessionWithoutToken
  <1>14. CASE l = 14
    BY <1>14, Which DEF DeletedAt
  <1>15. CASE l = 15
    BY <1>15, Which DEF SecurityEventTable
  <1>16. CASE l = 16
    BY <1>16, Which DEF SecurityEventId
  <1>17. CASE l = 17
    BY <1>17, Which DEF SecurityEventEmail
  <1>18. CASE l = 18
    BY <1>18, Which DEF SecurityEventLabels
  <1>19. CASE l = 19
    BY <1>19, Which DEF SecurityEventReason
  <1>20. CASE l = 20
    BY <1>20, Which DEF UserDeletedAt
  <1> QED
    BY Which, <1>1, <1>2, <1>3, <1>4, <1>5, <1>6, <1>7, <1>8, <1>9,
       <1>10, <1>11, <1>12, <1>13, <1>14, <1>15, <1>16, <1>17, <1>18, <1>19, <1>20

-----------------------------------------------------------------------------
(* What a statement does to a catalogue that allows it. *)

Does(s, st, t) == Legal(s, st) /\ Do(s, st) = t

Put(s, t, tab) == [s EXCEPT ![t] = tab]

\* One item less, and one more.
IsTable(tab) == tab = [m \in DOMAIN tab |-> tab[m]]
Minus(g, f, x) ==
    /\ g = Without(f, x) /\ IsTable(g)
    /\ DOMAIN g = DOMAIN f \ {x} /\ \A y \in DOMAIN g : g[y] = f[y]
Plus(g, f, x, v) ==
    /\ g = With(f, x, v) /\ IsTable(g)
    /\ DOMAIN g = DOMAIN f \union {x} /\ \A y \in DOMAIN f \ {x} : g[y] = f[y]
    /\ g[x] = v

LEMMA Edits ==
    /\ \A f, x : \E g : Minus(g, f, x)
    /\ \A f, x, v : \E g : Plus(g, f, x, v)
  <1>1. ASSUME NEW f, NEW x PROVE Minus(Without(f, x), f, x)
    BY DEF Minus, Without, IsTable
  <1>2. ASSUME NEW f, NEW x, NEW v PROVE Plus(With(f, x, v), f, x, v)
    BY DEF Plus, With, IsTable
  <1> QED
    BY <1>1, <1>2

LEMMA SameTable ==
    ASSUME NEW f, NEW g, IsTable(f), IsTable(g), DOMAIN f = DOMAIN g,
           \A x \in DOMAIN f : f[x] = g[x]
    PROVE  f = g
  <1>1. [x \in DOMAIN f |-> f[x]] = [x \in DOMAIN g |-> g[x]]
    OBVIOUS
  <1> QED
    BY <1>1 DEF IsTable

\* Items, by kind.
LEMMA Kinds ==
    /\ \A ty : Def(ty).kind = "column" /\ Opt(ty).kind = "column" /\ Req(ty).kind = "column"
    /\ Dated.kind = "column"
    /\ \A ls : Enum(ls).kind = "column" /\ Bare(ls).kind = "column"
    /\ \A c : Unique(c).kind = "unique" /\ Unique(c).on = c
    /\ \A c, t, r, d : /\ References(c, t, r, d).kind = "fk" /\ References(c, t, r, d).on = c
                       /\ References(c, t, r, d).table = t /\ References(c, t, r, d).ref = r
    /\ \A c, t : /\ Cascade(c, t).kind = "fk" /\ Cascade(c, t).on = c
                 /\ Cascade(c, t).table = t /\ Cascade(c, t).ref = "id"
  BY DEF Def, Opt, Req, Column, Dated, Enum, Bare, Unique, Cascade, References

\* Columns, by type.
LEMMA Types ==
    /\ \A ty : Def(ty).ty = ty /\ Opt(ty).ty = ty /\ Req(ty).ty = ty
    /\ Dated.ty = "timestamptz"
  BY DEF Def, Opt, Req, Dated, Column

\* An item is added: a column, a unique key on a column that is there, or a
\* foreign key on one, to a column of its type that rows are told apart by.
LEMMA AddsItem ==
    ASSUME NEW s, NEW t \in DOMAIN s, NEW n, n \notin DOMAIN s[t], NEW item, NEW lax,
           item.kind # "column" => item.on \in DOMAIN s[t],
           item.kind = "fk" => MayReference(s, t, item)
    PROVE  Does(s, [op |-> "add", t |-> t, n |-> n, item |-> item, lax |-> lax],
                Put(s, t, With(s[t], n, item)))
  <1> DEFINE st == [op |-> "add", t |-> t, n |-> n, item |-> item, lax |-> lax]
  <1>1. st.op = "add" /\ st.t = t /\ st.n = n /\ st.item = item
    OBVIOUS
  <1> HIDE DEF st
  <1>2. Legal(s, st)
    BY <1>1 DEF Legal, MayAdd
  <1>3. Do(s, st) = [s EXCEPT ![st.t] = IF st.n \in DOMAIN @ THEN @ ELSE With(@, st.n, st.item)]
    BY <1>1 DEF Do
  <1>4. Does(s, st, Put(s, t, With(s[t], n, item)))
    BY <1>1, <1>2, <1>3 DEF Does, Put
  <1> QED
    BY <1>4 DEF st

LEMMA AddsColumn ==
    ASSUME NEW s, NEW t \in DOMAIN s, NEW n, n \notin DOMAIN s[t], NEW item, item.kind = "column"
    PROVE  /\ Does(s, Add(t, n, item), Put(s, t, With(s[t], n, item)))
           /\ Does(s, AddIf(t, n, item), Put(s, t, With(s[t], n, item)))
  BY AddsItem DEF Add, AddIf

LEMMA AddsUnique ==
    ASSUME NEW s, NEW t \in DOMAIN s, NEW n, n \notin DOMAIN s[t], NEW c \in DOMAIN s[t]
    PROVE  /\ Does(s, Add(t, n, Unique(c)), Put(s, t, With(s[t], n, Unique(c))))
           /\ Does(s, AddIf(t, n, Unique(c)), Put(s, t, With(s[t], n, Unique(c))))
  BY AddsItem, Kinds DEF Add, AddIf

LEMMA AddsKey ==
    ASSUME NEW s, NEW t \in DOMAIN s, NEW n, n \notin DOMAIN s[t], NEW c \in DOMAIN s[t],
           NEW u \in DOMAIN s, NEW rc \in DOMAIN s[u], NEW d,
           IsUnique(s, u, rc), s[u][rc].ty = s[t][c].ty
    PROVE  Does(s, Add(t, n, References(c, u, rc, d)),
                Put(s, t, With(s[t], n, References(c, u, rc, d))))
  <1>1. MayReference(s, t, References(c, u, rc, d))
    BY Kinds DEF MayReference
  <1> QED
    BY <1>1, AddsItem, Kinds DEF Add

LEMMA AddsCascade ==
    ASSUME NEW s, NEW t \in DOMAIN s, NEW n, n \notin DOMAIN s[t], NEW c \in DOMAIN s[t],
           NEW u \in DOMAIN s, "id" \in DOMAIN s[u], s[u]["id"].ty = s[t][c].ty
    PROVE  Does(s, Add(t, n, Cascade(c, u)), Put(s, t, With(s[t], n, Cascade(c, u))))
  <1>1. MayReference(s, t, Cascade(c, u))
    BY Kinds DEF MayReference, IsUnique
  <1> QED
    BY <1>1, AddsItem, Kinds DEF Add

\* What is there already is not added again.
LEMMA AddsNothing ==
    ASSUME NEW s, NEW t \in DOMAIN s, NEW n \in DOMAIN s[t], NEW item, item.kind = "column"
    PROVE  Does(s, AddIf(t, n, item), Put(s, t, s[t]))
  <1> DEFINE st == AddIf(t, n, item)
  <1>1. st.op = "add" /\ st.t = t /\ st.n = n /\ st.item = item /\ st.lax
    BY DEF AddIf
  <1> HIDE DEF st
  <1>2. Legal(s, st)
    BY <1>1 DEF Legal, MayAdd
  <1>3. Do(s, st) = [s EXCEPT ![st.t] = IF st.n \in DOMAIN @ THEN @ ELSE With(@, st.n, st.item)]
    BY <1>1 DEF Do
  <1>4. Does(s, st, Put(s, t, s[t]))
    BY <1>1, <1>2, <1>3 DEF Does, Put
  <1> QED
    BY <1>4 DEF st

\* An item is dropped, a unique key only when no foreign key needs it.
LEMMA DropsItem ==
    ASSUME NEW s, NEW t \in DOMAIN s, NEW n \in DOMAIN s[t], NEW lax,
           s[t][n].kind = "unique" => ~ PointsAt(s, t, s[t][n].on)
    PROVE  Does(s, [op |-> "drop", t |-> t, n |-> n, lax |-> lax], Put(s, t, DropItem(s[t], n)))
  <1> DEFINE st == [op |-> "drop", t |-> t, n |-> n, lax |-> lax]
  <1>1. st.op = "drop" /\ st.t = t /\ st.n = n
    OBVIOUS
  <1> HIDE DEF st
  <1>2. Legal(s, st)
    BY <1>1 DEF Legal, MayDrop
  <1>3. Do(s, st) = [s EXCEPT ![st.t] = IF st.n \in DOMAIN @ THEN DropItem(@, st.n) ELSE @]
    BY <1>1 DEF Do
  <1>4. Does(s, st, Put(s, t, DropItem(s[t], n)))
    BY <1>1, <1>2, <1>3 DEF Does, Put
  <1> QED
    BY <1>4 DEF st

LEMMA DropsKey ==
    ASSUME NEW s, NEW t \in DOMAIN s, NEW n \in DOMAIN s[t], s[t][n].kind = "fk"
    PROVE  /\ Does(s, Drop(t, n), Put(s, t, Without(s[t], n)))
           /\ Does(s, DropIf(t, n), Put(s, t, Without(s[t], n)))
  <1>1. DropItem(s[t], n) = Without(s[t], n)
    BY DEF DropItem, Without
  <1> QED
    BY <1>1, DropsItem DEF Drop, DropIf

LEMMA DropsUnique ==
    ASSUME NEW s, NEW t \in DOMAIN s, NEW n \in DOMAIN s[t], NEW c,
           s[t][n] = Unique(c), ~ PointsAt(s, t, c)
    PROVE  /\ Does(s, Drop(t, n), Put(s, t, Without(s[t], n)))
           /\ Does(s, DropIf(t, n), Put(s, t, Without(s[t], n)))
  <1>1. DropItem(s[t], n) = Without(s[t], n)
    BY Kinds DEF DropItem, Without
  <1> QED
    BY <1>1, DropsItem, Kinds DEF Drop, DropIf

\* A column that no constraint is on.
LEMMA DropsColumn ==
    ASSUME NEW s, NEW t \in DOMAIN s, NEW n \in DOMAIN s[t], s[t][n].kind = "column",
           \A m \in DOMAIN s[t] : s[t][m].kind # "column" => s[t][m].on # n
    PROVE  Does(s, Drop(t, n), Put(s, t, Without(s[t], n)))
  <1>1. DropItem(s[t], n) = Without(s[t], n)
    BY DEF DropItem, Without
  <1> QED
    BY <1>1, DropsItem DEF Drop

\* A column that one unique key is on, which goes with it.
LEMMA DropsWith ==
    ASSUME NEW s, NEW t \in DOMAIN s, NEW n \in DOMAIN s[t], s[t][n].kind = "column",
           NEW k \in DOMAIN s[t], s[t][k] = Unique(n),
           \A m \in DOMAIN s[t] \ {k} : s[t][m].kind # "column" => s[t][m].on # n
    PROVE  Does(s, Drop(t, n), Put(s, t, Without(Without(s[t], n), k)))
  <1>1. DropItem(s[t], n) = Without(Without(s[t], n), k)
    BY Kinds DEF DropItem, Without
  <1> QED
    BY <1>1, DropsItem DEF Drop

\* What is not there is not dropped.
LEMMA DropsNothing ==
    ASSUME NEW s, NEW t \in DOMAIN s, NEW n, n \notin DOMAIN s[t]
    PROVE  Does(s, DropIf(t, n), Put(s, t, s[t]))
  <1> DEFINE st == DropIf(t, n)
  <1>1. st.op = "drop" /\ st.t = t /\ st.n = n /\ st.lax
    BY DEF DropIf
  <1> HIDE DEF st
  <1>2. Legal(s, st)
    BY <1>1 DEF Legal, MayDrop
  <1>3. Do(s, st) = [s EXCEPT ![st.t] = IF st.n \in DOMAIN @ THEN DropItem(@, st.n) ELSE @]
    BY <1>1 DEF Do
  <1>4. Does(s, st, Put(s, t, s[t]))
    BY <1>1, <1>2, <1>3 DEF Does, Put
  <1> QED
    BY <1>4 DEF st

\* A column with one property changed is another column.
Turns(old, f, v, new) == [old EXCEPT ![f] = v] = new

LEMMA Changes ==
    /\ \A ty, r, d, ls, v : Turns(Column(ty, r, d, ls), "req", v, Column(ty, v, d, ls))
    /\ \A ty, r, d, ls, v : Turns(Column(ty, r, d, ls), "def", v, Column(ty, r, v, ls))
    /\ \A ty, r, d, ls, v : Turns(Column(ty, r, d, ls), "ty", v, Column(v, r, d, ls))
    /\ \A ty, r, d, ls, v : Turns(Column(ty, r, d, ls), "labels", v, Column(ty, r, d, v))
  <1>1. \A ty, r, d, ls, v : Turns(Column(ty, r, d, ls), "req", v, Column(ty, v, d, ls))
    BY DEF Column, Turns
  <1>2. \A ty, r, d, ls, v : Turns(Column(ty, r, d, ls), "def", v, Column(ty, r, v, ls))
    BY DEF Column, Turns
  <1>3. \A ty, r, d, ls, v : Turns(Column(ty, r, d, ls), "ty", v, Column(v, r, d, ls))
    BY DEF Column, Turns
  <1>4. \A ty, r, d, ls, v : Turns(Column(ty, r, d, ls), "labels", v, Column(ty, r, d, v))
    BY DEF Column, Turns
  <1> QED
    BY <1>1, <1>2, <1>3, <1>4

\* A property of a column is changed, which makes it another item.
LEMMA Alters ==
    ASSUME NEW s, NEW t \in DOMAIN s, IsTable(s[t]), NEW n \in DOMAIN s[t],
           NEW f, NEW v, NEW new, Turns(s[t][n], f, v, new)
    PROVE  Does(s, Alter(t, n, f, v), Put(s, t, With(s[t], n, new)))
  <1> DEFINE st == Alter(t, n, f, v)
  <1>1. st.op = "alter" /\ st.t = t /\ st.n = n /\ st.f = f /\ st.v = v
    BY DEF Alter
  <1> HIDE DEF st
  <1>2. Legal(s, st)
    BY <1>1 DEF Legal
  <1>3. Do(s, st) = [s EXCEPT ![st.t][st.n][st.f] = st.v]
    BY <1>1 DEF Do
  <1>4. With(s[t], n, new) = [s[t] EXCEPT ![n] = [s[t][n] EXCEPT ![f] = v]]
    BY DEF Turns, With, IsTable
  <1>5. Does(s, st, Put(s, t, With(s[t], n, new)))
    BY <1>1, <1>2, <1>3, <1>4 DEF Does, Put
  <1> QED
    BY <1>5 DEF st

\* What it is already changes nothing.
LEMMA Same ==
    ASSUME NEW f, IsTable(f), NEW x \in DOMAIN f
    PROVE  With(f, x, f[x]) = f
  BY DEF With, IsTable

\* A column becomes nullable, or required.
LEMMA Frees ==
    ASSUME NEW s, NEW t \in DOMAIN s, IsTable(s[t]), NEW n \in DOMAIN s[t],
           NEW ty, s[t][n] = Req(ty) \/ s[t][n] = Opt(ty)
    PROVE  /\ Does(s, Nullable(t, n), Put(s, t, With(s[t], n, Opt(ty))))
           /\ s[t][n] = Opt(ty) => Does(s, Nullable(t, n), Put(s, t, s[t]))
  <1>1. Turns(s[t][n], "req", FALSE, Opt(ty))
    BY Changes, Zenon DEF Req, Opt
  <1>2. Does(s, Nullable(t, n), Put(s, t, With(s[t], n, Opt(ty))))
    BY <1>1, Alters, Zenon DEF Nullable
  <1> QED
    BY <1>2, Same

LEMMA Requires ==
    ASSUME NEW s, NEW t \in DOMAIN s, IsTable(s[t]), NEW n \in DOMAIN s[t],
           NEW ty, s[t][n] = Req(ty) \/ s[t][n] = Opt(ty)
    PROVE  /\ Does(s, NotNull(t, n), Put(s, t, With(s[t], n, Req(ty))))
           /\ s[t][n] = Req(ty) => Does(s, NotNull(t, n), Put(s, t, s[t]))
  <1>1. Turns(s[t][n], "req", TRUE, Req(ty))
    BY Changes, Zenon DEF Req, Opt
  <1>2. Does(s, NotNull(t, n), Put(s, t, With(s[t], n, Req(ty))))
    BY <1>1, Alters, Zenon DEF NotNull
  <1> QED
    BY <1>2, Same

\* A required column gets another type.
LEMMA Retypes ==
    ASSUME NEW s, NEW t \in DOMAIN s, IsTable(s[t]), NEW n \in DOMAIN s[t],
           NEW ty, NEW u, s[t][n] = Req(ty)
    PROVE  /\ Does(s, Alter(t, n, "ty", u), Put(s, t, With(s[t], n, Req(u))))
           /\ u = ty => Does(s, Alter(t, n, "ty", u), Put(s, t, s[t]))
  <1>1. Turns(s[t][n], "ty", u, Req(u))
    BY Changes, Zenon DEF Req
  <1>2. Does(s, Alter(t, n, "ty", u), Put(s, t, With(s[t], n, Req(u))))
    BY <1>1, Alters, Zenon
  <1> QED
    BY <1>2, Same

\* A column gets a default, or loses it.
SetDefault(t, n)  == Alter(t, n, "def", TRUE)
DropDefault(t, n) == Alter(t, n, "def", FALSE)

LEMMA SetsValue ==
    ASSUME NEW s, NEW t \in DOMAIN s, IsTable(s[t]), NEW n \in DOMAIN s[t],
           NEW ty, s[t][n] = Req(ty)
    PROVE  Does(s, SetDefault(t, n), Put(s, t, With(s[t], n, Def(ty))))
  <1>1. Turns(s[t][n], "def", TRUE, Def(ty))
    BY Changes, Zenon DEF Req, Def
  <1> QED
    BY <1>1, Alters, Zenon DEF SetDefault

LEMMA DropsValue ==
    ASSUME NEW s, NEW t \in DOMAIN s, IsTable(s[t]), NEW n \in DOMAIN s[t],
           NEW ty, s[t][n] = Def(ty)
    PROVE  Does(s, DropDefault(t, n), Put(s, t, With(s[t], n, Req(ty))))
  <1>1. Turns(s[t][n], "def", FALSE, Req(ty))
    BY Changes, Zenon DEF Req, Def
  <1> QED
    BY <1>1, Alters, Zenon DEF DropDefault

LEMMA SetsEnum ==
    ASSUME NEW s, NEW t \in DOMAIN s, IsTable(s[t]), NEW n \in DOMAIN s[t],
           NEW ls, s[t][n] = Bare(ls)
    PROVE  Does(s, SetDefault(t, n), Put(s, t, With(s[t], n, Enum(ls))))
  <1>1. Turns(s[t][n], "def", TRUE, Enum(ls))
    BY Changes, Zenon DEF Bare, Enum
  <1> QED
    BY <1>1, Alters, Zenon DEF SetDefault

LEMMA DropsEnum ==
    ASSUME NEW s, NEW t \in DOMAIN s, IsTable(s[t]), NEW n \in DOMAIN s[t],
           NEW ls, s[t][n] = Enum(ls)
    PROVE  Does(s, DropDefault(t, n), Put(s, t, With(s[t], n, Bare(ls))))
  <1>1. Turns(s[t][n], "def", FALSE, Bare(ls))
    BY Changes, Zenon DEF Bare, Enum
  <1> QED
    BY <1>1, Alters, Zenon DEF DropDefault

\* An enumerated type without a default gets other labels.
LEMMA Relabels ==
    ASSUME NEW s, NEW t \in DOMAIN s, IsTable(s[t]), NEW n \in DOMAIN s[t],
           NEW ms, NEW ls, s[t][n] = Bare(ms)
    PROVE  Does(s, Alter(t, n, "labels", ls), Put(s, t, With(s[t], n, Bare(ls))))
  <1>1. Turns(s[t][n], "labels", ls, Bare(ls))
    BY Changes, Zenon DEF Bare
  <1> QED
    BY <1>1, Alters, Zenon

\* A table is created, or dropped when no foreign key needs it, or a type is
\* given another name.
LEMMA Creates ==
    ASSUME NEW s, NEW t, t \notin DOMAIN s, NEW items
    PROVE  Does(s, Create(t, items), With(s, t, items))
  BY DEF Does, Legal, Do, Create

LEMMA DropsTable ==
    ASSUME NEW s, NEW t \in DOMAIN s, MayDropTable(s, t)
    PROVE  Does(s, DropTable(t), Without(s, t))
  BY DEF Does, Legal, Do, DropTable

LEMMA RenamesType ==
    ASSUME NEW s, NEW t \in DOMAIN s, NEW n, n \notin DOMAIN s
    PROVE  Does(s, RenameType(t, n), With(Without(s, t), n, s[t]))
  BY DEF Does, Legal, Do, RenameType

\* A column or a constraint gets another name: constraints on the column and
\* foreign keys to it follow, other items stay what they were.
LEMMA Follows ==
    ASSUME NEW u, NEW st
    PROVE  /\ \A ty : /\ Renamed(Def(ty), u, st) = Def(ty) /\ Renamed(Opt(ty), u, st) = Opt(ty)
                      /\ Renamed(Req(ty), u, st) = Req(ty)
           /\ \A c : /\ u = st.t /\ c = st.n => Renamed(Unique(c), u, st) = Unique(st.to)
                     /\ u # st.t \/ c # st.n => Renamed(Unique(c), u, st) = Unique(c)
           /\ \A c, t, r, d : u # st.t \/ c # st.n =>
                 /\ t = st.t /\ r = st.n =>
                        Renamed(References(c, t, r, d), u, st) = References(c, t, st.to, d)
                 /\ t # st.t \/ r # st.n =>
                        Renamed(References(c, t, r, d), u, st) = References(c, t, r, d)
  <1>1. ASSUME NEW i, i.kind = "column" PROVE Renamed(i, u, st) = i
    BY <1>1 DEF Renamed
  <1>2. ASSUME NEW ty
        PROVE  /\ Renamed(Def(ty), u, st) = Def(ty) /\ Renamed(Opt(ty), u, st) = Opt(ty)
               /\ Renamed(Req(ty), u, st) = Req(ty)
    BY <1>1, Kinds
  <1>3. ASSUME NEW c
        PROVE  /\ u = st.t /\ c = st.n => Renamed(Unique(c), u, st) = Unique(st.to)
               /\ u # st.t \/ c # st.n => Renamed(Unique(c), u, st) = Unique(c)
    BY DEF Renamed, Unique
  <1>4. ASSUME NEW c, NEW t, NEW r, NEW d, u # st.t \/ c # st.n
        PROVE  /\ t = st.t /\ r = st.n =>
                        Renamed(References(c, t, r, d), u, st) = References(c, t, st.to, d)
               /\ t # st.t \/ r # st.n =>
                        Renamed(References(c, t, r, d), u, st) = References(c, t, r, d)
    <2> DEFINE i == References(c, t, r, d)
    <2>1. i.kind = "fk" /\ i.on = c /\ i.table = t /\ i.ref = r
      BY Kinds
    <2>2. \A b : [i EXCEPT !.on = c, !.ref = b] = References(c, t, b, d)
      <3>1. [References(c, t, r, d) EXCEPT !.on = c] = References(c, t, r, d)
        BY DEF References
      <3>2. \A b : [References(c, t, r, d) EXCEPT !.ref = b] = References(c, t, b, d)
        BY DEF References
      <3> QED
        BY <3>1, <3>2
    <2> HIDE DEF i
    <2>3. Renamed(i, u, st) =
             [i EXCEPT !.on = c, !.ref = IF t = st.t /\ r = st.n THEN st.to ELSE r]
      BY <1>4, <2>1 DEF Renamed
    <2> QED
      BY <2>2, <2>3 DEF i
  <1> QED
    BY <1>2, <1>3, <1>4

LEMMA Renames ==
    ASSUME NEW s, NEW t \in DOMAIN s, NEW n \in DOMAIN s[t], NEW m, m \notin DOMAIN s[t],
           NEW r, IsTable(r), DOMAIN r = DOMAIN s, \A u \in DOMAIN s : IsTable(r[u]),
           \A u \in DOMAIN s \ {t} :
              /\ DOMAIN r[u] = DOMAIN s[u]
              /\ \A x \in DOMAIN s[u] : r[u][x] = Renamed(s[u][x], u, Rename(t, n, m)),
           DOMAIN r[t] = (DOMAIN s[t] \ {n}) \union {m},
           \A x \in DOMAIN s[t] \ {n} : r[t][x] = Renamed(s[t][x], t, Rename(t, n, m)),
           r[t][m] = Renamed(s[t][n], t, Rename(t, n, m))
    PROVE  Does(s, Rename(t, n, m), r)
  <1> DEFINE st == Rename(t, n, m)
             moved == [s EXCEPT ![t] = With(Without(s[t], n), m, s[t][n])]
             result == [u \in DOMAIN s |-> [x \in DOMAIN moved[u] |-> Renamed(moved[u][x], u, st)]]
  <1>1. st.op = "rename" /\ st.t = t /\ st.n = n /\ st.to = m
    BY DEF Rename
  <1>2. /\ DOMAIN moved[t] = (DOMAIN s[t] \ {n}) \union {m}
        /\ \A x \in DOMAIN s[t] \ {n} : moved[t][x] = s[t][x]
        /\ moved[t][m] = s[t][n]
        /\ \A u \in DOMAIN s \ {t} : moved[u] = s[u]
    BY DEF With, Without
  <1> HIDE DEF moved
  <1>3. ASSUME NEW u \in DOMAIN s PROVE r[u] = result[u]
    <2>1. DOMAIN r[u] = DOMAIN result[u] /\ IsTable(result[u])
      BY <1>2 DEF IsTable
    <2>2. \A x \in DOMAIN r[u] : r[u][x] = result[u][x]
      BY <1>2, <2>1
    <2> HIDE DEF result
    <2> QED
      BY <2>1, <2>2, SameTable
  <1>4. r = result
    <2>1. DOMAIN result = DOMAIN s /\ IsTable(result)
      BY DEF IsTable
    <2> HIDE DEF result
    <2> QED
      BY <1>3, <2>1, SameTable
  <1> HIDE DEF st
  <1>5. Legal(s, st)
    BY <1>1 DEF Legal
  <1>6. Do(s, st) = result
    BY <1>1 DEF Do, moved
  <1>7. Does(s, st, r)
    BY <1>4, <1>5, <1>6 DEF Does
  <1> QED
    BY <1>7 DEF st

-----------------------------------------------------------------------------
(* Sequences of statements. *)

\* The statements lead from schema s to schema t, each allowed where it is met.
Leads(s, statements, t) ==
    /\ Len(statements) \in Nat
    /\ \E path : /\ path[1] = s /\ path[Len(statements) + 1] = t
                 /\ \A i \in 1..Len(statements) : Does(path[i], statements[i], path[i + 1])

\* The lengths that the migrations have.
LEMMA Path1 ==
    ASSUME NEW s0, NEW s1,
           NEW a1,
           Does(s0, a1, s1)
    PROVE  Leads(s0, <<a1>>, s1)
  <1> DEFINE sts == <<a1>>
             path == <<s0, s1>>
  <1>1. Len(sts) = 1 /\ sts[1] = a1
    OBVIOUS
  <1>2. path[1] = s0 /\ path[2] = s1
    OBVIOUS
  <1> HIDE DEF sts, path
  <1>3. path[1] = s0 /\ path[Len(sts) + 1] = s1
    BY <1>1, <1>2
  <1>4. ASSUME NEW i \in 1..Len(sts) PROVE Does(path[i], sts[i], path[i + 1])
    <2>1. i = 1
      BY <1>1
    <2> QED
      BY <1>1, <1>2, <2>1
  <1>5. Leads(s0, sts, s1)
    BY <1>1, <1>3, <1>4 DEF Leads
  <1> QED
    BY <1>5 DEF sts

LEMMA Path2 ==
    ASSUME NEW s0, NEW s1, NEW s2,
           NEW a1, NEW a2,
           Does(s0, a1, s1), Does(s1, a2, s2)
    PROVE  Leads(s0, <<a1, a2>>, s2)
  <1> DEFINE sts == <<a1, a2>>
             path == <<s0, s1, s2>>
  <1>1. Len(sts) = 2 /\ sts[1] = a1 /\ sts[2] = a2
    OBVIOUS
  <1>2. path[1] = s0 /\ path[2] = s1 /\ path[3] = s2
    OBVIOUS
  <1> HIDE DEF sts, path
  <1>3. path[1] = s0 /\ path[Len(sts) + 1] = s2
    BY <1>1, <1>2
  <1>4. ASSUME NEW i \in 1..Len(sts) PROVE Does(path[i], sts[i], path[i + 1])
    <2>1. i = 1 \/ i = 2
      BY <1>1
    <2> QED
      BY <1>1, <1>2, <2>1
  <1>5. Leads(s0, sts, s2)
    BY <1>1, <1>3, <1>4 DEF Leads
  <1> QED
    BY <1>5 DEF sts

LEMMA Path3 ==
    ASSUME NEW s0, NEW s1, NEW s2, NEW s3,
           NEW a1, NEW a2, NEW a3,
           Does(s0, a1, s1), Does(s1, a2, s2), Does(s2, a3, s3)
    PROVE  Leads(s0, <<a1, a2, a3>>, s3)
  <1> DEFINE sts == <<a1, a2, a3>>
             path == <<s0, s1, s2, s3>>
  <1>1. Len(sts) = 3 /\ sts[1] = a1 /\ sts[2] = a2 /\ sts[3] = a3
    OBVIOUS
  <1>2. path[1] = s0 /\ path[2] = s1 /\ path[3] = s2 /\ path[4] = s3
    OBVIOUS
  <1> HIDE DEF sts, path
  <1>3. path[1] = s0 /\ path[Len(sts) + 1] = s3
    BY <1>1, <1>2
  <1>4. ASSUME NEW i \in 1..Len(sts) PROVE Does(path[i], sts[i], path[i + 1])
    <2>1. i = 1 \/ i = 2 \/ i = 3
      BY <1>1
    <2> QED
      BY <1>1, <1>2, <2>1
  <1>5. Leads(s0, sts, s3)
    BY <1>1, <1>3, <1>4 DEF Leads
  <1> QED
    BY <1>5 DEF sts

LEMMA Path4 ==
    ASSUME NEW s0, NEW s1, NEW s2, NEW s3, NEW s4,
           NEW a1, NEW a2, NEW a3, NEW a4,
           Does(s0, a1, s1), Does(s1, a2, s2), Does(s2, a3, s3), Does(s3, a4, s4)
    PROVE  Leads(s0, <<a1, a2, a3, a4>>, s4)
  <1> DEFINE sts == <<a1, a2, a3, a4>>
             path == <<s0, s1, s2, s3, s4>>
  <1>1. Len(sts) = 4 /\ sts[1] = a1 /\ sts[2] = a2 /\ sts[3] = a3 /\ sts[4] = a4
    OBVIOUS
  <1>2. path[1] = s0 /\ path[2] = s1 /\ path[3] = s2 /\ path[4] = s3 /\ path[5] = s4
    OBVIOUS
  <1> HIDE DEF sts, path
  <1>3. path[1] = s0 /\ path[Len(sts) + 1] = s4
    BY <1>1, <1>2
  <1>4. ASSUME NEW i \in 1..Len(sts) PROVE Does(path[i], sts[i], path[i + 1])
    <2>1. i = 1 \/ i = 2 \/ i = 3 \/ i = 4
      BY <1>1
    <2> QED
      BY <1>1, <1>2, <2>1
  <1>5. Leads(s0, sts, s4)
    BY <1>1, <1>3, <1>4 DEF Leads
  <1> QED
    BY <1>5 DEF sts

LEMMA Path5 ==
    ASSUME NEW s0, NEW s1, NEW s2, NEW s3, NEW s4, NEW s5,
           NEW a1, NEW a2, NEW a3, NEW a4, NEW a5,
           Does(s0, a1, s1), Does(s1, a2, s2), Does(s2, a3, s3), Does(s3, a4, s4),
           Does(s4, a5, s5)
    PROVE  Leads(s0, <<a1, a2, a3, a4, a5>>, s5)
  <1> DEFINE sts == <<a1, a2, a3, a4, a5>>
             path == <<s0, s1, s2, s3, s4, s5>>
  <1>1. Len(sts) = 5 /\ sts[1] = a1 /\ sts[2] = a2 /\ sts[3] = a3 /\ sts[4] = a4 /\ sts[5] = a5
    OBVIOUS
  <1>2. path[1] = s0 /\ path[2] = s1 /\ path[3] = s2 /\ path[4] = s3 /\ path[5] = s4 /\
        path[6] = s5
    OBVIOUS
  <1> HIDE DEF sts, path
  <1>3. path[1] = s0 /\ path[Len(sts) + 1] = s5
    BY <1>1, <1>2
  <1>4. ASSUME NEW i \in 1..Len(sts) PROVE Does(path[i], sts[i], path[i + 1])
    <2>1. i = 1 \/ i = 2 \/ i = 3 \/ i = 4 \/ i = 5
      BY <1>1
    <2> QED
      BY <1>1, <1>2, <2>1
  <1>5. Leads(s0, sts, s5)
    BY <1>1, <1>3, <1>4 DEF Leads
  <1> QED
    BY <1>5 DEF sts

LEMMA Path6 ==
    ASSUME NEW s0, NEW s1, NEW s2, NEW s3, NEW s4, NEW s5, NEW s6,
           NEW a1, NEW a2, NEW a3, NEW a4, NEW a5, NEW a6,
           Does(s0, a1, s1), Does(s1, a2, s2), Does(s2, a3, s3), Does(s3, a4, s4),
           Does(s4, a5, s5), Does(s5, a6, s6)
    PROVE  Leads(s0, <<a1, a2, a3, a4, a5, a6>>, s6)
  <1> DEFINE sts == <<a1, a2, a3, a4, a5, a6>>
             path == <<s0, s1, s2, s3, s4, s5, s6>>
  <1>1. Len(sts) = 6 /\ sts[1] = a1 /\ sts[2] = a2 /\ sts[3] = a3 /\ sts[4] = a4 /\ sts[5] =
            a5 /\ sts[6] = a6
    OBVIOUS
  <1>2. path[1] = s0 /\ path[2] = s1 /\ path[3] = s2 /\ path[4] = s3 /\ path[5] = s4 /\
        path[6] = s5 /\ path[7] = s6
    OBVIOUS
  <1> HIDE DEF sts, path
  <1>3. path[1] = s0 /\ path[Len(sts) + 1] = s6
    BY <1>1, <1>2
  <1>4. ASSUME NEW i \in 1..Len(sts) PROVE Does(path[i], sts[i], path[i + 1])
    <2>1. i = 1 \/ i = 2 \/ i = 3 \/ i = 4 \/ i = 5 \/ i = 6
      BY <1>1
    <2> QED
      BY <1>1, <1>2, <2>1
  <1>5. Leads(s0, sts, s6)
    BY <1>1, <1>3, <1>4 DEF Leads
  <1> QED
    BY <1>5 DEF sts

LEMMA Path9 ==
    ASSUME NEW s0, NEW s1, NEW s2, NEW s3, NEW s4, NEW s5, NEW s6, NEW s7, NEW s8, NEW s9,
           NEW a1, NEW a2, NEW a3, NEW a4, NEW a5, NEW a6, NEW a7, NEW a8, NEW a9,
           Does(s0, a1, s1), Does(s1, a2, s2), Does(s2, a3, s3), Does(s3, a4, s4),
           Does(s4, a5, s5), Does(s5, a6, s6), Does(s6, a7, s7), Does(s7, a8, s8),
           Does(s8, a9, s9)
    PROVE  Leads(s0, <<a1, a2, a3, a4, a5, a6, a7, a8, a9>>, s9)
  <1> DEFINE sts == <<a1, a2, a3, a4, a5, a6, a7, a8, a9>>
             path == <<s0, s1, s2, s3, s4, s5, s6, s7, s8, s9>>
  <1>1. Len(sts) = 9 /\ sts[1] = a1 /\ sts[2] = a2 /\ sts[3] = a3 /\ sts[4] = a4 /\ sts[5] = a5 /\
        sts[6] = a6 /\ sts[7] = a7 /\ sts[8] = a8 /\ sts[9] = a9
    OBVIOUS
  <1>2. path[1] = s0 /\ path[2] = s1 /\ path[3] = s2 /\ path[4] = s3 /\ path[5] = s4 /\
        path[6] = s5 /\ path[7] = s6 /\ path[8] = s7 /\ path[9] = s8 /\ path[10] = s9
    OBVIOUS
  <1> HIDE DEF sts, path
  <1>3. path[1] = s0 /\ path[Len(sts) + 1] = s9
    BY <1>1, <1>2
  <1>4. ASSUME NEW i \in 1..Len(sts) PROVE Does(path[i], sts[i], path[i + 1])
    <2>1. i = 1 \/ i = 2 \/ i = 3 \/ i = 4 \/ i = 5 \/ i = 6 \/ i = 7 \/ i = 8 \/ i = 9
      BY <1>1
    <2> QED
      BY <1>1, <1>2, <2>1
  <1>5. Leads(s0, sts, s9)
    BY <1>1, <1>3, <1>4 DEF Leads
  <1> QED
    BY <1>5 DEF sts

LEMMA Path15 ==
    ASSUME NEW s0, NEW s1, NEW s2, NEW s3, NEW s4, NEW s5, NEW s6, NEW s7, NEW s8, NEW s9,
           NEW s10, NEW s11, NEW s12, NEW s13, NEW s14, NEW s15,
           NEW a1, NEW a2, NEW a3, NEW a4, NEW a5, NEW a6, NEW a7, NEW a8, NEW a9, NEW a10,
           NEW a11, NEW a12, NEW a13, NEW a14, NEW a15,
           Does(s0, a1, s1), Does(s1, a2, s2), Does(s2, a3, s3), Does(s3, a4, s4),
           Does(s4, a5, s5), Does(s5, a6, s6), Does(s6, a7, s7), Does(s7, a8, s8),
           Does(s8, a9, s9), Does(s9, a10, s10), Does(s10, a11, s11), Does(s11, a12, s12),
           Does(s12, a13, s13), Does(s13, a14, s14), Does(s14, a15, s15)
    PROVE  Leads(s0, <<a1, a2, a3, a4, a5, a6, a7, a8, a9, a10, a11, a12, a13, a14, a15>>, s15)
  <1> DEFINE sts == <<a1, a2, a3, a4, a5, a6, a7, a8, a9, a10, a11, a12, a13, a14, a15>>
             path == <<s0, s1, s2, s3, s4, s5, s6, s7, s8, s9, s10, s11, s12, s13, s14, s15>>
  <1>1. Len(sts) = 15 /\ sts[1] = a1 /\ sts[2] = a2 /\ sts[3] = a3 /\ sts[4] = a4 /\ sts[5] = a5 /\
        sts[6] = a6 /\ sts[7] = a7 /\ sts[8] = a8 /\ sts[9] = a9 /\ sts[10] = a10 /\
        sts[11] = a11 /\ sts[12] = a12 /\ sts[13] = a13 /\ sts[14] = a14 /\ sts[15] = a15
    OBVIOUS
  <1>2. path[1] = s0 /\ path[2] = s1 /\ path[3] = s2 /\ path[4] = s3 /\ path[5] = s4 /\
        path[6] = s5 /\ path[7] = s6 /\ path[8] = s7 /\ path[9] = s8 /\ path[10] = s9 /\
        path[11] = s10 /\ path[12] = s11 /\ path[13] = s12 /\ path[14] = s13 /\
        path[15] = s14 /\ path[16] = s15
    OBVIOUS
  <1> HIDE DEF sts, path
  <1>3. path[1] = s0 /\ path[Len(sts) + 1] = s15
    BY <1>1, <1>2
  <1>4. ASSUME NEW i \in 1..Len(sts) PROVE Does(path[i], sts[i], path[i + 1])
    <2>1. i = 1 \/ i = 2 \/ i = 3 \/ i = 4 \/ i = 5 \/ i = 6 \/ i = 7 \/ i = 8 \/ i = 9 \/
          i = 10 \/ i = 11 \/ i = 12 \/ i = 13 \/ i = 14 \/ i = 15
      BY <1>1
    <2> QED
      BY <1>1, <1>2, <2>1
  <1>5. Leads(s0, sts, s15)
    BY <1>1, <1>3, <1>4 DEF Leads
  <1> QED
    BY <1>5 DEF sts

-----------------------------------------------------------------------------
(* The twenty migrations, run and reverted. *)

\* 1. The first four tables; the two foreign keys are added at the end.
LEMMA Init19032026Runs ==
    ASSUME NEW s, DOMAIN s = {}
    PROVE  Leads(s, Init19032026.up, Level1)
  <1> DEFINE At1(t) == [token |-> t]
  <1>        At2(t) == [client |-> Client1, token |-> t]
  <1>        At3(t) == [client |-> Client1, user_client_consent |-> Grant1, token |-> t]
  <1>        At4(u, t) == Core(u, Client1, Grant1, t)
  <1>1. \A t :
           DOMAIN At1(t) = {"token"}
    BY DEF Put
  <1>2. \A t :
           DOMAIN At2(t) = {"client", "token"}
    BY DEF Put
  <1>3. \A t :
           DOMAIN At3(t) = {"client", "user_client_consent", "token"}
    BY DEF Put
  <1>4. \A u, t :
           /\ DOMAIN At4(u, t) = {"user", "client", "user_client_consent", "token"}
           /\ At4(u, t)["user"] = u
           /\ At4(u, t)["token"] = t
           /\ \A r : Put(At4(u, t), "user", r) = At4(r, t)
           /\ \A r : Put(At4(u, t), "token", r) = At4(u, r)
    BY DEF Put, Core
  <1>5. \A t : With(s, "token", t) = At1(t)
    BY DEF With
  <1>6. \A t : With(At1(t), "client", Client1) = At2(t)
    BY DEF With
  <1>7. \A t : With(At2(t), "user_client_consent", Grant1) = At3(t)
    BY DEF With
  <1>8. \A u, t : With(At3(t), "user", u) = At4(u, t)
    BY DEF With, Core
  <1>t1. PICK t1 : Plus(t1, NewToken, "FK_94f168", Cascade("userId", "user"))
    BY Edits
  <1>u1. PICK u1 : Plus(u1, NewUser, "FK_633016", References("tokenId", "token", "id", "noAction"))
    BY Edits
  <1>9. u1 = User1
    <2>1. IsTable(u1) /\ IsTable(User1)
      BY <1>u1 DEF Minus, Plus, IsTable, User1
    <2>2. DOMAIN u1 = DOMAIN User1
      BY <1>u1 DEF Minus, Plus, NewUser, User1
    <2>3. \A x \in DOMAIN u1 : u1[x] = User1[x]
      BY <1>u1, <2>2 DEF Minus, Plus, NewUser, User1
    <2> QED
      BY <2>1, <2>2, <2>3, SameTable
  <1>10. t1 = Token1
    <2>1. IsTable(t1) /\ IsTable(Token1)
      BY <1>t1 DEF Minus, Plus, IsTable, Token1
    <2>2. DOMAIN t1 = DOMAIN Token1
      BY <1>t1 DEF Minus, Plus, NewToken, Token1
    <2>3. \A x \in DOMAIN t1 : t1[x] = Token1[x]
      BY <1>t1, <2>2 DEF Minus, Plus, NewToken, Token1
    <2> QED
      BY <2>1, <2>2, <2>3, SameTable
  <1>11. At4(u1, t1) = Level1
    BY <1>9, <1>10 DEF Level1
  <1> HIDE DEF At1, At2, At3, At4
  <1>12. Does(s, Create("token", NewToken), At1(NewToken))
    <2>1. "token" \notin DOMAIN s
      OBVIOUS
    <2> QED
      BY <2>1, <1>5, Creates
  <1>13. Does(At1(NewToken), Create("client", Client1), At2(NewToken))
    <2>1. "client" \notin DOMAIN At1(NewToken)
      BY <1>1
    <2> QED
      BY <1>1, <2>1, <1>6, Creates
  <1>14. Does(At2(NewToken), Create("user_client_consent", Grant1), At3(NewToken))
    <2>1. "user_client_consent" \notin DOMAIN At2(NewToken)
      BY <1>2
    <2> QED
      BY <1>2, <2>1, <1>7, Creates
  <1>15. Does(At3(NewToken), Create("user", NewUser), At4(NewUser, NewToken))
    <2>1. "user" \notin DOMAIN At3(NewToken)
      BY <1>3
    <2> QED
      BY <1>3, <2>1, <1>8, Creates
  <1>16. Does(At4(NewUser, NewToken), Add("token", "FK_94f168", Cascade("userId", "user")),
             At4(NewUser, t1))
    <2>1. /\ "FK_94f168" \notin DOMAIN NewToken
          /\ "userId" \in DOMAIN NewToken
          /\ NewToken["userId"].ty = "uuid"
      BY DEF NewToken, Def, Opt, Req, Column, Unique
    <2>2. /\ "id" \in DOMAIN NewUser
          /\ NewUser["id"].ty = "uuid"
      BY DEF NewUser, Def, Opt, Req, Column, Unique
    <2> QED
      BY <1>4, <1>t1, <2>1, <2>2, AddsCascade DEF Plus
  <1>17. Does(At4(NewUser, t1), Add("user", "FK_633016", References("tokenId", "token", "id",
             "noAction")),
             At4(u1, t1))
    <2>1. /\ "FK_633016" \notin DOMAIN NewUser
          /\ "tokenId" \in DOMAIN NewUser
          /\ NewUser["tokenId"].ty = "uuid"
      BY DEF NewUser, Def, Opt, Req, Column, Unique
    <2>2. /\ "id" \in DOMAIN t1
          /\ t1["id"].ty = "uuid"
      BY <1>t1, Types DEF Minus, Plus, NewToken
    <2> QED
      BY <1>4, <1>u1, <2>1, <2>2, AddsKey DEF Plus, IsUnique
  <1> QED
    BY <1>11, <1>12, <1>13, <1>14, <1>15, <1>16, <1>17, Path6
       DEF Init19032026, NewToken, NewUser, Client1, Grant1

LEMMA Init19032026Reverts == \E s : DOMAIN s = {} /\ Leads(Level1, Init19032026.down, s)
  <1> DEFINE At1(u, t) == Core(u, Client1, Grant1, t)
  <1>        At2(t) == [client |-> Client1, user_client_consent |-> Grant1, token |-> t]
  <1>        At3(t) == [client |-> Client1, token |-> t]
  <1>        At4(t) == [token |-> t]
  <1>1. \A u, t :
           /\ DOMAIN At1(u, t) = {"user", "client", "user_client_consent", "token"}
           /\ At1(u, t)["user"] = u
           /\ At1(u, t)["client"] = Client1
           /\ At1(u, t)["user_client_consent"] = Grant1
           /\ At1(u, t)["token"] = t
           /\ \A r : Put(At1(u, t), "user", r) = At1(r, t)
           /\ \A r : Put(At1(u, t), "token", r) = At1(u, r)
    BY DEF Put, Core
  <1>2. \A t :
           /\ DOMAIN At2(t) = {"client", "user_client_consent", "token"}
           /\ At2(t)["client"] = Client1
           /\ At2(t)["user_client_consent"] = Grant1
           /\ At2(t)["token"] = t
    BY DEF Put
  <1>3. \A t :
           /\ DOMAIN At3(t) = {"client", "token"}
           /\ At3(t)["client"] = Client1
           /\ At3(t)["token"] = t
    BY DEF Put
  <1>4. \A t :
           /\ DOMAIN At4(t) = {"token"}
           /\ At4(t)["token"] = t
    BY DEF Put
  <1>5. \A u, t : Without(At1(u, t), "user") = At2(t)
    BY DEF Without, Core
  <1>6. \A t : Without(At2(t), "user_client_consent") = At3(t)
    BY DEF Without
  <1>7. \A t : Without(At3(t), "client") = At4(t)
    BY DEF Without
  <1>8. At1(User1, Token1) = Level1
    BY DEF Level1
  <1>u1. PICK u1 : Minus(u1, User1, "FK_633016")
    BY Edits
  <1>t1. PICK t1 : Minus(t1, Token1, "FK_94f168")
    BY Edits
  <1> HIDE DEF At1, At2, At3, At4
  <1>9. Does(At1(User1, Token1), Drop("user", "FK_633016"), At1(u1, Token1))
    <2>1. /\ "FK_633016" \in DOMAIN User1
          /\ User1["FK_633016"].kind = "fk"
      BY DEF User1, Def, Opt, Req, Column, References, Unique
    <2> QED
      BY <1>1, <1>u1, <2>1, DropsKey DEF Minus
  <1>10. Does(At1(u1, Token1), Drop("token", "FK_94f168"), At1(u1, t1))
    <2>1. /\ "FK_94f168" \in DOMAIN Token1
          /\ Token1["FK_94f168"].kind = "fk"
      BY DEF Token1, Def, Opt, Req, Column, Cascade, References, Unique
    <2> QED
      BY <1>1, <1>t1, <2>1, DropsKey DEF Minus
  <1>11. Does(At1(u1, t1), DropTable("user"), At2(t1))
    <2>1. \A m \in DOMAIN Client1 : Client1[m].kind = "fk" => Client1[m].table # "user"
      BY DEF Client1, Def, Opt, Req, Column, Unique
    <2>2. \A m \in DOMAIN Grant1 : Grant1[m].kind = "fk" => Grant1[m].table # "user"
      BY DEF Grant1, Def, Req, Column
    <2>3. \A m \in DOMAIN t1 : t1[m].kind = "fk" => t1[m].table # "user"
      BY <1>t1, Kinds DEF Minus, Plus, Token1
    <2>4. MayDropTable(At1(u1, t1), "user")
      BY <1>1, <2>1, <2>2, <2>3 DEF MayDropTable
    <2> QED
      BY <1>1, <2>4, <1>5, DropsTable
  <1>12. Does(At2(t1), DropTable("user_client_consent"), At3(t1))
    <2>1. \A m \in DOMAIN Client1 : Client1[m].kind = "fk" =>
              Client1[m].table # "user_client_consent"
      BY DEF Client1, Def, Opt, Req, Column, Unique
    <2>2. \A m \in DOMAIN t1 : t1[m].kind = "fk" => t1[m].table # "user_client_consent"
      BY <1>t1, Kinds DEF Minus, Plus, Token1
    <2>3. MayDropTable(At2(t1), "user_client_consent")
      BY <1>2, <2>1, <2>2 DEF MayDropTable
    <2> QED
      BY <1>2, <2>3, <1>6, DropsTable
  <1>13. Does(At3(t1), DropTable("client"), At4(t1))
    <2>1. \A m \in DOMAIN t1 : t1[m].kind = "fk" => t1[m].table # "client"
      BY <1>t1, Kinds DEF Minus, Plus, Token1
    <2>2. MayDropTable(At3(t1), "client")
      BY <1>3, <2>1 DEF MayDropTable
    <2> QED
      BY <1>3, <2>2, <1>7, DropsTable
  <1>14. Does(At4(t1), DropTable("token"), Without(At4(t1), "token"))
    <2>1. MayDropTable(At4(t1), "token")
      BY <1>4 DEF MayDropTable
    <2> QED
      BY <1>4, <2>1, DropsTable
  <1>15. DOMAIN Without(At4(t1), "token") = {}
    BY <1>4 DEF Without
  <1> QED
    BY <1>8, <1>15, <1>9, <1>10, <1>11, <1>12, <1>13, <1>14, Path6 DEF Init19032026, InitDown

\* 2. Users and clients of the consents.
LEMMA ConsentRelationRuns == Leads(Level1, ConsentRelation.up, Level2)
  <1> DEFINE At(g) == Core(User1, Client1, g, Token1)
  <1>1. \A g :
           /\ DOMAIN At(g) = {"user", "client", "user_client_consent", "token"}
           /\ At(g)["user"] = User1
           /\ At(g)["client"] = Client1
           /\ At(g)["user_client_consent"] = g
           /\ \A r : Put(At(g), "user_client_consent", r) = At(r)
    BY DEF Put, Core
  <1>2. At(Grant1) = Level1
    BY DEF Level1
  <1>g1. PICK g1 : Plus(g1, Grant1, "user_id", Opt("uuid"))
    BY Edits
  <1>g2. PICK g2 : Plus(g2, g1, "client_id", Opt("varchar"))
    BY Edits
  <1>g3. PICK g3 : Plus(g3, g2, "FK_5085f9", Cascade("user_id", "user"))
    BY Edits
  <1>g4. PICK g4 : Plus(g4, g3, "FK_bd9e36", References("client_id", "client", "clientId",
             "cascade"))
    BY Edits
  <1>3. g4 = Grant2
    <2>1. IsTable(g4) /\ IsTable(Grant2)
      BY <1>g4 DEF Minus, Plus, IsTable, Grant2
    <2>2. DOMAIN g4 = DOMAIN Grant2
      BY <1>g1, <1>g2, <1>g3, <1>g4 DEF Minus, Plus, Grant1, Grant2
    <2>3. \A x \in DOMAIN g4 : g4[x] = Grant2[x]
      BY <1>g1, <1>g2, <1>g3, <1>g4, <2>2 DEF Minus, Plus, Grant1, Grant2
    <2> QED
      BY <2>1, <2>2, <2>3, SameTable
  <1>4. At(g4) = Level2
    BY <1>3 DEF Level2
  <1> HIDE DEF At
  <1>5. Does(At(Grant1), Add("user_client_consent", "user_id", Opt("uuid")), At(g1))
    <2>1. "user_id" \notin DOMAIN Grant1
      BY DEF Grant1
    <2> QED
      BY <1>1, <1>g1, <2>1, AddsColumn, Kinds DEF Plus
  <1>6. Does(At(g1), Add("user_client_consent", "client_id", Opt("varchar")), At(g2))
    <2>1. "client_id" \notin DOMAIN g1
      BY <1>g1 DEF Minus, Plus, Grant1
    <2> QED
      BY <1>1, <1>g2, <2>1, AddsColumn, Kinds DEF Plus
  <1>7. Does(At(g2), Add("user_client_consent", "FK_5085f9", Cascade("user_id", "user")), At(g3))
    <2>1. /\ "FK_5085f9" \notin DOMAIN g2
          /\ "user_id" \in DOMAIN g2
          /\ g2["user_id"].ty = "uuid"
      BY <1>g1, <1>g2, Types DEF Minus, Plus, Grant1
    <2>2. /\ "id" \in DOMAIN User1
          /\ User1["id"].ty = "uuid"
      BY DEF User1, Def, Opt, Req, Column, References, Unique
    <2> QED
      BY <1>1, <1>g3, <2>1, <2>2, AddsCascade DEF Plus
  <1>8. Does(At(g3), Add("user_client_consent", "FK_bd9e36", References("client_id", "client",
            "clientId", "cascade")),
             At(g4))
    <2>1. /\ "FK_bd9e36" \notin DOMAIN g3
          /\ "client_id" \in DOMAIN g3
          /\ g3["client_id"].ty = "varchar"
      BY <1>g1, <1>g2, <1>g3, Types DEF Minus, Plus, Grant1
    <2>2. /\ "clientId" \in DOMAIN Client1
          /\ Client1["clientId"].ty = "varchar"
      BY DEF Client1, Def, Opt, Req, Column, Unique
    <2>3. /\ "UQ_6ed906" \in DOMAIN Client1
          /\ Client1["UQ_6ed906"] = Unique("clientId")
      BY DEF Client1
    <2> QED
      BY <1>1, <1>g4, <2>1, <2>2, <2>3, AddsKey DEF Plus, IsUnique
  <1> QED
    BY <1>2, <1>4, <1>5, <1>6, <1>7, <1>8, Path4 DEF ConsentRelation

LEMMA ConsentRelationReverts == Leads(Level2, ConsentRelation.down, Level1)
  <1> DEFINE At(g) == Core(User1, Client1, g, Token1)
  <1>1. \A g :
           /\ DOMAIN At(g) = {"user", "client", "user_client_consent", "token"}
           /\ At(g)["user_client_consent"] = g
           /\ \A r : Put(At(g), "user_client_consent", r) = At(r)
    BY DEF Put, Core
  <1>2. At(Grant2) = Level2
    BY DEF Level2
  <1>g1. PICK g1 : Minus(g1, Grant2, "FK_bd9e36")
    BY Edits
  <1>g2. PICK g2 : Minus(g2, g1, "FK_5085f9")
    BY Edits
  <1>g3. PICK g3 : Minus(g3, g2, "client_id")
    BY Edits
  <1>g4. PICK g4 : Minus(g4, g3, "user_id")
    BY Edits
  <1>3. g4 = Grant1
    <2>1. IsTable(g4) /\ IsTable(Grant1)
      BY <1>g4 DEF Minus, Plus, IsTable, Grant1
    <2>2. DOMAIN g4 = DOMAIN Grant1
      BY <1>g1, <1>g2, <1>g3, <1>g4 DEF Minus, Plus, Grant2, Grant1
    <2>3. \A x \in DOMAIN g4 : g4[x] = Grant1[x]
      BY <1>g1, <1>g2, <1>g3, <1>g4, <2>2 DEF Minus, Plus, Grant2, Grant1
    <2> QED
      BY <2>1, <2>2, <2>3, SameTable
  <1>4. At(g4) = Level1
    BY <1>3 DEF Level1
  <1> HIDE DEF At
  <1>5. Does(At(Grant2), Drop("user_client_consent", "FK_bd9e36"), At(g1))
    <2>1. /\ "FK_bd9e36" \in DOMAIN Grant2
          /\ Grant2["FK_bd9e36"].kind = "fk"
      BY DEF Grant2, Def, Opt, Req, Column, Cascade, References
    <2> QED
      BY <1>1, <1>g1, <2>1, DropsKey DEF Minus
  <1>6. Does(At(g1), Drop("user_client_consent", "FK_5085f9"), At(g2))
    <2>1. /\ "FK_5085f9" \in DOMAIN g1
          /\ g1["FK_5085f9"].kind = "fk"
      BY <1>g1, Kinds DEF Minus, Plus, Grant2
    <2> QED
      BY <1>1, <1>g2, <2>1, DropsKey DEF Minus
  <1>7. Does(At(g2), Drop("user_client_consent", "client_id"), At(g3))
    <2>1. /\ "client_id" \in DOMAIN g2
          /\ g2["client_id"].kind = "column"
      BY <1>g1, <1>g2, Kinds DEF Minus, Plus, Grant2
    <2>2. \A m \in DOMAIN g2 : g2[m].kind # "column" => g2[m].on # "client_id"
      BY <1>g1, <1>g2, Kinds DEF Minus, Plus, Grant2
    <2> QED
      BY <1>1, <1>g3, <2>1, <2>2, DropsColumn DEF Minus
  <1>8. Does(At(g3), Drop("user_client_consent", "user_id"), At(g4))
    <2>1. /\ "user_id" \in DOMAIN g3
          /\ g3["user_id"].kind = "column"
      BY <1>g1, <1>g2, <1>g3, Kinds DEF Minus, Plus, Grant2
    <2>2. \A m \in DOMAIN g3 : g3[m].kind # "column" => g3[m].on # "user_id"
      BY <1>g1, <1>g2, <1>g3, Kinds DEF Minus, Plus, Grant2
    <2> QED
      BY <1>1, <1>g4, <2>1, <2>2, DropsColumn DEF Minus
  <1> QED
    BY <1>2, <1>4, <1>5, <1>6, <1>7, <1>8, Path4 DEF ConsentRelation

\* The token column is renamed, with nothing on it.
LEMMA TokenNameChanges ==
    /\ Does(Core(User1, Client1, Grant2, Token1),
            Rename("token", "token", "consent_id"), Core(User1, Client1, Grant2, TokenRenamed))
    /\ Does(Core(User1, Client1, Grant2, TokenRenamed),
            Rename("token", "consent_id", "token"), Core(User1, Client1, Grant2, Token1))
  <1>1. Does(Core(User1, Client1, Grant2, Token1),
            Rename("token", "token", "consent_id"), Core(User1, Client1, Grant2, TokenRenamed))
    <2> DEFINE st == Rename("token", "token", "consent_id")
               s == Core(User1, Client1, Grant2, Token1)
               r == Core(User1, Client1, Grant2, TokenRenamed)
    <2>1. st.t = "token" /\ st.n = "token" /\ st.to = "consent_id"
      BY DEF Rename
    <2>2. /\ DOMAIN s = {"user", "client", "user_client_consent", "token"} /\ DOMAIN r =
                 DOMAIN s /\ IsTable(r)
          /\ s["user"] = User1 /\ s["client"] = Client1 /\ s["user_client_consent"] = Grant2 /\
                 s["token"] = Token1
          /\ r["user"] = User1 /\ r["client"] = Client1 /\ r["user_client_consent"] = Grant2 /\
                 r["token"] = TokenRenamed
      BY DEF Core, IsTable
    <2> HIDE DEF s, r, st
    <2>3. IsTable(User1)
      BY DEF IsTable, User1
    <2>4. /\ \A ty : /\ Renamed(Def(ty), "user", st) = Def(ty)
                    /\ Renamed(Opt(ty), "user", st) = Opt(ty)
                    /\ Renamed(Req(ty), "user", st) = Req(ty)
          /\ Renamed(Unique("email"), "user", st) = Unique("email")
          /\ Renamed(Unique("tokenId"), "user", st) = Unique("tokenId")
          /\ Renamed(References("tokenId", "token", "id", "noAction"), "user", st) =
                 References("tokenId", "token", "id", "noAction")
      BY <2>1, Follows
    <2>5. /\ DOMAIN User1 = DOMAIN User1
          /\ \A x \in DOMAIN User1 : User1[x] = Renamed(User1[x], "user", st)
      BY <2>4 DEF User1
    <2>6. IsTable(Client1)
      BY DEF IsTable, Client1
    <2>7. /\ \A ty : /\ Renamed(Def(ty), "client", st) = Def(ty)
                    /\ Renamed(Opt(ty), "client", st) = Opt(ty)
                    /\ Renamed(Req(ty), "client", st) = Req(ty)
          /\ Renamed(Unique("clientId"), "client", st) = Unique("clientId")
          /\ Renamed(Unique("clientSecret"), "client", st) = Unique("clientSecret")
          /\ Renamed(Unique("redirectUris"), "client", st) = Unique("redirectUris")
      BY <2>1, Follows
    <2>8. /\ DOMAIN Client1 = DOMAIN Client1
          /\ \A x \in DOMAIN Client1 : Client1[x] = Renamed(Client1[x], "client", st)
      BY <2>7 DEF Client1
    <2>9. IsTable(Grant2)
      BY DEF IsTable, Grant2
    <2>10. /\ \A ty : /\ Renamed(Def(ty), "user_client_consent", st) = Def(ty)
                     /\ Renamed(Opt(ty), "user_client_consent", st) = Opt(ty)
                     /\ Renamed(Req(ty), "user_client_consent", st) = Req(ty)
           /\ Renamed(Cascade("user_id", "user"), "user_client_consent", st) =
                  Cascade("user_id", "user")
           /\ Renamed(References("client_id", "client", "clientId", "cascade"),
                  "user_client_consent", st) = References("client_id", "client", "clientId",
                      "cascade")
      BY <2>1, Follows DEF Cascade
    <2>11. /\ DOMAIN Grant2 = DOMAIN Grant2
          /\ \A x \in DOMAIN Grant2 : Grant2[x] = Renamed(Grant2[x], "user_client_consent", st)
      BY <2>10 DEF Grant2
    <2>12. IsTable(TokenRenamed)
      BY DEF IsTable, TokenRenamed
    <2>13. /\ \A ty : /\ Renamed(Def(ty), "token", st) = Def(ty)
                     /\ Renamed(Opt(ty), "token", st) = Opt(ty)
                     /\ Renamed(Req(ty), "token", st) = Req(ty)
           /\ Renamed(Unique("userId"), "token", st) = Unique("userId")
           /\ Renamed(Cascade("userId", "user"), "token", st) = Cascade("userId", "user")
      BY <2>1, Follows DEF Cascade
    <2>14. /\ "token" \in DOMAIN Token1 /\ "consent_id" \notin DOMAIN Token1
          /\ DOMAIN TokenRenamed = (DOMAIN Token1 \ {"token"}) \union {"consent_id"}
      BY DEF Token1, TokenRenamed
    <2>15. /\ \A x \in DOMAIN Token1 \ {"token"} : TokenRenamed[x] = Renamed(Token1[x], "token", st)
          /\ TokenRenamed["consent_id"] = Renamed(Token1["token"], "token", st)
      BY <2>13 DEF Token1, TokenRenamed
    <2>16. \A u \in DOMAIN s : IsTable(r[u])
      BY <2>2, <2>3, <2>5, <2>6, <2>8, <2>9, <2>11, <2>12, <2>14, <2>15
    <2>17. \A u \in DOMAIN s \ {"token"} :
             /\ DOMAIN r[u] = DOMAIN s[u]
             /\ \A x \in DOMAIN s[u] : r[u][x] = Renamed(s[u][x], u, st)
      BY <2>2, <2>3, <2>5, <2>6, <2>8, <2>9, <2>11, <2>12, <2>14, <2>15
    <2>18. Does(s, Rename("token", "token", "consent_id"), r)
      BY <2>2, <2>3, <2>5, <2>6, <2>8, <2>9, <2>11, <2>12, <2>14, <2>15, <2>16, <2>17,
          Renames DEF st
    <2> QED
      BY <2>18 DEF s, r
  <1>2. Does(Core(User1, Client1, Grant2, TokenRenamed),
            Rename("token", "consent_id", "token"), Core(User1, Client1, Grant2, Token1))
    <2> DEFINE st == Rename("token", "consent_id", "token")
               s == Core(User1, Client1, Grant2, TokenRenamed)
               r == Core(User1, Client1, Grant2, Token1)
    <2>1. st.t = "token" /\ st.n = "consent_id" /\ st.to = "token"
      BY DEF Rename
    <2>2. /\ DOMAIN s = {"user", "client", "user_client_consent", "token"} /\ DOMAIN r =
                 DOMAIN s /\ IsTable(r)
          /\ s["user"] = User1 /\ s["client"] = Client1 /\ s["user_client_consent"] = Grant2 /\
                 s["token"] = TokenRenamed
          /\ r["user"] = User1 /\ r["client"] = Client1 /\ r["user_client_consent"] = Grant2 /\
                 r["token"] = Token1
      BY DEF Core, IsTable
    <2> HIDE DEF s, r, st
    <2>3. IsTable(User1)
      BY DEF IsTable, User1
    <2>4. /\ \A ty : /\ Renamed(Def(ty), "user", st) = Def(ty)
                    /\ Renamed(Opt(ty), "user", st) = Opt(ty)
                    /\ Renamed(Req(ty), "user", st) = Req(ty)
          /\ Renamed(Unique("email"), "user", st) = Unique("email")
          /\ Renamed(Unique("tokenId"), "user", st) = Unique("tokenId")
          /\ Renamed(References("tokenId", "token", "id", "noAction"), "user", st) =
                 References("tokenId", "token", "id", "noAction")
      BY <2>1, Follows
    <2>5. /\ DOMAIN User1 = DOMAIN User1
          /\ \A x \in DOMAIN User1 : User1[x] = Renamed(User1[x], "user", st)
      BY <2>4 DEF User1
    <2>6. IsTable(Client1)
      BY DEF IsTable, Client1
    <2>7. /\ \A ty : /\ Renamed(Def(ty), "client", st) = Def(ty)
                    /\ Renamed(Opt(ty), "client", st) = Opt(ty)
                    /\ Renamed(Req(ty), "client", st) = Req(ty)
          /\ Renamed(Unique("clientId"), "client", st) = Unique("clientId")
          /\ Renamed(Unique("clientSecret"), "client", st) = Unique("clientSecret")
          /\ Renamed(Unique("redirectUris"), "client", st) = Unique("redirectUris")
      BY <2>1, Follows
    <2>8. /\ DOMAIN Client1 = DOMAIN Client1
          /\ \A x \in DOMAIN Client1 : Client1[x] = Renamed(Client1[x], "client", st)
      BY <2>7 DEF Client1
    <2>9. IsTable(Grant2)
      BY DEF IsTable, Grant2
    <2>10. /\ \A ty : /\ Renamed(Def(ty), "user_client_consent", st) = Def(ty)
                     /\ Renamed(Opt(ty), "user_client_consent", st) = Opt(ty)
                     /\ Renamed(Req(ty), "user_client_consent", st) = Req(ty)
           /\ Renamed(Cascade("user_id", "user"), "user_client_consent", st) =
                  Cascade("user_id", "user")
           /\ Renamed(References("client_id", "client", "clientId", "cascade"),
                  "user_client_consent", st) = References("client_id", "client", "clientId",
                      "cascade")
      BY <2>1, Follows DEF Cascade
    <2>11. /\ DOMAIN Grant2 = DOMAIN Grant2
          /\ \A x \in DOMAIN Grant2 : Grant2[x] = Renamed(Grant2[x], "user_client_consent", st)
      BY <2>10 DEF Grant2
    <2>12. IsTable(Token1)
      BY DEF IsTable, Token1
    <2>13. /\ \A ty : /\ Renamed(Def(ty), "token", st) = Def(ty)
                     /\ Renamed(Opt(ty), "token", st) = Opt(ty)
                     /\ Renamed(Req(ty), "token", st) = Req(ty)
           /\ Renamed(Unique("userId"), "token", st) = Unique("userId")
           /\ Renamed(Cascade("userId", "user"), "token", st) = Cascade("userId", "user")
      BY <2>1, Follows DEF Cascade
    <2>14. /\ "consent_id" \in DOMAIN TokenRenamed /\ "token" \notin DOMAIN TokenRenamed
          /\ DOMAIN Token1 = (DOMAIN TokenRenamed \ {"consent_id"}) \union {"token"}
      BY DEF TokenRenamed, Token1
    <2>15. /\ \A x \in DOMAIN TokenRenamed \ {"consent_id"} : Token1[x] =
                  Renamed(TokenRenamed[x], "token", st)
          /\ Token1["token"] = Renamed(TokenRenamed["consent_id"], "token", st)
      BY <2>13 DEF TokenRenamed, Token1
    <2>16. \A u \in DOMAIN s : IsTable(r[u])
      BY <2>2, <2>3, <2>5, <2>6, <2>8, <2>9, <2>11, <2>12, <2>14, <2>15
    <2>17. \A u \in DOMAIN s \ {"token"} :
             /\ DOMAIN r[u] = DOMAIN s[u]
             /\ \A x \in DOMAIN s[u] : r[u][x] = Renamed(s[u][x], u, st)
      BY <2>2, <2>3, <2>5, <2>6, <2>8, <2>9, <2>11, <2>12, <2>14, <2>15
    <2>18. Does(s, Rename("token", "consent_id", "token"), r)
      BY <2>2, <2>3, <2>5, <2>6, <2>8, <2>9, <2>11, <2>12, <2>14, <2>15, <2>16, <2>17,
          Renames DEF st
    <2> QED
      BY <2>18 DEF s, r
  <1> QED
    BY <1>1, <1>2

\* 3. A column of the tokens is renamed.
LEMMA TokenBecomesConsentIdRuns == Leads(Level2, TokenBecomesConsentId.up, Level3)
  <1> DEFINE At(t) == Core(User1, Client1, Grant2, t)
  <1>1. \A t : /\ DOMAIN At(t) = {"user", "client", "user_client_consent", "token"}
               /\ At(t)["token"] = t
               /\ \A r : Put(At(t), "token", r) = At(r)
    BY DEF Put, Core
  <1>2. At(Token1) = Level2
    BY DEF Level2
  <1>t1. PICK t1 : Plus(t1, TokenRenamed, "consent_id", Opt("varchar"))
    BY Edits
  <1>3. t1 = Token3
    <2>1. IsTable(t1) /\ IsTable(Token3)
      BY <1>t1 DEF Plus, IsTable, Token3
    <2>2. DOMAIN t1 = DOMAIN Token3
      BY <1>t1 DEF Plus, TokenRenamed, Token3
    <2>3. \A x \in DOMAIN t1 : t1[x] = Token3[x]
      BY <1>t1, <2>2 DEF Plus, TokenRenamed, Token3
    <2> QED
      BY <2>1, <2>2, <2>3, SameTable
  <1>4. At(t1) = Level3
    BY <1>3 DEF Level3
  <1>5. Does(At(Token1), Rename("token", "token", "consent_id"), At(TokenRenamed))
    BY TokenNameChanges DEF At
  <1> HIDE DEF At
  <1>6. Does(At(TokenRenamed), Nullable("token", "consent_id"), At(t1))
    <2>1. IsTable(TokenRenamed)
      BY DEF IsTable, TokenRenamed
    <2>2. /\ "consent_id" \in DOMAIN TokenRenamed
          /\ TokenRenamed["consent_id"] = Req("varchar")
      BY DEF TokenRenamed
    <2> QED
      BY <1>1, <1>t1, <2>1, <2>2, Frees DEF Plus
  <1> QED
    BY <1>2, <1>4, <1>5, <1>6, Path2 DEF TokenBecomesConsentId

LEMMA TokenBecomesConsentIdReverts == Leads(Level3, TokenBecomesConsentId.down, Level2)
  <1> DEFINE At(t) == Core(User1, Client1, Grant2, t)
  <1>1. \A t : /\ DOMAIN At(t) = {"user", "client", "user_client_consent", "token"}
               /\ At(t)["token"] = t
               /\ \A r : Put(At(t), "token", r) = At(r)
    BY DEF Put, Core
  <1>2. At(Token3) = Level3 /\ At(Token1) = Level2
    BY DEF Level2, Level3
  <1>t1. PICK t1 : Plus(t1, Token3, "consent_id", Req("varchar"))
    BY Edits
  <1>3. t1 = TokenRenamed
    <2>1. IsTable(t1) /\ IsTable(TokenRenamed)
      BY <1>t1 DEF Plus, IsTable, TokenRenamed
    <2>2. DOMAIN t1 = DOMAIN TokenRenamed
      BY <1>t1 DEF Plus, TokenRenamed, Token3
    <2>3. \A x \in DOMAIN t1 : t1[x] = TokenRenamed[x]
      BY <1>t1, <2>2 DEF Plus, TokenRenamed, Token3
    <2> QED
      BY <2>1, <2>2, <2>3, SameTable
  <1>4. Does(At(TokenRenamed), Rename("token", "consent_id", "token"), At(Token1))
    BY TokenNameChanges DEF At
  <1> HIDE DEF At
  <1>5. Does(At(Token3), NotNull("token", "consent_id"), At(t1))
    <2>1. IsTable(Token3)
      BY DEF IsTable, Token3
    <2>2. /\ "consent_id" \in DOMAIN Token3
          /\ Token3["consent_id"] = Opt("varchar")
      BY DEF Token3
    <2> QED
      BY <1>1, <1>t1, <2>1, <2>2, Requires DEF Plus
  <1> QED
    BY <1>2, <1>3, <1>4, <1>5, Path2 DEF TokenBecomesConsentId

\* 4. Users no longer have one token; tokens have a consent.
LEMMA NewRelationsRuns == Leads(Level3, NewRelations.up, Level4)
  <1> DEFINE At(u, t) == Core(u, Client1, Grant2, t)
  <1>1. \A u, t :
           /\ DOMAIN At(u, t) = {"user", "client", "user_client_consent", "token"}
           /\ At(u, t)["user"] = u
           /\ At(u, t)["client"] = Client1
           /\ At(u, t)["user_client_consent"] = Grant2
           /\ At(u, t)["token"] = t
           /\ \A r : Put(At(u, t), "user", r) = At(r, t)
           /\ \A r : Put(At(u, t), "token", r) = At(u, r)
    BY DEF Put, Core
  <1>2. At(User1, Token3) = Level3
    BY DEF Level3
  <1>u1. PICK u1 : Minus(u1, User1, "FK_633016")
    BY Edits
  <1>u2. PICK u2 : Minus(u2, u1, "REL_633016")
    BY Edits
  <1>u3. PICK u3 : Minus(u3, u2, "tokenId")
    BY Edits
  <1>t1. PICK t1 : Minus(t1, Token3, "FK_94f168")
    BY Edits
  <1>t2. PICK t2 : Minus(t2, t1, "consent_id")
    BY Edits
  <1>t3. PICK t3 : Plus(t3, t2, "consent_id", Opt("uuid"))
    BY Edits
  <1>t4. PICK t4 : Minus(t4, t3, "REL_94f168")
    BY Edits
  <1>t5. PICK t5 : Plus(t5, t4, "FK_94f168", Cascade("userId", "user"))
    BY Edits
  <1>t6. PICK t6 : Plus(t6, t5, "FK_05a103", Cascade("consent_id", "user_client_consent"))
    BY Edits
  <1>3. u3 = User4
    <2>1. IsTable(u3) /\ IsTable(User4)
      BY <1>u3 DEF Minus, Plus, IsTable, User4
    <2>2. DOMAIN u3 = DOMAIN User4
      BY <1>u1, <1>u2, <1>u3 DEF Minus, Plus, User1, User4
    <2>3. \A x \in DOMAIN u3 : u3[x] = User4[x]
      BY <1>u1, <1>u2, <1>u3, <2>2 DEF Minus, Plus, User1, User4
    <2> QED
      BY <2>1, <2>2, <2>3, SameTable
  <1>4. t6 = Token4
    <2>1. IsTable(t6) /\ IsTable(Token4)
      BY <1>t6 DEF Minus, Plus, IsTable, Token4
    <2>2. DOMAIN t6 = DOMAIN Token4
      BY <1>t1, <1>t2, <1>t3, <1>t4, <1>t5, <1>t6 DEF Minus, Plus, Token3, Token4
    <2>3. \A x \in DOMAIN t6 : t6[x] = Token4[x]
      BY <1>t1, <1>t2, <1>t3, <1>t4, <1>t5, <1>t6, <2>2 DEF Minus, Plus, Token3, Token4
    <2> QED
      BY <2>1, <2>2, <2>3, SameTable
  <1>5. At(u3, t6) = Level4
    BY <1>3, <1>4 DEF Level4
  <1> HIDE DEF At
  <1>6. Does(At(User1, Token3), Drop("user", "FK_633016"), At(u1, Token3))
    <2>1. /\ "FK_633016" \in DOMAIN User1
          /\ User1["FK_633016"].kind = "fk"
      BY DEF User1, Def, Opt, Req, Column, References, Unique
    <2> QED
      BY <1>1, <1>u1, <2>1, DropsKey DEF Minus
  <1>7. Does(At(u1, Token3), Drop("user", "REL_633016"), At(u2, Token3))
    <2>1. /\ "REL_633016" \in DOMAIN u1
          /\ u1["REL_633016"] = Unique("tokenId")
      BY <1>u1 DEF Minus, Plus, User1
    <2>2. \A m \in DOMAIN u1 :
            u1[m].kind = "fk" => ~ (u1[m].table = "user" /\ u1[m].ref = "tokenId")
      BY <1>u1, Kinds DEF Minus, Plus, User1
    <2>3. \A m \in DOMAIN Client1 :
            Client1[m].kind = "fk" => ~ (Client1[m].table = "user" /\ Client1[m].ref = "tokenId")
      BY DEF Client1, Def, Opt, Req, Column, Unique
    <2>4. \A m \in DOMAIN Grant2 :
            Grant2[m].kind = "fk" => ~ (Grant2[m].table = "user" /\ Grant2[m].ref = "tokenId")
      BY DEF Grant2, Def, Opt, Req, Column, Cascade, References
    <2>5. \A m \in DOMAIN Token3 :
            Token3[m].kind = "fk" => ~ (Token3[m].table = "user" /\ Token3[m].ref = "tokenId")
      BY DEF Token3, Def, Opt, Req, Column, Cascade, References, Unique
    <2>6. ~ PointsAt(At(u1, Token3), "user", "tokenId")
      BY <1>1, <2>2, <2>3, <2>4, <2>5 DEF PointsAt
    <2> QED
      BY <1>1, <1>u2, <2>1, <2>6, DropsUnique DEF Minus
  <1>8. Does(At(u2, Token3), Drop("user", "tokenId"), At(u3, Token3))
    <2>1. /\ "tokenId" \in DOMAIN u2
          /\ u2["tokenId"].kind = "column"
      BY <1>u1, <1>u2, Kinds DEF Minus, Plus, User1
    <2>2. \A m \in DOMAIN u2 : u2[m].kind # "column" => u2[m].on # "tokenId"
      BY <1>u1, <1>u2, Kinds DEF Minus, Plus, User1
    <2> QED
      BY <1>1, <1>u3, <2>1, <2>2, DropsColumn DEF Minus
  <1>9. Does(At(u3, Token3), Drop("token", "FK_94f168"), At(u3, t1))
    <2>1. /\ "FK_94f168" \in DOMAIN Token3
          /\ Token3["FK_94f168"].kind = "fk"
      BY DEF Token3, Def, Opt, Req, Column, Cascade, References, Unique
    <2> QED
      BY <1>1, <1>t1, <2>1, DropsKey DEF Minus
  <1>10. Does(At(u3, t1), Drop("token", "consent_id"), At(u3, t2))
    <2>1. /\ "consent_id" \in DOMAIN t1
          /\ t1["consent_id"].kind = "column"
      BY <1>t1, Kinds DEF Minus, Plus, Token3
    <2>2. \A m \in DOMAIN t1 : t1[m].kind # "column" => t1[m].on # "consent_id"
      BY <1>t1, Kinds DEF Minus, Plus, Token3
    <2> QED
      BY <1>1, <1>t2, <2>1, <2>2, DropsColumn DEF Minus
  <1>11. Does(At(u3, t2), Add("token", "consent_id", Opt("uuid")), At(u3, t3))
    <2>1. "consent_id" \notin DOMAIN t2
      BY <1>t1, <1>t2 DEF Minus, Plus, Token3
    <2> QED
      BY <1>1, <1>t3, <2>1, AddsColumn, Kinds DEF Plus
  <1>12. Does(At(u3, t3), Drop("token", "REL_94f168"), At(u3, t4))
    <2>1. /\ "REL_94f168" \in DOMAIN t3
          /\ t3["REL_94f168"] = Unique("userId")
      BY <1>t1, <1>t2, <1>t3 DEF Minus, Plus, Token3
    <2>2. \A m \in DOMAIN u3 :
            u3[m].kind = "fk" => ~ (u3[m].table = "token" /\ u3[m].ref = "userId")
      BY <1>u1, <1>u2, <1>u3, Kinds DEF Minus, Plus, User1
    <2>3. \A m \in DOMAIN Client1 :
            Client1[m].kind = "fk" => ~ (Client1[m].table = "token" /\ Client1[m].ref = "userId")
      BY DEF Client1, Def, Opt, Req, Column, Unique
    <2>4. \A m \in DOMAIN Grant2 :
            Grant2[m].kind = "fk" => ~ (Grant2[m].table = "token" /\ Grant2[m].ref = "userId")
      BY DEF Grant2, Def, Opt, Req, Column, Cascade, References
    <2>5. \A m \in DOMAIN t3 :
            t3[m].kind = "fk" => ~ (t3[m].table = "token" /\ t3[m].ref = "userId")
      BY <1>t1, <1>t2, <1>t3, Kinds DEF Minus, Plus, Token3
    <2>6. ~ PointsAt(At(u3, t3), "token", "userId")
      BY <1>1, <2>2, <2>3, <2>4, <2>5 DEF PointsAt
    <2> QED
      BY <1>1, <1>t4, <2>1, <2>6, DropsUnique DEF Minus
  <1>13. Does(At(u3, t4), Add("token", "FK_94f168", Cascade("userId", "user")), At(u3, t5))
    <2>1. /\ "FK_94f168" \notin DOMAIN t4
          /\ "userId" \in DOMAIN t4
          /\ t4["userId"].ty = "uuid"
      BY <1>t1, <1>t2, <1>t3, <1>t4, Types DEF Minus, Plus, Token3
    <2>2. /\ "id" \in DOMAIN u3
          /\ u3["id"].ty = "uuid"
      BY <1>u1, <1>u2, <1>u3, Types DEF Minus, Plus, User1
    <2> QED
      BY <1>1, <1>t5, <2>1, <2>2, AddsCascade DEF Plus
  <1>14. Does(At(u3, t5), Add("token", "FK_05a103", Cascade("consent_id", "user_client_consent")),
             At(u3, t6))
    <2>1. /\ "FK_05a103" \notin DOMAIN t5
          /\ "consent_id" \in DOMAIN t5
          /\ t5["consent_id"].ty = "uuid"
      BY <1>t1, <1>t2, <1>t3, <1>t4, <1>t5, Types DEF Minus, Plus, Token3
    <2>2. /\ "id" \in DOMAIN Grant2
          /\ Grant2["id"].ty = "uuid"
      BY DEF Grant2, Def, Opt, Req, Column, Cascade, References
    <2> QED
      BY <1>1, <1>t6, <2>1, <2>2, AddsCascade DEF Plus
  <1> QED
    BY <1>2, <1>5, <1>6, <1>7, <1>8, <1>9, <1>10, <1>11, <1>12, <1>13, <1>14, Path9
       DEF NewRelations

LEMMA NewRelationsReverts == Leads(Level4, NewRelations.down, Level3)
  <1> DEFINE At(u, t) == Core(u, Client1, Grant2, t)
  <1>1. \A u, t :
           /\ DOMAIN At(u, t) = {"user", "client", "user_client_consent", "token"}
           /\ At(u, t)["user"] = u
           /\ At(u, t)["token"] = t
           /\ \A r : Put(At(u, t), "user", r) = At(r, t)
           /\ \A r : Put(At(u, t), "token", r) = At(u, r)
    BY DEF Put, Core
  <1>2. At(User4, Token4) = Level4
    BY DEF Level4
  <1>t1. PICK t1 : Minus(t1, Token4, "FK_05a103")
    BY Edits
  <1>t2. PICK t2 : Minus(t2, t1, "FK_94f168")
    BY Edits
  <1>t3. PICK t3 : Plus(t3, t2, "REL_94f168", Unique("userId"))
    BY Edits
  <1>t4. PICK t4 : Minus(t4, t3, "consent_id")
    BY Edits
  <1>t5. PICK t5 : Plus(t5, t4, "consent_id", Opt("varchar"))
    BY Edits
  <1>t6. PICK t6 : Plus(t6, t5, "FK_94f168", Cascade("userId", "user"))
    BY Edits
  <1>u1. PICK u1 : Plus(u1, User4, "tokenId", Opt("uuid"))
    BY Edits
  <1>u2. PICK u2 : Plus(u2, u1, "REL_633016", Unique("tokenId"))
    BY Edits
  <1>u3. PICK u3 : Plus(u3, u2, "FK_633016", References("tokenId", "token", "id", "noAction"))
    BY Edits
  <1>3. u3 = User1
    <2>1. IsTable(u3) /\ IsTable(User1)
      BY <1>u3 DEF Minus, Plus, IsTable, User1
    <2>2. DOMAIN u3 = DOMAIN User1
      BY <1>u1, <1>u2, <1>u3 DEF Minus, Plus, User4, User1
    <2>3. \A x \in DOMAIN u3 : u3[x] = User1[x]
      BY <1>u1, <1>u2, <1>u3, <2>2 DEF Minus, Plus, User4, User1
    <2> QED
      BY <2>1, <2>2, <2>3, SameTable
  <1>4. t6 = Token3
    <2>1. IsTable(t6) /\ IsTable(Token3)
      BY <1>t6 DEF Minus, Plus, IsTable, Token3
    <2>2. DOMAIN t6 = DOMAIN Token3
      BY <1>t1, <1>t2, <1>t3, <1>t4, <1>t5, <1>t6 DEF Minus, Plus, Token4, Token3
    <2>3. \A x \in DOMAIN t6 : t6[x] = Token3[x]
      BY <1>t1, <1>t2, <1>t3, <1>t4, <1>t5, <1>t6, <2>2 DEF Minus, Plus, Token4, Token3
    <2> QED
      BY <2>1, <2>2, <2>3, SameTable
  <1>5. At(u3, t6) = Level3
    BY <1>3, <1>4 DEF Level3
  <1> HIDE DEF At
  <1>6. Does(At(User4, Token4), Drop("token", "FK_05a103"), At(User4, t1))
    <2>1. /\ "FK_05a103" \in DOMAIN Token4
          /\ Token4["FK_05a103"].kind = "fk"
      BY DEF Token4, Def, Opt, Req, Column, Cascade, References
    <2> QED
      BY <1>1, <1>t1, <2>1, DropsKey DEF Minus
  <1>7. Does(At(User4, t1), Drop("token", "FK_94f168"), At(User4, t2))
    <2>1. /\ "FK_94f168" \in DOMAIN t1
          /\ t1["FK_94f168"].kind = "fk"
      BY <1>t1, Kinds DEF Minus, Plus, Token4
    <2> QED
      BY <1>1, <1>t2, <2>1, DropsKey DEF Minus
  <1>8. Does(At(User4, t2), Add("token", "REL_94f168", Unique("userId")), At(User4, t3))
    <2>1. /\ "REL_94f168" \notin DOMAIN t2
          /\ "userId" \in DOMAIN t2
      BY <1>t1, <1>t2 DEF Minus, Plus, Token4
    <2> QED
      BY <1>1, <1>t3, <2>1, AddsUnique DEF Plus
  <1>9. Does(At(User4, t3), Drop("token", "consent_id"), At(User4, t4))
    <2>1. /\ "consent_id" \in DOMAIN t3
          /\ t3["consent_id"].kind = "column"
      BY <1>t1, <1>t2, <1>t3, Kinds DEF Minus, Plus, Token4
    <2>2. \A m \in DOMAIN t3 : t3[m].kind # "column" => t3[m].on # "consent_id"
      BY <1>t1, <1>t2, <1>t3, Kinds DEF Minus, Plus, Token4
    <2> QED
      BY <1>1, <1>t4, <2>1, <2>2, DropsColumn DEF Minus
  <1>10. Does(At(User4, t4), Add("token", "consent_id", Opt("varchar")), At(User4, t5))
    <2>1. "consent_id" \notin DOMAIN t4
      BY <1>t1, <1>t2, <1>t3, <1>t4 DEF Minus, Plus, Token4
    <2> QED
      BY <1>1, <1>t5, <2>1, AddsColumn, Kinds DEF Plus
  <1>11. Does(At(User4, t5), Add("token", "FK_94f168", Cascade("userId", "user")), At(User4, t6))
    <2>1. /\ "FK_94f168" \notin DOMAIN t5
          /\ "userId" \in DOMAIN t5
          /\ t5["userId"].ty = "uuid"
      BY <1>t1, <1>t2, <1>t3, <1>t4, <1>t5, Types DEF Minus, Plus, Token4
    <2>2. /\ "id" \in DOMAIN User4
          /\ User4["id"].ty = "uuid"
      BY DEF User4, Def, Req, Column, Unique
    <2> QED
      BY <1>1, <1>t6, <2>1, <2>2, AddsCascade DEF Plus
  <1>12. Does(At(User4, t6), Add("user", "tokenId", Opt("uuid")), At(u1, t6))
    <2>1. "tokenId" \notin DOMAIN User4
      BY DEF User4
    <2> QED
      BY <1>1, <1>u1, <2>1, AddsColumn, Kinds DEF Plus
  <1>13. Does(At(u1, t6), Add("user", "REL_633016", Unique("tokenId")), At(u2, t6))
    <2>1. /\ "REL_633016" \notin DOMAIN u1
          /\ "tokenId" \in DOMAIN u1
      BY <1>u1 DEF Minus, Plus, User4
    <2> QED
      BY <1>1, <1>u2, <2>1, AddsUnique DEF Plus
  <1>14. Does(At(u2, t6), Add("user", "FK_633016", References("tokenId", "token", "id",
             "noAction")),
             At(u3, t6))
    <2>1. /\ "FK_633016" \notin DOMAIN u2
          /\ "tokenId" \in DOMAIN u2
          /\ u2["tokenId"].ty = "uuid"
      BY <1>u1, <1>u2, Types DEF Minus, Plus, User4
    <2>2. /\ "id" \in DOMAIN t6
          /\ t6["id"].ty = "uuid"
      BY <1>t1, <1>t2, <1>t3, <1>t4, <1>t5, <1>t6, Types DEF Minus, Plus, Token4
    <2> QED
      BY <1>1, <1>u3, <2>1, <2>2, AddsKey DEF Plus, IsUnique
  <1> QED
    BY <1>2, <1>5, <1>6, <1>7, <1>8, <1>9, <1>10, <1>11, <1>12, <1>13, <1>14, Path9
       DEF NewRelations

\* 5. Dates of the consents.
LEMMA ConsentDatesRuns == Leads(Level4, ConsentDates.up, Level5)
  <1> DEFINE At(g) == Core(User4, Client1, g, Token4)
  <1>1. \A g :
           /\ DOMAIN At(g) = {"user", "client", "user_client_consent", "token"}
           /\ At(g)["user_client_consent"] = g
           /\ \A r : Put(At(g), "user_client_consent", r) = At(r)
    BY DEF Put, Core
  <1>2. At(Grant2) = Level4
    BY DEF Level4
  <1>g1. PICK g1 : Minus(g1, Grant2, "createAt")
    BY Edits
  <1>g2. PICK g2 : Plus(g2, g1, "grantedAt", Def("timestamptz"))
    BY Edits
  <1>g3. PICK g3 : Plus(g3, g2, "expires_at", Opt("timestamp"))
    BY Edits
  <1>g4. PICK g4 : Plus(g4, g3, "revoke_at", Opt("timestamp"))
    BY Edits
  <1>3. g4 = Grant5
    <2>1. IsTable(g4) /\ IsTable(Grant5)
      BY <1>g4 DEF Minus, Plus, IsTable, Grant5
    <2>2. DOMAIN g4 = DOMAIN Grant5
      BY <1>g1, <1>g2, <1>g3, <1>g4 DEF Minus, Plus, Grant2, Grant5
    <2>3. \A x \in DOMAIN g4 : g4[x] = Grant5[x]
      BY <1>g1, <1>g2, <1>g3, <1>g4, <2>2 DEF Minus, Plus, Grant2, Grant5
    <2> QED
      BY <2>1, <2>2, <2>3, SameTable
  <1>4. At(g4) = Level5
    BY <1>3 DEF Level5
  <1> HIDE DEF At
  <1>5. Does(At(Grant2), Drop("user_client_consent", "createAt"), At(g1))
    <2>1. /\ "createAt" \in DOMAIN Grant2
          /\ Grant2["createAt"].kind = "column"
      BY DEF Grant2, Def, Opt, Req, Column, Cascade, References
    <2>2. \A m \in DOMAIN Grant2 : Grant2[m].kind # "column" => Grant2[m].on # "createAt"
      BY DEF Grant2, Def, Opt, Req, Column, Cascade, References
    <2> QED
      BY <1>1, <1>g1, <2>1, <2>2, DropsColumn DEF Minus
  <1>6. Does(At(g1), Add("user_client_consent", "grantedAt", Def("timestamptz")), At(g2))
    <2>1. "grantedAt" \notin DOMAIN g1
      BY <1>g1 DEF Minus, Plus, Grant2
    <2> QED
      BY <1>1, <1>g2, <2>1, AddsColumn, Kinds DEF Plus
  <1>7. Does(At(g2), Add("user_client_consent", "expires_at", Opt("timestamp")), At(g3))
    <2>1. "expires_at" \notin DOMAIN g2
      BY <1>g1, <1>g2 DEF Minus, Plus, Grant2
    <2> QED
      BY <1>1, <1>g3, <2>1, AddsColumn, Kinds DEF Plus
  <1>8. Does(At(g3), Add("user_client_consent", "revoke_at", Opt("timestamp")), At(g4))
    <2>1. "revoke_at" \notin DOMAIN g3
      BY <1>g1, <1>g2, <1>g3 DEF Minus, Plus, Grant2
    <2> QED
      BY <1>1, <1>g4, <2>1, AddsColumn, Kinds DEF Plus
  <1> QED
    BY <1>2, <1>4, <1>5, <1>6, <1>7, <1>8, Path4 DEF ConsentDates

LEMMA ConsentDatesReverts == Leads(Level5, ConsentDates.down, Level4)
  <1> DEFINE At(g) == Core(User4, Client1, g, Token4)
  <1>1. \A g :
           /\ DOMAIN At(g) = {"user", "client", "user_client_consent", "token"}
           /\ At(g)["user_client_consent"] = g
           /\ \A r : Put(At(g), "user_client_consent", r) = At(r)
    BY DEF Put, Core
  <1>2. At(Grant5) = Level5
    BY DEF Level5
  <1>g1. PICK g1 : Minus(g1, Grant5, "revoke_at")
    BY Edits
  <1>g2. PICK g2 : Minus(g2, g1, "expires_at")
    BY Edits
  <1>g3. PICK g3 : Minus(g3, g2, "grantedAt")
    BY Edits
  <1>g4. PICK g4 : Plus(g4, g3, "createAt", Def("timestamptz"))
    BY Edits
  <1>3. g4 = Grant2
    <2>1. IsTable(g4) /\ IsTable(Grant2)
      BY <1>g4 DEF Minus, Plus, IsTable, Grant2
    <2>2. DOMAIN g4 = DOMAIN Grant2
      BY <1>g1, <1>g2, <1>g3, <1>g4 DEF Minus, Plus, Grant5, Grant2
    <2>3. \A x \in DOMAIN g4 : g4[x] = Grant2[x]
      BY <1>g1, <1>g2, <1>g3, <1>g4, <2>2 DEF Minus, Plus, Grant5, Grant2
    <2> QED
      BY <2>1, <2>2, <2>3, SameTable
  <1>4. At(g4) = Level4
    BY <1>3 DEF Level4
  <1> HIDE DEF At
  <1>5. Does(At(Grant5), Drop("user_client_consent", "revoke_at"), At(g1))
    <2>1. /\ "revoke_at" \in DOMAIN Grant5
          /\ Grant5["revoke_at"].kind = "column"
      BY DEF Grant5, Def, Opt, Req, Column, Cascade, References
    <2>2. \A m \in DOMAIN Grant5 : Grant5[m].kind # "column" => Grant5[m].on # "revoke_at"
      BY DEF Grant5, Def, Opt, Req, Column, Cascade, References
    <2> QED
      BY <1>1, <1>g1, <2>1, <2>2, DropsColumn DEF Minus
  <1>6. Does(At(g1), Drop("user_client_consent", "expires_at"), At(g2))
    <2>1. /\ "expires_at" \in DOMAIN g1
          /\ g1["expires_at"].kind = "column"
      BY <1>g1, Kinds DEF Minus, Plus, Grant5
    <2>2. \A m \in DOMAIN g1 : g1[m].kind # "column" => g1[m].on # "expires_at"
      BY <1>g1, Kinds DEF Minus, Plus, Grant5
    <2> QED
      BY <1>1, <1>g2, <2>1, <2>2, DropsColumn DEF Minus
  <1>7. Does(At(g2), Drop("user_client_consent", "grantedAt"), At(g3))
    <2>1. /\ "grantedAt" \in DOMAIN g2
          /\ g2["grantedAt"].kind = "column"
      BY <1>g1, <1>g2, Kinds DEF Minus, Plus, Grant5
    <2>2. \A m \in DOMAIN g2 : g2[m].kind # "column" => g2[m].on # "grantedAt"
      BY <1>g1, <1>g2, Kinds DEF Minus, Plus, Grant5
    <2> QED
      BY <1>1, <1>g3, <2>1, <2>2, DropsColumn DEF Minus
  <1>8. Does(At(g3), Add("user_client_consent", "createAt", Def("timestamptz")), At(g4))
    <2>1. "createAt" \notin DOMAIN g3
      BY <1>g1, <1>g2, <1>g3 DEF Minus, Plus, Grant5
    <2> QED
      BY <1>1, <1>g4, <2>1, AddsColumn, Kinds DEF Plus
  <1> QED
    BY <1>2, <1>4, <1>5, <1>6, <1>7, <1>8, Path4 DEF ConsentDates

\* The client id is renamed, and with it its unique key and the foreign key to it.
LEMMA ClientNameChanges ==
    /\ Does(Core(User4, Client1, Grant5, Token4),
            Rename("client", "clientId", "client_id"), Core(User4, ClientRenamed, Grant6, Token4))
    /\ Does(Core(User4, ClientRenamed, Grant6, Token4),
            Rename("client", "client_id", "clientId"), Core(User4, Client1, Grant5, Token4))
  <1>1. Does(Core(User4, Client1, Grant5, Token4),
            Rename("client", "clientId", "client_id"), Core(User4, ClientRenamed, Grant6, Token4))
    <2> DEFINE st == Rename("client", "clientId", "client_id")
               s == Core(User4, Client1, Grant5, Token4)
               r == Core(User4, ClientRenamed, Grant6, Token4)
    <2>1. st.t = "client" /\ st.n = "clientId" /\ st.to = "client_id"
      BY DEF Rename
    <2>2. /\ DOMAIN s = {"user", "client", "user_client_consent", "token"} /\ DOMAIN r =
                 DOMAIN s /\ IsTable(r)
          /\ s["user"] = User4 /\ s["client"] = Client1 /\ s["user_client_consent"] = Grant5 /\
                 s["token"] = Token4
          /\ r["user"] = User4 /\ r["client"] = ClientRenamed /\ r["user_client_consent"] =
                 Grant6 /\ r["token"] = Token4
      BY DEF Core, IsTable
    <2> HIDE DEF s, r, st
    <2>3. IsTable(User4)
      BY DEF IsTable, User4
    <2>4. /\ \A ty : /\ Renamed(Def(ty), "user", st) = Def(ty)
                    /\ Renamed(Opt(ty), "user", st) = Opt(ty)
                    /\ Renamed(Req(ty), "user", st) = Req(ty)
          /\ Renamed(Unique("email"), "user", st) = Unique("email")
      BY <2>1, Follows
    <2>5. /\ DOMAIN User4 = DOMAIN User4
          /\ \A x \in DOMAIN User4 : User4[x] = Renamed(User4[x], "user", st)
      BY <2>4 DEF User4
    <2>6. IsTable(ClientRenamed)
      BY DEF IsTable, ClientRenamed
    <2>7. /\ \A ty : /\ Renamed(Def(ty), "client", st) = Def(ty)
                    /\ Renamed(Opt(ty), "client", st) = Opt(ty)
                    /\ Renamed(Req(ty), "client", st) = Req(ty)
          /\ Renamed(Unique("clientId"), "client", st) = Unique("client_id")
          /\ Renamed(Unique("clientSecret"), "client", st) = Unique("clientSecret")
          /\ Renamed(Unique("redirectUris"), "client", st) = Unique("redirectUris")
      BY <2>1, Follows
    <2>8. /\ "clientId" \in DOMAIN Client1 /\ "client_id" \notin DOMAIN Client1
          /\ DOMAIN ClientRenamed = (DOMAIN Client1 \ {"clientId"}) \union {"client_id"}
      BY DEF Client1, ClientRenamed
    <2>9. /\ \A x \in DOMAIN Client1 \ {"clientId"} : ClientRenamed[x] = Renamed(Client1[x],
                 "client", st)
          /\ ClientRenamed["client_id"] = Renamed(Client1["clientId"], "client", st)
      BY <2>7 DEF Client1, ClientRenamed
    <2>10. IsTable(Grant6)
      BY DEF IsTable, Grant6
    <2>11. /\ \A ty : /\ Renamed(Def(ty), "user_client_consent", st) = Def(ty)
                     /\ Renamed(Opt(ty), "user_client_consent", st) = Opt(ty)
                     /\ Renamed(Req(ty), "user_client_consent", st) = Req(ty)
           /\ Renamed(Cascade("user_id", "user"), "user_client_consent", st) =
                  Cascade("user_id", "user")
           /\ Renamed(References("client_id", "client", "clientId", "cascade"),
                  "user_client_consent", st) = References("client_id", "client", "client_id",
                      "cascade")
      BY <2>1, Follows DEF Cascade
    <2>12. /\ DOMAIN Grant6 = DOMAIN Grant5
          /\ \A x \in DOMAIN Grant5 : Grant6[x] = Renamed(Grant5[x], "user_client_consent", st)
      BY <2>11 DEF Grant5, Grant6
    <2>13. IsTable(Token4)
      BY DEF IsTable, Token4
    <2>14. /\ \A ty : /\ Renamed(Def(ty), "token", st) = Def(ty)
                     /\ Renamed(Opt(ty), "token", st) = Opt(ty)
                     /\ Renamed(Req(ty), "token", st) = Req(ty)
           /\ Renamed(Cascade("userId", "user"), "token", st) = Cascade("userId", "user")
           /\ Renamed(Cascade("consent_id", "user_client_consent"), "token", st) =
                  Cascade("consent_id", "user_client_consent")
      BY <2>1, Follows DEF Cascade
    <2>15. /\ DOMAIN Token4 = DOMAIN Token4
          /\ \A x \in DOMAIN Token4 : Token4[x] = Renamed(Token4[x], "token", st)
      BY <2>14 DEF Token4
    <2>16. \A u \in DOMAIN s : IsTable(r[u])
      BY <2>2, <2>3, <2>5, <2>6, <2>8, <2>9, <2>10, <2>12, <2>13, <2>15
    <2>17. \A u \in DOMAIN s \ {"client"} :
             /\ DOMAIN r[u] = DOMAIN s[u]
             /\ \A x \in DOMAIN s[u] : r[u][x] = Renamed(s[u][x], u, st)
      BY <2>2, <2>3, <2>5, <2>6, <2>8, <2>9, <2>10, <2>12, <2>13, <2>15
    <2>18. Does(s, Rename("client", "clientId", "client_id"), r)
      BY <2>2, <2>3, <2>5, <2>6, <2>8, <2>9, <2>10, <2>12, <2>13, <2>15, <2>16, <2>17,
          Renames DEF st
    <2> QED
      BY <2>18 DEF s, r
  <1>2. Does(Core(User4, ClientRenamed, Grant6, Token4),
            Rename("client", "client_id", "clientId"), Core(User4, Client1, Grant5, Token4))
    <2> DEFINE st == Rename("client", "client_id", "clientId")
               s == Core(User4, ClientRenamed, Grant6, Token4)
               r == Core(User4, Client1, Grant5, Token4)
    <2>1. st.t = "client" /\ st.n = "client_id" /\ st.to = "clientId"
      BY DEF Rename
    <2>2. /\ DOMAIN s = {"user", "client", "user_client_consent", "token"} /\ DOMAIN r =
                 DOMAIN s /\ IsTable(r)
          /\ s["user"] = User4 /\ s["client"] = ClientRenamed /\ s["user_client_consent"] =
                 Grant6 /\ s["token"] = Token4
          /\ r["user"] = User4 /\ r["client"] = Client1 /\ r["user_client_consent"] = Grant5 /\
                 r["token"] = Token4
      BY DEF Core, IsTable
    <2> HIDE DEF s, r, st
    <2>3. IsTable(User4)
      BY DEF IsTable, User4
    <2>4. /\ \A ty : /\ Renamed(Def(ty), "user", st) = Def(ty)
                    /\ Renamed(Opt(ty), "user", st) = Opt(ty)
                    /\ Renamed(Req(ty), "user", st) = Req(ty)
          /\ Renamed(Unique("email"), "user", st) = Unique("email")
      BY <2>1, Follows
    <2>5. /\ DOMAIN User4 = DOMAIN User4
          /\ \A x \in DOMAIN User4 : User4[x] = Renamed(User4[x], "user", st)
      BY <2>4 DEF User4
    <2>6. IsTable(Client1)
      BY DEF IsTable, Client1
    <2>7. /\ \A ty : /\ Renamed(Def(ty), "client", st) = Def(ty)
                    /\ Renamed(Opt(ty), "client", st) = Opt(ty)
                    /\ Renamed(Req(ty), "client", st) = Req(ty)
          /\ Renamed(Unique("client_id"), "client", st) = Unique("clientId")
          /\ Renamed(Unique("clientSecret"), "client", st) = Unique("clientSecret")
          /\ Renamed(Unique("redirectUris"), "client", st) = Unique("redirectUris")
      BY <2>1, Follows
    <2>8. /\ "client_id" \in DOMAIN ClientRenamed /\ "clientId" \notin DOMAIN ClientRenamed
          /\ DOMAIN Client1 = (DOMAIN ClientRenamed \ {"client_id"}) \union {"clientId"}
      BY DEF ClientRenamed, Client1
    <2>9. /\ \A x \in DOMAIN ClientRenamed \ {"client_id"} : Client1[x] =
                 Renamed(ClientRenamed[x], "client", st)
          /\ Client1["clientId"] = Renamed(ClientRenamed["client_id"], "client", st)
      BY <2>7 DEF ClientRenamed, Client1
    <2>10. IsTable(Grant5)
      BY DEF IsTable, Grant5
    <2>11. /\ \A ty : /\ Renamed(Def(ty), "user_client_consent", st) = Def(ty)
                     /\ Renamed(Opt(ty), "user_client_consent", st) = Opt(ty)
                     /\ Renamed(Req(ty), "user_client_consent", st) = Req(ty)
           /\ Renamed(Cascade("user_id", "user"), "user_client_consent", st) =
                  Cascade("user_id", "user")
           /\ Renamed(References("client_id", "client", "client_id", "cascade"),
                  "user_client_consent", st) = References("client_id", "client", "clientId",
                      "cascade")
      BY <2>1, Follows DEF Cascade
    <2>12. /\ DOMAIN Grant5 = DOMAIN Grant6
          /\ \A x \in DOMAIN Grant6 : Grant5[x] = Renamed(Grant6[x], "user_client_consent", st)
      BY <2>11 DEF Grant6, Grant5
    <2>13. IsTable(Token4)
      BY DEF IsTable, Token4
    <2>14. /\ \A ty : /\ Renamed(Def(ty), "token", st) = Def(ty)
                     /\ Renamed(Opt(ty), "token", st) = Opt(ty)
                     /\ Renamed(Req(ty), "token", st) = Req(ty)
           /\ Renamed(Cascade("userId", "user"), "token", st) = Cascade("userId", "user")
           /\ Renamed(Cascade("consent_id", "user_client_consent"), "token", st) =
                  Cascade("consent_id", "user_client_consent")
      BY <2>1, Follows DEF Cascade
    <2>15. /\ DOMAIN Token4 = DOMAIN Token4
          /\ \A x \in DOMAIN Token4 : Token4[x] = Renamed(Token4[x], "token", st)
      BY <2>14 DEF Token4
    <2>16. \A u \in DOMAIN s : IsTable(r[u])
      BY <2>2, <2>3, <2>5, <2>6, <2>8, <2>9, <2>10, <2>12, <2>13, <2>15
    <2>17. \A u \in DOMAIN s \ {"client"} :
             /\ DOMAIN r[u] = DOMAIN s[u]
             /\ \A x \in DOMAIN s[u] : r[u][x] = Renamed(s[u][x], u, st)
      BY <2>2, <2>3, <2>5, <2>6, <2>8, <2>9, <2>10, <2>12, <2>13, <2>15
    <2>18. Does(s, Rename("client", "client_id", "clientId"), r)
      BY <2>2, <2>3, <2>5, <2>6, <2>8, <2>9, <2>10, <2>12, <2>13, <2>15, <2>16, <2>17,
          Renames DEF st
    <2> QED
      BY <2>18 DEF s, r
  <1> QED
    BY <1>1, <1>2

\* The unique key is renamed.
LEMMA KeyNameChanges ==
    /\ Does(Core(User4, ClientRenamed, Grant6, Token4),
            Rename("client", "UQ_6ed906", "UQ_7510ce"), Core(User4, Client6, Grant6, Token4))
    /\ Does(Core(User4, Client6, Grant6, Token4),
            Rename("client", "UQ_7510ce", "UQ_6ed906"), Core(User4, ClientRenamed, Grant6, Token4))
  <1>1. Does(Core(User4, ClientRenamed, Grant6, Token4),
            Rename("client", "UQ_6ed906", "UQ_7510ce"), Core(User4, Client6, Grant6, Token4))
    <2> DEFINE st == Rename("client", "UQ_6ed906", "UQ_7510ce")
               s == Core(User4, ClientRenamed, Grant6, Token4)
               r == Core(User4, Client6, Grant6, Token4)
    <2>1. st.t = "client" /\ st.n = "UQ_6ed906" /\ st.to = "UQ_7510ce"
      BY DEF Rename
    <2>2. /\ DOMAIN s = {"user", "client", "user_client_consent", "token"} /\ DOMAIN r =
                 DOMAIN s /\ IsTable(r)
          /\ s["user"] = User4 /\ s["client"] = ClientRenamed /\ s["user_client_consent"] =
                 Grant6 /\ s["token"] = Token4
          /\ r["user"] = User4 /\ r["client"] = Client6 /\ r["user_client_consent"] = Grant6 /\
                 r["token"] = Token4
      BY DEF Core, IsTable
    <2> HIDE DEF s, r, st
    <2>3. IsTable(User4)
      BY DEF IsTable, User4
    <2>4. /\ \A ty : /\ Renamed(Def(ty), "user", st) = Def(ty)
                    /\ Renamed(Opt(ty), "user", st) = Opt(ty)
                    /\ Renamed(Req(ty), "user", st) = Req(ty)
          /\ Renamed(Unique("email"), "user", st) = Unique("email")
      BY <2>1, Follows
    <2>5. /\ DOMAIN User4 = DOMAIN User4
          /\ \A x \in DOMAIN User4 : User4[x] = Renamed(User4[x], "user", st)
      BY <2>4 DEF User4
    <2>6. IsTable(Client6)
      BY DEF IsTable, Client6
    <2>7. /\ \A ty : /\ Renamed(Def(ty), "client", st) = Def(ty)
                    /\ Renamed(Opt(ty), "client", st) = Opt(ty)
                    /\ Renamed(Req(ty), "client", st) = Req(ty)
          /\ Renamed(Unique("client_id"), "client", st) = Unique("client_id")
          /\ Renamed(Unique("clientSecret"), "client", st) = Unique("clientSecret")
          /\ Renamed(Unique("redirectUris"), "client", st) = Unique("redirectUris")
      BY <2>1, Follows
    <2>8. /\ "UQ_6ed906" \in DOMAIN ClientRenamed /\ "UQ_7510ce" \notin DOMAIN ClientRenamed
          /\ DOMAIN Client6 = (DOMAIN ClientRenamed \ {"UQ_6ed906"}) \union {"UQ_7510ce"}
      BY DEF ClientRenamed, Client6
    <2>9. /\ \A x \in DOMAIN ClientRenamed \ {"UQ_6ed906"} : Client6[x] =
                 Renamed(ClientRenamed[x], "client", st)
          /\ Client6["UQ_7510ce"] = Renamed(ClientRenamed["UQ_6ed906"], "client", st)
      BY <2>7 DEF ClientRenamed, Client6
    <2>10. IsTable(Grant6)
      BY DEF IsTable, Grant6
    <2>11. /\ \A ty : /\ Renamed(Def(ty), "user_client_consent", st) = Def(ty)
                     /\ Renamed(Opt(ty), "user_client_consent", st) = Opt(ty)
                     /\ Renamed(Req(ty), "user_client_consent", st) = Req(ty)
           /\ Renamed(Cascade("user_id", "user"), "user_client_consent", st) =
                  Cascade("user_id", "user")
           /\ Renamed(References("client_id", "client", "client_id", "cascade"),
                  "user_client_consent", st) = References("client_id", "client", "client_id",
                      "cascade")
      BY <2>1, Follows DEF Cascade
    <2>12. /\ DOMAIN Grant6 = DOMAIN Grant6
          /\ \A x \in DOMAIN Grant6 : Grant6[x] = Renamed(Grant6[x], "user_client_consent", st)
      BY <2>11 DEF Grant6
    <2>13. IsTable(Token4)
      BY DEF IsTable, Token4
    <2>14. /\ \A ty : /\ Renamed(Def(ty), "token", st) = Def(ty)
                     /\ Renamed(Opt(ty), "token", st) = Opt(ty)
                     /\ Renamed(Req(ty), "token", st) = Req(ty)
           /\ Renamed(Cascade("userId", "user"), "token", st) = Cascade("userId", "user")
           /\ Renamed(Cascade("consent_id", "user_client_consent"), "token", st) =
                  Cascade("consent_id", "user_client_consent")
      BY <2>1, Follows DEF Cascade
    <2>15. /\ DOMAIN Token4 = DOMAIN Token4
          /\ \A x \in DOMAIN Token4 : Token4[x] = Renamed(Token4[x], "token", st)
      BY <2>14 DEF Token4
    <2>16. \A u \in DOMAIN s : IsTable(r[u])
      BY <2>2, <2>3, <2>5, <2>6, <2>8, <2>9, <2>10, <2>12, <2>13, <2>15
    <2>17. \A u \in DOMAIN s \ {"client"} :
             /\ DOMAIN r[u] = DOMAIN s[u]
             /\ \A x \in DOMAIN s[u] : r[u][x] = Renamed(s[u][x], u, st)
      BY <2>2, <2>3, <2>5, <2>6, <2>8, <2>9, <2>10, <2>12, <2>13, <2>15
    <2>18. Does(s, Rename("client", "UQ_6ed906", "UQ_7510ce"), r)
      BY <2>2, <2>3, <2>5, <2>6, <2>8, <2>9, <2>10, <2>12, <2>13, <2>15, <2>16, <2>17,
          Renames DEF st
    <2> QED
      BY <2>18 DEF s, r
  <1>2. Does(Core(User4, Client6, Grant6, Token4),
            Rename("client", "UQ_7510ce", "UQ_6ed906"), Core(User4, ClientRenamed, Grant6, Token4))
    <2> DEFINE st == Rename("client", "UQ_7510ce", "UQ_6ed906")
               s == Core(User4, Client6, Grant6, Token4)
               r == Core(User4, ClientRenamed, Grant6, Token4)
    <2>1. st.t = "client" /\ st.n = "UQ_7510ce" /\ st.to = "UQ_6ed906"
      BY DEF Rename
    <2>2. /\ DOMAIN s = {"user", "client", "user_client_consent", "token"} /\ DOMAIN r =
                 DOMAIN s /\ IsTable(r)
          /\ s["user"] = User4 /\ s["client"] = Client6 /\ s["user_client_consent"] = Grant6 /\
                 s["token"] = Token4
          /\ r["user"] = User4 /\ r["client"] = ClientRenamed /\ r["user_client_consent"] =
                 Grant6 /\ r["token"] = Token4
      BY DEF Core, IsTable
    <2> HIDE DEF s, r, st
    <2>3. IsTable(User4)
      BY DEF IsTable, User4
    <2>4. /\ \A ty : /\ Renamed(Def(ty), "user", st) = Def(ty)
                    /\ Renamed(Opt(ty), "user", st) = Opt(ty)
                    /\ Renamed(Req(ty), "user", st) = Req(ty)
          /\ Renamed(Unique("email"), "user", st) = Unique("email")
      BY <2>1, Follows
    <2>5. /\ DOMAIN User4 = DOMAIN User4
          /\ \A x \in DOMAIN User4 : User4[x] = Renamed(User4[x], "user", st)
      BY <2>4 DEF User4
    <2>6. IsTable(ClientRenamed)
      BY DEF IsTable, ClientRenamed
    <2>7. /\ \A ty : /\ Renamed(Def(ty), "client", st) = Def(ty)
                    /\ Renamed(Opt(ty), "client", st) = Opt(ty)
                    /\ Renamed(Req(ty), "client", st) = Req(ty)
          /\ Renamed(Unique("clientSecret"), "client", st) = Unique("clientSecret")
          /\ Renamed(Unique("redirectUris"), "client", st) = Unique("redirectUris")
          /\ Renamed(Unique("client_id"), "client", st) = Unique("client_id")
      BY <2>1, Follows
    <2>8. /\ "UQ_7510ce" \in DOMAIN Client6 /\ "UQ_6ed906" \notin DOMAIN Client6
          /\ DOMAIN ClientRenamed = (DOMAIN Client6 \ {"UQ_7510ce"}) \union {"UQ_6ed906"}
      BY DEF Client6, ClientRenamed
    <2>9. /\ \A x \in DOMAIN Client6 \ {"UQ_7510ce"} : ClientRenamed[x] = Renamed(Client6[x],
                 "client", st)
          /\ ClientRenamed["UQ_6ed906"] = Renamed(Client6["UQ_7510ce"], "client", st)
      BY <2>7 DEF Client6, ClientRenamed
    <2>10. IsTable(Grant6)
      BY DEF IsTable, Grant6
    <2>11. /\ \A ty : /\ Renamed(Def(ty), "user_client_consent", st) = Def(ty)
                     /\ Renamed(Opt(ty), "user_client_consent", st) = Opt(ty)
                     /\ Renamed(Req(ty), "user_client_consent", st) = Req(ty)
           /\ Renamed(Cascade("user_id", "user"), "user_client_consent", st) =
                  Cascade("user_id", "user")
           /\ Renamed(References("client_id", "client", "client_id", "cascade"),
                  "user_client_consent", st) = References("client_id", "client", "client_id",
                      "cascade")
      BY <2>1, Follows DEF Cascade
    <2>12. /\ DOMAIN Grant6 = DOMAIN Grant6
          /\ \A x \in DOMAIN Grant6 : Grant6[x] = Renamed(Grant6[x], "user_client_consent", st)
      BY <2>11 DEF Grant6
    <2>13. IsTable(Token4)
      BY DEF IsTable, Token4
    <2>14. /\ \A ty : /\ Renamed(Def(ty), "token", st) = Def(ty)
                     /\ Renamed(Opt(ty), "token", st) = Opt(ty)
                     /\ Renamed(Req(ty), "token", st) = Req(ty)
           /\ Renamed(Cascade("userId", "user"), "token", st) = Cascade("userId", "user")
           /\ Renamed(Cascade("consent_id", "user_client_consent"), "token", st) =
                  Cascade("consent_id", "user_client_consent")
      BY <2>1, Follows DEF Cascade
    <2>15. /\ DOMAIN Token4 = DOMAIN Token4
          /\ \A x \in DOMAIN Token4 : Token4[x] = Renamed(Token4[x], "token", st)
      BY <2>14 DEF Token4
    <2>16. \A u \in DOMAIN s : IsTable(r[u])
      BY <2>2, <2>3, <2>5, <2>6, <2>8, <2>9, <2>10, <2>12, <2>13, <2>15
    <2>17. \A u \in DOMAIN s \ {"client"} :
             /\ DOMAIN r[u] = DOMAIN s[u]
             /\ \A x \in DOMAIN s[u] : r[u][x] = Renamed(s[u][x], u, st)
      BY <2>2, <2>3, <2>5, <2>6, <2>8, <2>9, <2>10, <2>12, <2>13, <2>15
    <2>18. Does(s, Rename("client", "UQ_7510ce", "UQ_6ed906"), r)
      BY <2>2, <2>3, <2>5, <2>6, <2>8, <2>9, <2>10, <2>12, <2>13, <2>15, <2>16, <2>17,
          Renames DEF st
    <2> QED
      BY <2>18 DEF s, r
  <1> QED
    BY <1>1, <1>2

\* 6. The client id, its key and the key that follows.
LEMMA ClientIdRenamedRuns == Leads(Level5, ClientIdRenamed.up, Level6)
  <1>1. Does(Level5, Rename("client", "clientId", "client_id"), Core(User4, ClientRenamed,
            Grant6, Token4))
    BY ClientNameChanges DEF Level5
  <1>2. Does(Core(User4, ClientRenamed, Grant6, Token4), Rename("client", "UQ_6ed906",
            "UQ_7510ce"), Level6)
    BY KeyNameChanges DEF Level6
  <1> QED
    BY <1>1, <1>2, Path2 DEF ClientIdRenamed

LEMMA ClientIdRenamedReverts == Leads(Level6, ClientIdRenamed.down, Level5)
  <1>1. Does(Level6, Rename("client", "UQ_7510ce", "UQ_6ed906"), Core(User4, ClientRenamed,
            Grant6, Token4))
    BY KeyNameChanges DEF Level6
  <1>2. Does(Core(User4, ClientRenamed, Grant6, Token4), Rename("client", "client_id",
            "clientId"), Level5)
    BY ClientNameChanges DEF Level5
  <1> QED
    BY <1>1, <1>2, Path2 DEF ClientIdRenamed

\* 7. The jti.
LEMMA JtiRuns == Leads(Level6, Jti.up, Level7)
  <1> DEFINE At(t) == Core(User4, Client6, Grant6, t)
  <1>1. \A t :
           /\ DOMAIN At(t) = {"user", "client", "user_client_consent", "token"}
           /\ At(t)["token"] = t
           /\ \A r : Put(At(t), "token", r) = At(r)
    BY DEF Put, Core
  <1>2. At(Token4) = Level6
    BY DEF Level6
  <1>t1. PICK t1 : Plus(t1, Token4, "jti", Req("uuid"))
    BY Edits
  <1>t2. PICK t2 : Plus(t2, t1, "UQ_7e0bb4", Unique("jti"))
    BY Edits
  <1>3. t2 = Token7
    <2>1. IsTable(t2) /\ IsTable(Token7)
      BY <1>t2 DEF Minus, Plus, IsTable, Token7
    <2>2. DOMAIN t2 = DOMAIN Token7
      BY <1>t1, <1>t2 DEF Minus, Plus, Token4, Token7
    <2>3. \A x \in DOMAIN t2 : t2[x] = Token7[x]
      BY <1>t1, <1>t2, <2>2 DEF Minus, Plus, Token4, Token7
    <2> QED
      BY <2>1, <2>2, <2>3, SameTable
  <1>4. At(t2) = Level7
    BY <1>3 DEF Level7
  <1> HIDE DEF At
  <1>5. Does(At(Token4), AddIf("token", "jti", Req("uuid")), At(t1))
    <2>1. "jti" \notin DOMAIN Token4
      BY DEF Token4
    <2> QED
      BY <1>1, <1>t1, <2>1, AddsColumn, Kinds DEF Plus
  <1>6. Does(At(t1), AddIf("token", "UQ_7e0bb4", Unique("jti")), At(t2))
    <2>1. /\ "UQ_7e0bb4" \notin DOMAIN t1
          /\ "jti" \in DOMAIN t1
      BY <1>t1 DEF Minus, Plus, Token4
    <2> QED
      BY <1>1, <1>t2, <2>1, AddsUnique DEF Plus
  <1> QED
    BY <1>2, <1>4, <1>5, <1>6, Path2 DEF Jti

LEMMA JtiReverts == Leads(Level7, Jti.down, Level6)
  <1> DEFINE At(t) == Core(User4, Client6, Grant6, t)
  <1>1. \A t :
           /\ DOMAIN At(t) = {"user", "client", "user_client_consent", "token"}
           /\ At(t)["user"] = User4
           /\ At(t)["client"] = Client6
           /\ At(t)["user_client_consent"] = Grant6
           /\ At(t)["token"] = t
           /\ \A r : Put(At(t), "token", r) = At(r)
    BY DEF Put, Core
  <1>2. At(Token7) = Level7
    BY DEF Level7
  <1>t1. PICK t1 : Minus(t1, Token7, "UQ_7e0bb4")
    BY Edits
  <1>t2. PICK t2 : Minus(t2, t1, "jti")
    BY Edits
  <1>3. t2 = Token4
    <2>1. IsTable(t2) /\ IsTable(Token4)
      BY <1>t2 DEF Minus, Plus, IsTable, Token4
    <2>2. DOMAIN t2 = DOMAIN Token4
      BY <1>t1, <1>t2 DEF Minus, Plus, Token7, Token4
    <2>3. \A x \in DOMAIN t2 : t2[x] = Token4[x]
      BY <1>t1, <1>t2, <2>2 DEF Minus, Plus, Token7, Token4
    <2> QED
      BY <2>1, <2>2, <2>3, SameTable
  <1>4. At(t2) = Level6
    BY <1>3 DEF Level6
  <1> HIDE DEF At
  <1>5. Does(At(Token7), Drop("token", "UQ_7e0bb4"), At(t1))
    <2>1. /\ "UQ_7e0bb4" \in DOMAIN Token7
          /\ Token7["UQ_7e0bb4"] = Unique("jti")
      BY DEF Token7
    <2>2. \A m \in DOMAIN User4 :
            User4[m].kind = "fk" => ~ (User4[m].table = "token" /\ User4[m].ref = "jti")
      BY DEF User4, Def, Req, Column, Unique
    <2>3. \A m \in DOMAIN Client6 :
            Client6[m].kind = "fk" => ~ (Client6[m].table = "token" /\ Client6[m].ref = "jti")
      BY DEF Client6, Def, Opt, Req, Column, Unique
    <2>4. \A m \in DOMAIN Grant6 :
            Grant6[m].kind = "fk" => ~ (Grant6[m].table = "token" /\ Grant6[m].ref = "jti")
      BY DEF Grant6, Def, Opt, Req, Column, Cascade, References
    <2>5. \A m \in DOMAIN Token7 :
            Token7[m].kind = "fk" => ~ (Token7[m].table = "token" /\ Token7[m].ref = "jti")
      BY DEF Token7, Def, Opt, Req, Column, Cascade, References, Unique
    <2>6. ~ PointsAt(At(Token7), "token", "jti")
      BY <1>1, <2>2, <2>3, <2>4, <2>5 DEF PointsAt
    <2> QED
      BY <1>1, <1>t1, <2>1, <2>6, DropsUnique DEF Minus
  <1>6. Does(At(t1), Drop("token", "jti"), At(t2))
    <2>1. /\ "jti" \in DOMAIN t1
          /\ t1["jti"].kind = "column"
      BY <1>t1, Kinds DEF Minus, Plus, Token7
    <2>2. \A m \in DOMAIN t1 : t1[m].kind # "column" => t1[m].on # "jti"
      BY <1>t1, Kinds DEF Minus, Plus, Token7
    <2> QED
      BY <1>1, <1>t2, <2>1, <2>2, DropsColumn DEF Minus
  <1> QED
    BY <1>2, <1>4, <1>5, <1>6, Path2 DEF Jti

\* 8. The creation time of users.
LEMMA UserCreatedAtRuns == Leads(Level7, UserCreatedAt.up, Level8)
  <1> DEFINE At(u) == Core(u, Client6, Grant6, Token7)
  <1>1. \A u :
           /\ DOMAIN At(u) = {"user", "client", "user_client_consent", "token"}
           /\ At(u)["user"] = u
           /\ \A r : Put(At(u), "user", r) = At(r)
    BY DEF Put, Core
  <1>2. At(User4) = Level7
    BY DEF Level7
  <1>u1. PICK u1 : Minus(u1, User4, "createdAt")
    BY Edits
  <1>u2. PICK u2 : Plus(u2, u1, "createdAt", Def("timestamptz"))
    BY Edits
  <1>3. u2 = User8
    <2>1. IsTable(u2) /\ IsTable(User8)
      BY <1>u2 DEF Minus, Plus, IsTable, User8
    <2>2. DOMAIN u2 = DOMAIN User8
      BY <1>u1, <1>u2 DEF Minus, Plus, User4, User8
    <2>3. \A x \in DOMAIN u2 : u2[x] = User8[x]
      BY <1>u1, <1>u2, <2>2 DEF Minus, Plus, User4, User8
    <2> QED
      BY <2>1, <2>2, <2>3, SameTable
  <1>4. At(u2) = Level8
    BY <1>3 DEF Level8
  <1> HIDE DEF At
  <1>5. Does(At(User4), Drop("user", "createdAt"), At(u1))
    <2>1. /\ "createdAt" \in DOMAIN User4
          /\ User4["createdAt"].kind = "column"
      BY DEF User4, Def, Req, Column, Unique
    <2>2. \A m \in DOMAIN User4 : User4[m].kind # "column" => User4[m].on # "createdAt"
      BY DEF User4, Def, Req, Column, Unique
    <2> QED
      BY <1>1, <1>u1, <2>1, <2>2, DropsColumn DEF Minus
  <1>6. Does(At(u1), Add("user", "createdAt", Def("timestamptz")), At(u2))
    <2>1. "createdAt" \notin DOMAIN u1
      BY <1>u1 DEF Minus, Plus, User4
    <2> QED
      BY <1>1, <1>u2, <2>1, AddsColumn, Kinds DEF Plus
  <1> QED
    BY <1>2, <1>4, <1>5, <1>6, Path2 DEF UserCreatedAt, Rekey

LEMMA UserCreatedAtReverts == Leads(Level8, UserCreatedAt.down, Level7)
  <1> DEFINE At(u) == Core(u, Client6, Grant6, Token7)
  <1>1. \A u :
           /\ DOMAIN At(u) = {"user", "client", "user_client_consent", "token"}
           /\ At(u)["user"] = u
           /\ \A r : Put(At(u), "user", r) = At(r)
    BY DEF Put, Core
  <1>2. At(User8) = Level8
    BY DEF Level8
  <1>u1. PICK u1 : Minus(u1, User8, "createdAt")
    BY Edits
  <1>u2. PICK u2 : Plus(u2, u1, "createdAt", Def("timetz"))
    BY Edits
  <1>3. u2 = User4
    <2>1. IsTable(u2) /\ IsTable(User4)
      BY <1>u2 DEF Minus, Plus, IsTable, User4
    <2>2. DOMAIN u2 = DOMAIN User4
      BY <1>u1, <1>u2 DEF Minus, Plus, User8, User4
    <2>3. \A x \in DOMAIN u2 : u2[x] = User4[x]
      BY <1>u1, <1>u2, <2>2 DEF Minus, Plus, User8, User4
    <2> QED
      BY <2>1, <2>2, <2>3, SameTable
  <1>4. At(u2) = Level7
    BY <1>3 DEF Level7
  <1> HIDE DEF At
  <1>5. Does(At(User8), Drop("user", "createdAt"), At(u1))
    <2>1. /\ "createdAt" \in DOMAIN User8
          /\ User8["createdAt"].kind = "column"
      BY DEF User8, Def, Req, Column, Unique
    <2>2. \A m \in DOMAIN User8 : User8[m].kind # "column" => User8[m].on # "createdAt"
      BY DEF User8, Def, Req, Column, Unique
    <2> QED
      BY <1>1, <1>u1, <2>1, <2>2, DropsColumn DEF Minus
  <1>6. Does(At(u1), Add("user", "createdAt", Def("timetz")), At(u2))
    <2>1. "createdAt" \notin DOMAIN u1
      BY <1>u1 DEF Minus, Plus, User8
    <2> QED
      BY <1>1, <1>u2, <2>1, AddsColumn, Kinds DEF Plus
  <1> QED
    BY <1>2, <1>4, <1>5, <1>6, Path2 DEF UserCreatedAt, Rekey

\* 9. Names of clients are unique.
LEMMA ClientNameUniqueRuns == Leads(Level8, ClientNameUnique.up, Level9)
  <1> DEFINE At(c) == Core(User8, c, Grant6, Token7)
  <1>1. \A c :
           /\ DOMAIN At(c) = {"user", "client", "user_client_consent", "token"}
           /\ At(c)["client"] = c
           /\ \A r : Put(At(c), "client", r) = At(r)
    BY DEF Put, Core
  <1>2. At(Client6) = Level8
    BY DEF Level8
  <1>c1. PICK c1 : Plus(c1, Client6, "UQ_480f88", Unique("name"))
    BY Edits
  <1>3. c1 = Client9
    <2>1. IsTable(c1) /\ IsTable(Client9)
      BY <1>c1 DEF Minus, Plus, IsTable, Client9
    <2>2. DOMAIN c1 = DOMAIN Client9
      BY <1>c1 DEF Minus, Plus, Client6, Client9
    <2>3. \A x \in DOMAIN c1 : c1[x] = Client9[x]
      BY <1>c1, <2>2 DEF Minus, Plus, Client6, Client9
    <2> QED
      BY <2>1, <2>2, <2>3, SameTable
  <1>4. At(c1) = Level9
    BY <1>3 DEF Level9
  <1> HIDE DEF At
  <1>5. Does(At(Client6), Add("client", "UQ_480f88", Unique("name")), At(c1))
    <2>1. /\ "UQ_480f88" \notin DOMAIN Client6
          /\ "name" \in DOMAIN Client6
      BY DEF Client6
    <2> QED
      BY <1>1, <1>c1, <2>1, AddsUnique DEF Plus
  <1> QED
    BY <1>2, <1>4, <1>5, Path1 DEF ClientNameUnique

LEMMA ClientNameUniqueReverts == Leads(Level9, ClientNameUnique.down, Level8)
  <1> DEFINE At(c) == Core(User8, c, Grant6, Token7)
  <1>1. \A c :
           /\ DOMAIN At(c) = {"user", "client", "user_client_consent", "token"}
           /\ At(c)["user"] = User8
           /\ At(c)["client"] = c
           /\ At(c)["user_client_consent"] = Grant6
           /\ At(c)["token"] = Token7
           /\ \A r : Put(At(c), "client", r) = At(r)
    BY DEF Put, Core
  <1>2. At(Client9) = Level9
    BY DEF Level9
  <1>c1. PICK c1 : Minus(c1, Client9, "UQ_480f88")
    BY Edits
  <1>3. c1 = Client6
    <2>1. IsTable(c1) /\ IsTable(Client6)
      BY <1>c1 DEF Minus, Plus, IsTable, Client6
    <2>2. DOMAIN c1 = DOMAIN Client6
      BY <1>c1 DEF Minus, Plus, Client9, Client6
    <2>3. \A x \in DOMAIN c1 : c1[x] = Client6[x]
      BY <1>c1, <2>2 DEF Minus, Plus, Client9, Client6
    <2> QED
      BY <2>1, <2>2, <2>3, SameTable
  <1>4. At(c1) = Level8
    BY <1>3 DEF Level8
  <1> HIDE DEF At
  <1>5. Does(At(Client9), Drop("client", "UQ_480f88"), At(c1))
    <2>1. /\ "UQ_480f88" \in DOMAIN Client9
          /\ Client9["UQ_480f88"] = Unique("name")
      BY DEF Client9
    <2>2. \A m \in DOMAIN User8 :
            User8[m].kind = "fk" => ~ (User8[m].table = "client" /\ User8[m].ref = "name")
      BY DEF User8, Def, Req, Column, Unique
    <2>3. \A m \in DOMAIN Client9 :
            Client9[m].kind = "fk" => ~ (Client9[m].table = "client" /\ Client9[m].ref = "name")
      BY DEF Client9, Def, Opt, Req, Column, Unique
    <2>4. \A m \in DOMAIN Grant6 :
            Grant6[m].kind = "fk" => ~ (Grant6[m].table = "client" /\ Grant6[m].ref = "name")
      BY DEF Grant6, Def, Opt, Req, Column, Cascade, References
    <2>5. \A m \in DOMAIN Token7 :
            Token7[m].kind = "fk" => ~ (Token7[m].table = "client" /\ Token7[m].ref = "name")
      BY DEF Token7, Def, Opt, Req, Column, Cascade, References, Unique
    <2>6. ~ PointsAt(At(Client9), "client", "name")
      BY <1>1, <2>2, <2>3, <2>4, <2>5 DEF PointsAt
    <2> QED
      BY <1>1, <1>c1, <2>1, <2>6, DropsUnique DEF Minus
  <1> QED
    BY <1>2, <1>4, <1>5, Path1 DEF ClientNameUnique

\* 10. A new table of consents, which the tokens refer to; the old one stays.
LEMMA ConsentTableRuns == Leads(Level9, ConsentTable.up, Level10)
  <1> DEFINE At1(t) == Core(User8, Client9, Grant6, t)
  <1>        At2(n, t) == Consented(User8, Client9, Grant6, n, t)
  <1>1. \A t :
           /\ DOMAIN At1(t) = {"user", "client", "user_client_consent", "token"}
           /\ At1(t)["token"] = t
           /\ \A r : Put(At1(t), "token", r) = At1(r)
    BY DEF Put, Core
  <1>2. \A n, t :
           /\ DOMAIN At2(n, t) = {"user", "client", "user_client_consent", "consent", "token"}
           /\ At2(n, t)["user"] = User8
           /\ At2(n, t)["client"] = Client9
           /\ At2(n, t)["consent"] = n
           /\ At2(n, t)["token"] = t
           /\ \A r : Put(At2(n, t), "consent", r) = At2(r, t)
           /\ \A r : Put(At2(n, t), "token", r) = At2(n, r)
    BY DEF Put, Consented
  <1>3. \A n, t : With(At1(t), "consent", n) = At2(n, t)
    BY DEF With, Core, Consented
  <1>4. At1(Token7) = Level9
    BY DEF Level9
  <1>t1. PICK t1 : Minus(t1, Token7, "FK_05a103")
    BY Edits
  <1>n1. PICK n1 : Plus(n1, NewConsent, "FK_a5cfa7", Cascade("user_id", "user"))
    BY Edits
  <1>n2. PICK n2 : Plus(n2, n1, "FK_0e984f", References("client_id", "client", "client_id",
             "cascade"))
    BY Edits
  <1>t2. PICK t2 : Plus(t2, t1, "FK_05a103", Cascade("consent_id", "consent"))
    BY Edits
  <1>5. n2 = Consent10
    <2>1. IsTable(n2) /\ IsTable(Consent10)
      BY <1>n2 DEF Minus, Plus, IsTable, Consent10
    <2>2. DOMAIN n2 = DOMAIN Consent10
      BY <1>n1, <1>n2 DEF Minus, Plus, NewConsent, Consent10
    <2>3. \A x \in DOMAIN n2 : n2[x] = Consent10[x]
      BY <1>n1, <1>n2, <2>2 DEF Minus, Plus, NewConsent, Consent10
    <2> QED
      BY <2>1, <2>2, <2>3, SameTable
  <1>6. t2 = Token10
    <2>1. IsTable(t2) /\ IsTable(Token10)
      BY <1>t2 DEF Minus, Plus, IsTable, Token10
    <2>2. DOMAIN t2 = DOMAIN Token10
      BY <1>t1, <1>t2 DEF Minus, Plus, Token7, Token10
    <2>3. \A x \in DOMAIN t2 : t2[x] = Token10[x]
      BY <1>t1, <1>t2, <2>2 DEF Minus, Plus, Token7, Token10
    <2> QED
      BY <2>1, <2>2, <2>3, SameTable
  <1>7. At2(n2, t2) = Level10
    BY <1>5, <1>6 DEF Level10
  <1> HIDE DEF At1, At2
  <1>8. Does(At1(Token7), Drop("token", "FK_05a103"), At1(t1))
    <2>1. /\ "FK_05a103" \in DOMAIN Token7
          /\ Token7["FK_05a103"].kind = "fk"
      BY DEF Token7, Def, Opt, Req, Column, Cascade, References, Unique
    <2> QED
      BY <1>1, <1>t1, <2>1, DropsKey DEF Minus
  <1>9. Does(At1(t1), Create("consent", NewConsent), At2(NewConsent, t1))
    <2>1. "consent" \notin DOMAIN At1(t1)
      BY <1>1
    <2> QED
      BY <1>1, <2>1, <1>3, Creates
  <1>10. Does(At2(NewConsent, t1), Add("consent", "FK_a5cfa7", Cascade("user_id", "user")),
             At2(n1, t1))
    <2>1. /\ "FK_a5cfa7" \notin DOMAIN NewConsent
          /\ "user_id" \in DOMAIN NewConsent
          /\ NewConsent["user_id"].ty = "uuid"
      BY DEF NewConsent, Def, Opt, Req, Column
    <2>2. /\ "id" \in DOMAIN User8
          /\ User8["id"].ty = "uuid"
      BY DEF User8, Def, Req, Column, Unique
    <2> QED
      BY <1>2, <1>n1, <2>1, <2>2, AddsCascade DEF Plus
  <1>11. Does(At2(n1, t1), Add("consent", "FK_0e984f", References("client_id", "client",
             "client_id", "cascade")),
             At2(n2, t1))
    <2>1. /\ "FK_0e984f" \notin DOMAIN n1
          /\ "client_id" \in DOMAIN n1
          /\ n1["client_id"].ty = "varchar"
      BY <1>n1, Types DEF Minus, Plus, NewConsent
    <2>2. /\ "client_id" \in DOMAIN Client9
          /\ Client9["client_id"].ty = "varchar"
      BY DEF Client9, Def, Opt, Req, Column, Unique
    <2>3. /\ "UQ_7510ce" \in DOMAIN Client9
          /\ Client9["UQ_7510ce"] = Unique("client_id")
      BY DEF Client9
    <2> QED
      BY <1>2, <1>n2, <2>1, <2>2, <2>3, AddsKey DEF Plus, IsUnique
  <1>12. Does(At2(n2, t1), Add("token", "FK_05a103", Cascade("consent_id", "consent")),
             At2(n2, t2))
    <2>1. /\ "FK_05a103" \notin DOMAIN t1
          /\ "consent_id" \in DOMAIN t1
          /\ t1["consent_id"].ty = "uuid"
      BY <1>t1, Types DEF Minus, Plus, Token7
    <2>2. /\ "id" \in DOMAIN n2
          /\ n2["id"].ty = "uuid"
      BY <1>n1, <1>n2, Types DEF Minus, Plus, NewConsent
    <2> QED
      BY <1>2, <1>t2, <2>1, <2>2, AddsCascade DEF Plus
  <1> QED
    BY <1>4, <1>7, <1>8, <1>9, <1>10, <1>11, <1>12, Path5 DEF ConsentTable, NewConsent

LEMMA ConsentTableReverts == Leads(Level10, ConsentTable.down, Level9)
  <1> DEFINE At1(n, t) == Consented(User8, Client9, Grant6, n, t)
  <1>        At2(t) == Core(User8, Client9, Grant6, t)
  <1>1. \A n, t :
           /\ DOMAIN At1(n, t) = {"user", "client", "user_client_consent", "consent", "token"}
           /\ At1(n, t)["user"] = User8
           /\ At1(n, t)["client"] = Client9
           /\ At1(n, t)["user_client_consent"] = Grant6
           /\ At1(n, t)["consent"] = n
           /\ At1(n, t)["token"] = t
           /\ \A r : Put(At1(n, t), "consent", r) = At1(r, t)
           /\ \A r : Put(At1(n, t), "token", r) = At1(n, r)
    BY DEF Put, Consented
  <1>2. \A t :
           /\ DOMAIN At2(t) = {"user", "client", "user_client_consent", "token"}
           /\ At2(t)["user_client_consent"] = Grant6
           /\ At2(t)["token"] = t
           /\ \A r : Put(At2(t), "token", r) = At2(r)
    BY DEF Put, Core
  <1>3. \A n, t : Without(At1(n, t), "consent") = At2(t)
    BY DEF Without, Consented, Core
  <1>4. At1(Consent10, Token10) = Level10
    BY DEF Level10
  <1>t1. PICK t1 : Minus(t1, Token10, "FK_05a103")
    BY Edits
  <1>n1. PICK n1 : Minus(n1, Consent10, "FK_0e984f")
    BY Edits
  <1>n2. PICK n2 : Minus(n2, n1, "FK_a5cfa7")
    BY Edits
  <1>t2. PICK t2 : Plus(t2, t1, "FK_05a103", Cascade("consent_id", "user_client_consent"))
    BY Edits
  <1>5. t2 = Token7
    <2>1. IsTable(t2) /\ IsTable(Token7)
      BY <1>t2 DEF Minus, Plus, IsTable, Token7
    <2>2. DOMAIN t2 = DOMAIN Token7
      BY <1>t1, <1>t2 DEF Minus, Plus, Token10, Token7
    <2>3. \A x \in DOMAIN t2 : t2[x] = Token7[x]
      BY <1>t1, <1>t2, <2>2 DEF Minus, Plus, Token10, Token7
    <2> QED
      BY <2>1, <2>2, <2>3, SameTable
  <1>6. At2(t2) = Level9
    BY <1>5 DEF Level9
  <1> HIDE DEF At1, At2
  <1>7. Does(At1(Consent10, Token10), Drop("token", "FK_05a103"), At1(Consent10, t1))
    <2>1. /\ "FK_05a103" \in DOMAIN Token10
          /\ Token10["FK_05a103"].kind = "fk"
      BY DEF Token10, Def, Opt, Req, Column, Cascade, References, Unique
    <2> QED
      BY <1>1, <1>t1, <2>1, DropsKey DEF Minus
  <1>8. Does(At1(Consent10, t1), Drop("consent", "FK_0e984f"), At1(n1, t1))
    <2>1. /\ "FK_0e984f" \in DOMAIN Consent10
          /\ Consent10["FK_0e984f"].kind = "fk"
      BY DEF Consent10, Def, Opt, Req, Column, Cascade, References
    <2> QED
      BY <1>1, <1>n1, <2>1, DropsKey DEF Minus
  <1>9. Does(At1(n1, t1), Drop("consent", "FK_a5cfa7"), At1(n2, t1))
    <2>1. /\ "FK_a5cfa7" \in DOMAIN n1
          /\ n1["FK_a5cfa7"].kind = "fk"
      BY <1>n1, Kinds DEF Minus, Plus, Consent10
    <2> QED
      BY <1>1, <1>n2, <2>1, DropsKey DEF Minus
  <1>10. Does(At1(n2, t1), DropTable("consent"), At2(t1))
    <2>1. \A m \in DOMAIN User8 : User8[m].kind = "fk" => User8[m].table # "consent"
      BY DEF User8, Def, Req, Column, Unique
    <2>2. \A m \in DOMAIN Client9 : Client9[m].kind = "fk" => Client9[m].table # "consent"
      BY DEF Client9, Def, Opt, Req, Column, Unique
    <2>3. \A m \in DOMAIN Grant6 : Grant6[m].kind = "fk" => Grant6[m].table # "consent"
      BY DEF Grant6, Def, Opt, Req, Column, Cascade, References
    <2>4. \A m \in DOMAIN t1 : t1[m].kind = "fk" => t1[m].table # "consent"
      BY <1>t1, Kinds DEF Minus, Plus, Token10
    <2>5. MayDropTable(At1(n2, t1), "consent")
      BY <1>1, <2>1, <2>2, <2>3, <2>4 DEF MayDropTable
    <2> QED
      BY <1>1, <2>5, <1>3, DropsTable
  <1>11. Does(At2(t1), Add("token", "FK_05a103", Cascade("consent_id", "user_client_consent")),
             At2(t2))
    <2>1. /\ "FK_05a103" \notin DOMAIN t1
          /\ "consent_id" \in DOMAIN t1
          /\ t1["consent_id"].ty = "uuid"
      BY <1>t1, Types DEF Minus, Plus, Token10
    <2>2. /\ "id" \in DOMAIN Grant6
          /\ Grant6["id"].ty = "uuid"
      BY DEF Grant6, Def, Opt, Req, Column, Cascade, References
    <2> QED
      BY <1>2, <1>t2, <2>1, <2>2, AddsCascade DEF Plus
  <1> QED
    BY <1>4, <1>6, <1>7, <1>8, <1>9, <1>10, <1>11, Path5 DEF ConsentTable

\* 11. Token families.
LEMMA TokenFamilyRuns == Leads(Level10, TokenFamily.up, Level11)
  <1> DEFINE At(t) == Consented(User8, Client9, Grant6, Consent10, t)
  <1>1. \A t :
           /\ DOMAIN At(t) = {"user", "client", "user_client_consent", "consent", "token"}
           /\ At(t)["user"] = User8
           /\ At(t)["token"] = t
           /\ \A r : Put(At(t), "token", r) = At(r)
    BY DEF Put, Consented
  <1>2. At(Token10) = Level10
    BY DEF Level10
  <1>t1. PICK t1 : Minus(t1, Token10, "FK_94f168")
    BY Edits
  <1>t2. PICK t2 : Minus(t2, t1, "userId")
    BY Edits
  <1>t3. PICK t3 : Plus(t3, t2, "token_family_id", Req("uuid"))
    BY Edits
  <1>t4. PICK t4 : Plus(t4, t3, "user_id", Opt("uuid"))
    BY Edits
  <1>t5. PICK t5 : Plus(t5, t4, "FK_e50ca8", Cascade("user_id", "user"))
    BY Edits
  <1>3. t5 = Token11
    <2>1. IsTable(t5) /\ IsTable(Token11)
      BY <1>t5 DEF Minus, Plus, IsTable, Token11
    <2>2. DOMAIN t5 = DOMAIN Token11
      BY <1>t1, <1>t2, <1>t3, <1>t4, <1>t5 DEF Minus, Plus, Token10, Token11
    <2>3. \A x \in DOMAIN t5 : t5[x] = Token11[x]
      BY <1>t1, <1>t2, <1>t3, <1>t4, <1>t5, <2>2 DEF Minus, Plus, Token10, Token11
    <2> QED
      BY <2>1, <2>2, <2>3, SameTable
  <1>4. At(t5) = Level11
    BY <1>3 DEF Level11
  <1> HIDE DEF At
  <1>5. Does(At(Token10), Drop("token", "FK_94f168"), At(t1))
    <2>1. /\ "FK_94f168" \in DOMAIN Token10
          /\ Token10["FK_94f168"].kind = "fk"
      BY DEF Token10, Def, Opt, Req, Column, Cascade, References, Unique
    <2> QED
      BY <1>1, <1>t1, <2>1, DropsKey DEF Minus
  <1>6. Does(At(t1), Drop("token", "userId"), At(t2))
    <2>1. /\ "userId" \in DOMAIN t1
          /\ t1["userId"].kind = "column"
      BY <1>t1, Kinds DEF Minus, Plus, Token10
    <2>2. \A m \in DOMAIN t1 : t1[m].kind # "column" => t1[m].on # "userId"
      BY <1>t1, Kinds DEF Minus, Plus, Token10
    <2> QED
      BY <1>1, <1>t2, <2>1, <2>2, DropsColumn DEF Minus
  <1>7. Does(At(t2), Add("token", "token_family_id", Req("uuid")), At(t3))
    <2>1. "token_family_id" \notin DOMAIN t2
      BY <1>t1, <1>t2 DEF Minus, Plus, Token10
    <2> QED
      BY <1>1, <1>t3, <2>1, AddsColumn, Kinds DEF Plus
  <1>8. Does(At(t3), Add("token", "user_id", Opt("uuid")), At(t4))
    <2>1. "user_id" \notin DOMAIN t3
      BY <1>t1, <1>t2, <1>t3 DEF Minus, Plus, Token10
    <2> QED
      BY <1>1, <1>t4, <2>1, AddsColumn, Kinds DEF Plus
  <1>9. Does(At(t4), Add("token", "FK_e50ca8", Cascade("user_id", "user")), At(t5))
    <2>1. /\ "FK_e50ca8" \notin DOMAIN t4
          /\ "user_id" \in DOMAIN t4
          /\ t4["user_id"].ty = "uuid"
      BY <1>t1, <1>t2, <1>t3, <1>t4, Types DEF Minus, Plus, Token10
    <2>2. /\ "id" \in DOMAIN User8
          /\ User8["id"].ty = "uuid"
      BY DEF User8, Def, Req, Column, Unique
    <2> QED
      BY <1>1, <1>t5, <2>1, <2>2, AddsCascade DEF Plus
  <1> QED
    BY <1>2, <1>4, <1>5, <1>6, <1>7, <1>8, <1>9, Path5 DEF TokenFamily

LEMMA TokenFamilyReverts == Leads(Level11, TokenFamily.down, Level10)
  <1> DEFINE At(t) == Consented(User8, Client9, Grant6, Consent10, t)
  <1>1. \A t :
           /\ DOMAIN At(t) = {"user", "client", "user_client_consent", "consent", "token"}
           /\ At(t)["user"] = User8
           /\ At(t)["token"] = t
           /\ \A r : Put(At(t), "token", r) = At(r)
    BY DEF Put, Consented
  <1>2. At(Token11) = Level11
    BY DEF Level11
  <1>t1. PICK t1 : Minus(t1, Token11, "FK_e50ca8")
    BY Edits
  <1>t2. PICK t2 : Minus(t2, t1, "user_id")
    BY Edits
  <1>t3. PICK t3 : Minus(t3, t2, "token_family_id")
    BY Edits
  <1>t4. PICK t4 : Plus(t4, t3, "userId", Opt("uuid"))
    BY Edits
  <1>t5. PICK t5 : Plus(t5, t4, "FK_94f168", Cascade("userId", "user"))
    BY Edits
  <1>3. t5 = Token10
    <2>1. IsTable(t5) /\ IsTable(Token10)
      BY <1>t5 DEF Minus, Plus, IsTable, Token10
    <2>2. DOMAIN t5 = DOMAIN Token10
      BY <1>t1, <1>t2, <1>t3, <1>t4, <1>t5 DEF Minus, Plus, Token11, Token10
    <2>3. \A x \in DOMAIN t5 : t5[x] = Token10[x]
      BY <1>t1, <1>t2, <1>t3, <1>t4, <1>t5, <2>2 DEF Minus, Plus, Token11, Token10
    <2> QED
      BY <2>1, <2>2, <2>3, SameTable
  <1>4. At(t5) = Level10
    BY <1>3 DEF Level10
  <1> HIDE DEF At
  <1>5. Does(At(Token11), Drop("token", "FK_e50ca8"), At(t1))
    <2>1. /\ "FK_e50ca8" \in DOMAIN Token11
          /\ Token11["FK_e50ca8"].kind = "fk"
      BY DEF Token11, Def, Opt, Req, Column, Cascade, References, Unique
    <2> QED
      BY <1>1, <1>t1, <2>1, DropsKey DEF Minus
  <1>6. Does(At(t1), Drop("token", "user_id"), At(t2))
    <2>1. /\ "user_id" \in DOMAIN t1
          /\ t1["user_id"].kind = "column"
      BY <1>t1, Kinds DEF Minus, Plus, Token11
    <2>2. \A m \in DOMAIN t1 : t1[m].kind # "column" => t1[m].on # "user_id"
      BY <1>t1, Kinds DEF Minus, Plus, Token11
    <2> QED
      BY <1>1, <1>t2, <2>1, <2>2, DropsColumn DEF Minus
  <1>7. Does(At(t2), Drop("token", "token_family_id"), At(t3))
    <2>1. /\ "token_family_id" \in DOMAIN t2
          /\ t2["token_family_id"].kind = "column"
      BY <1>t1, <1>t2, Kinds DEF Minus, Plus, Token11
    <2>2. \A m \in DOMAIN t2 : t2[m].kind # "column" => t2[m].on # "token_family_id"
      BY <1>t1, <1>t2, Kinds DEF Minus, Plus, Token11
    <2> QED
      BY <1>1, <1>t3, <2>1, <2>2, DropsColumn DEF Minus
  <1>8. Does(At(t3), Add("token", "userId", Opt("uuid")), At(t4))
    <2>1. "userId" \notin DOMAIN t3
      BY <1>t1, <1>t2, <1>t3 DEF Minus, Plus, Token11
    <2> QED
      BY <1>1, <1>t4, <2>1, AddsColumn, Kinds DEF Plus
  <1>9. Does(At(t4), Add("token", "FK_94f168", Cascade("userId", "user")), At(t5))
    <2>1. /\ "FK_94f168" \notin DOMAIN t4
          /\ "userId" \in DOMAIN t4
          /\ t4["userId"].ty = "uuid"
      BY <1>t1, <1>t2, <1>t3, <1>t4, Types DEF Minus, Plus, Token11
    <2>2. /\ "id" \in DOMAIN User8
          /\ User8["id"].ty = "uuid"
      BY DEF User8, Def, Req, Column, Unique
    <2> QED
      BY <1>1, <1>t5, <2>1, <2>2, AddsCascade DEF Plus
  <1> QED
    BY <1>2, <1>4, <1>5, <1>6, <1>7, <1>8, <1>9, Path5 DEF TokenFamily

LEMMA TokenFamilyRevertsKeyed == Leads(Level11Keyed, TokenFamily.down, Level10)
  <1> DEFINE At(t) == Consented(User8, Client9, Grant6, Consent10, t)
  <1>1. \A t :
           /\ DOMAIN At(t) = {"user", "client", "user_client_consent", "consent", "token"}
           /\ At(t)["user"] = User8
           /\ At(t)["token"] = t
           /\ \A r : Put(At(t), "token", r) = At(r)
    BY DEF Put, Consented
  <1>2. At(TokenKeyed11) = Level11Keyed
    BY DEF Level11Keyed
  <1>t1. PICK t1 : Minus(t1, TokenKeyed11, "FK_e50ca8")
    BY Edits
  <1>t2. PICK t2 : Minus(t2, t1, "user_id")
    BY Edits
  <1>t3. PICK t3 : Minus(t3, t2, "token_family_id")
    BY Edits
  <1>t4. PICK t4 : Minus(t4, t3, "UQ_eb1888")
    BY Edits
  <1>t5. PICK t5 : Plus(t5, t4, "userId", Opt("uuid"))
    BY Edits
  <1>t6. PICK t6 : Plus(t6, t5, "FK_94f168", Cascade("userId", "user"))
    BY Edits
  <1>3. t6 = Token10
    <2>1. IsTable(t6) /\ IsTable(Token10)
      BY <1>t6 DEF Minus, Plus, IsTable, Token10
    <2>2. DOMAIN t6 = DOMAIN Token10
      BY <1>t1, <1>t2, <1>t3, <1>t4, <1>t5, <1>t6 DEF Minus, Plus, TokenKeyed11, Token10
    <2>3. \A x \in DOMAIN t6 : t6[x] = Token10[x]
      BY <1>t1, <1>t2, <1>t3, <1>t4, <1>t5, <1>t6, <2>2 DEF Minus, Plus, TokenKeyed11, Token10
    <2> QED
      BY <2>1, <2>2, <2>3, SameTable
  <1>4. At(t6) = Level10
    BY <1>3 DEF Level10
  <1> HIDE DEF At
  <1>5. Does(At(TokenKeyed11), Drop("token", "FK_e50ca8"), At(t1))
    <2>1. /\ "FK_e50ca8" \in DOMAIN TokenKeyed11
          /\ TokenKeyed11["FK_e50ca8"].kind = "fk"
      BY DEF TokenKeyed11, Def, Opt, Req, Column, Cascade, References, Unique
    <2> QED
      BY <1>1, <1>t1, <2>1, DropsKey DEF Minus
  <1>6. Does(At(t1), Drop("token", "user_id"), At(t2))
    <2>1. /\ "user_id" \in DOMAIN t1
          /\ t1["user_id"].kind = "column"
      BY <1>t1, Kinds DEF Minus, Plus, TokenKeyed11
    <2>2. \A m \in DOMAIN t1 : t1[m].kind # "column" => t1[m].on # "user_id"
      BY <1>t1, Kinds DEF Minus, Plus, TokenKeyed11
    <2> QED
      BY <1>1, <1>t2, <2>1, <2>2, DropsColumn DEF Minus
  <1>7. Does(At(t2), Drop("token", "token_family_id"), At(t4))
    <2>1. /\ "token_family_id" \in DOMAIN t2
          /\ t2["token_family_id"].kind = "column"
      BY <1>t1, <1>t2, Kinds DEF Minus, Plus, TokenKeyed11
    <2>2. /\ "UQ_eb1888" \in DOMAIN t2
          /\ t2["UQ_eb1888"] = Unique("token_family_id")
      BY <1>t1, <1>t2 DEF Minus, Plus, TokenKeyed11
    <2>3. \A m \in DOMAIN t2 \ {"UQ_eb1888"} : t2[m].kind # "column" => t2[m].on # "token_family_id"
      BY <1>t1, <1>t2, Kinds DEF Minus, Plus, TokenKeyed11
    <2> QED
      BY <1>1, <1>t3, <1>t4, <2>1, <2>2, <2>3, DropsWith DEF Minus
  <1>8. Does(At(t4), Add("token", "userId", Opt("uuid")), At(t5))
    <2>1. "userId" \notin DOMAIN t4
      BY <1>t1, <1>t2, <1>t3, <1>t4 DEF Minus, Plus, TokenKeyed11
    <2> QED
      BY <1>1, <1>t5, <2>1, AddsColumn, Kinds DEF Plus
  <1>9. Does(At(t5), Add("token", "FK_94f168", Cascade("userId", "user")), At(t6))
    <2>1. /\ "FK_94f168" \notin DOMAIN t5
          /\ "userId" \in DOMAIN t5
          /\ t5["userId"].ty = "uuid"
      BY <1>t1, <1>t2, <1>t3, <1>t4, <1>t5, Types DEF Minus, Plus, TokenKeyed11
    <2>2. /\ "id" \in DOMAIN User8
          /\ User8["id"].ty = "uuid"
      BY DEF User8, Def, Req, Column, Unique
    <2> QED
      BY <1>1, <1>t6, <2>1, <2>2, AddsCascade DEF Plus
  <1> QED
    BY <1>2, <1>4, <1>5, <1>6, <1>7, <1>8, <1>9, Path5 DEF TokenFamily

\* 12. The table of sessions.
LEMMA SessionTableRuns == Leads(Level11, SessionTable.up, Level12)
  <1> DEFINE At1(t) == Consented(User8, Client9, Grant6, Consent10, t)
  <1>        At2(t, s) == Sessioned(User8, Client9, Grant6, Consent10, t, s)
  <1>1. \A t :
           DOMAIN At1(t) = {"user", "client", "user_client_consent", "consent", "token"}
    BY DEF Put, Consented
  <1>2. \A t, s :
           /\ DOMAIN At2(t, s) = {"user", "client", "user_client_consent", "consent", "token",
                              "sessions"}
           /\ At2(t, s)["user"] = User8
           /\ At2(t, s)["consent"] = Consent10
           /\ At2(t, s)["token"] = t
           /\ At2(t, s)["sessions"] = s
           /\ \A r : Put(At2(t, s), "token", r) = At2(r, s)
           /\ \A r : Put(At2(t, s), "sessions", r) = At2(t, r)
    BY DEF Put, Sessioned
  <1>3. \A t, s : With(At1(t), "sessions", s) = At2(t, s)
    BY DEF With, Consented, Sessioned
  <1>4. At1(Token11) = Level11
    BY DEF Level11
  <1>t1. PICK t1 : Minus(t1, Token11, "FK_e50ca8")
    BY Edits
  <1>t2. PICK t2 : Plus(t2, t1, "user_id", Req("uuid"))
    BY Edits
  <1>t3. PICK t3 : Plus(t3, t2, "FK_e50ca8", Cascade("user_id", "user"))
    BY Edits
  <1>s1. PICK s1 : Plus(s1, NewSessions, "FK_085d54", Cascade("user_id", "user"))
    BY Edits
  <1>s2. PICK s2 : Plus(s2, s1, "FK_3b579c", Cascade("consent_id", "consent"))
    BY Edits
  <1>5. t3 = Token12
    <2>1. IsTable(t3) /\ IsTable(Token12)
      BY <1>t3 DEF Minus, Plus, IsTable, Token12
    <2>2. DOMAIN t3 = DOMAIN Token12
      BY <1>t1, <1>t2, <1>t3 DEF Minus, Plus, Token11, Token12
    <2>3. \A x \in DOMAIN t3 : t3[x] = Token12[x]
      BY <1>t1, <1>t2, <1>t3, <2>2 DEF Minus, Plus, Token11, Token12
    <2> QED
      BY <2>1, <2>2, <2>3, SameTable
  <1>6. s2 = Sessions12
    <2>1. IsTable(s2) /\ IsTable(Sessions12)
      BY <1>s2 DEF Minus, Plus, IsTable, Sessions12
    <2>2. DOMAIN s2 = DOMAIN Sessions12
      BY <1>s1, <1>s2 DEF Minus, Plus, NewSessions, Sessions12
    <2>3. \A x \in DOMAIN s2 : s2[x] = Sessions12[x]
      BY <1>s1, <1>s2, <2>2 DEF Minus, Plus, NewSessions, Sessions12
    <2> QED
      BY <2>1, <2>2, <2>3, SameTable
  <1>7. At2(t3, s2) = Level12
    BY <1>5, <1>6 DEF Level12
  <1> HIDE DEF At1, At2
  <1>8. Does(At1(Token11), Create("sessions", NewSessions), At2(Token11, NewSessions))
    <2>1. "sessions" \notin DOMAIN At1(Token11)
      BY <1>1
    <2> QED
      BY <1>1, <2>1, <1>3, Creates
  <1>9. Does(At2(Token11, NewSessions), Drop("token", "FK_e50ca8"), At2(t1, NewSessions))
    <2>1. /\ "FK_e50ca8" \in DOMAIN Token11
          /\ Token11["FK_e50ca8"].kind = "fk"
      BY DEF Token11, Def, Opt, Req, Column, Cascade, References, Unique
    <2> QED
      BY <1>2, <1>t1, <2>1, DropsKey DEF Minus
  <1>10. Does(At2(t1, NewSessions), NotNull("token", "user_id"), At2(t2, NewSessions))
    <2>1. IsTable(t1)
      BY <1>t1 DEF IsTable, Minus, Plus, Token11
    <2>2. /\ "user_id" \in DOMAIN t1
          /\ t1["user_id"] = Req("uuid") \/ t1["user_id"] = Opt("uuid")
      BY <1>t1 DEF Minus, Plus, Token11
    <2> QED
      BY <1>2, <1>t2, <2>1, <2>2, Requires DEF Plus
  <1>11. Does(At2(t2, NewSessions), Add("token", "FK_e50ca8", Cascade("user_id", "user")),
             At2(t3, NewSessions))
    <2>1. /\ "FK_e50ca8" \notin DOMAIN t2
          /\ "user_id" \in DOMAIN t2
          /\ t2["user_id"].ty = "uuid"
      BY <1>t1, <1>t2, Types DEF Minus, Plus, Token11
    <2>2. /\ "id" \in DOMAIN User8
          /\ User8["id"].ty = "uuid"
      BY DEF User8, Def, Req, Column, Unique
    <2> QED
      BY <1>2, <1>t3, <2>1, <2>2, AddsCascade DEF Plus
  <1>12. Does(At2(t3, NewSessions), Add("sessions", "FK_085d54", Cascade("user_id", "user")),
             At2(t3, s1))
    <2>1. /\ "FK_085d54" \notin DOMAIN NewSessions
          /\ "user_id" \in DOMAIN NewSessions
          /\ NewSessions["user_id"].ty = "uuid"
      BY DEF NewSessions, Def, Opt, Req, Dated, Column
    <2>2. /\ "id" \in DOMAIN User8
          /\ User8["id"].ty = "uuid"
      BY DEF User8, Def, Req, Column, Unique
    <2> QED
      BY <1>2, <1>s1, <2>1, <2>2, AddsCascade DEF Plus
  <1>13. Does(At2(t3, s1), Add("sessions", "FK_3b579c", Cascade("consent_id", "consent")),
             At2(t3, s2))
    <2>1. /\ "FK_3b579c" \notin DOMAIN s1
          /\ "consent_id" \in DOMAIN s1
          /\ s1["consent_id"].ty = "uuid"
      BY <1>s1, Types DEF Minus, Plus, NewSessions
    <2>2. /\ "id" \in DOMAIN Consent10
          /\ Consent10["id"].ty = "uuid"
      BY DEF Consent10, Def, Opt, Req, Column, Cascade, References
    <2> QED
      BY <1>2, <1>s2, <2>1, <2>2, AddsCascade DEF Plus
  <1> QED
    BY <1>4, <1>7, <1>8, <1>9, <1>10, <1>11, <1>12, <1>13, Path6
       DEF SessionTable, NewSessions, Dated

LEMMA SessionTableRunsKeyed == Leads(Level11Keyed, SessionTable.up, Level12Keyed)
  <1> DEFINE At1(t) == Consented(User8, Client9, Grant6, Consent10, t)
  <1>        At2(t, s) == Sessioned(User8, Client9, Grant6, Consent10, t, s)
  <1>1. \A t :
           DOMAIN At1(t) = {"user", "client", "user_client_consent", "consent", "token"}
    BY DEF Put, Consented
  <1>2. \A t, s :
           /\ DOMAIN At2(t, s) = {"user", "client", "user_client_consent", "consent", "token",
                              "sessions"}
           /\ At2(t, s)["user"] = User8
           /\ At2(t, s)["consent"] = Consent10
           /\ At2(t, s)["token"] = t
           /\ At2(t, s)["sessions"] = s
           /\ \A r : Put(At2(t, s), "token", r) = At2(r, s)
           /\ \A r : Put(At2(t, s), "sessions", r) = At2(t, r)
    BY DEF Put, Sessioned
  <1>3. \A t, s : With(At1(t), "sessions", s) = At2(t, s)
    BY DEF With, Consented, Sessioned
  <1>4. At1(TokenKeyed11) = Level11Keyed
    BY DEF Level11Keyed
  <1>t1. PICK t1 : Minus(t1, TokenKeyed11, "FK_e50ca8")
    BY Edits
  <1>t2. PICK t2 : Plus(t2, t1, "user_id", Req("uuid"))
    BY Edits
  <1>t3. PICK t3 : Plus(t3, t2, "FK_e50ca8", Cascade("user_id", "user"))
    BY Edits
  <1>s1. PICK s1 : Plus(s1, NewSessions, "FK_085d54", Cascade("user_id", "user"))
    BY Edits
  <1>s2. PICK s2 : Plus(s2, s1, "FK_3b579c", Cascade("consent_id", "consent"))
    BY Edits
  <1>5. t3 = TokenKeyed12
    <2>1. IsTable(t3) /\ IsTable(TokenKeyed12)
      BY <1>t3 DEF Minus, Plus, IsTable, TokenKeyed12
    <2>2. DOMAIN t3 = DOMAIN TokenKeyed12
      BY <1>t1, <1>t2, <1>t3 DEF Minus, Plus, TokenKeyed11, TokenKeyed12
    <2>3. \A x \in DOMAIN t3 : t3[x] = TokenKeyed12[x]
      BY <1>t1, <1>t2, <1>t3, <2>2 DEF Minus, Plus, TokenKeyed11, TokenKeyed12
    <2> QED
      BY <2>1, <2>2, <2>3, SameTable
  <1>6. s2 = Sessions12
    <2>1. IsTable(s2) /\ IsTable(Sessions12)
      BY <1>s2 DEF Minus, Plus, IsTable, Sessions12
    <2>2. DOMAIN s2 = DOMAIN Sessions12
      BY <1>s1, <1>s2 DEF Minus, Plus, NewSessions, Sessions12
    <2>3. \A x \in DOMAIN s2 : s2[x] = Sessions12[x]
      BY <1>s1, <1>s2, <2>2 DEF Minus, Plus, NewSessions, Sessions12
    <2> QED
      BY <2>1, <2>2, <2>3, SameTable
  <1>7. At2(t3, s2) = Level12Keyed
    BY <1>5, <1>6 DEF Level12Keyed
  <1> HIDE DEF At1, At2
  <1>8. Does(At1(TokenKeyed11), Create("sessions", NewSessions), At2(TokenKeyed11, NewSessions))
    <2>1. "sessions" \notin DOMAIN At1(TokenKeyed11)
      BY <1>1
    <2> QED
      BY <1>1, <2>1, <1>3, Creates
  <1>9. Does(At2(TokenKeyed11, NewSessions), Drop("token", "FK_e50ca8"), At2(t1, NewSessions))
    <2>1. /\ "FK_e50ca8" \in DOMAIN TokenKeyed11
          /\ TokenKeyed11["FK_e50ca8"].kind = "fk"
      BY DEF TokenKeyed11, Def, Opt, Req, Column, Cascade, References, Unique
    <2> QED
      BY <1>2, <1>t1, <2>1, DropsKey DEF Minus
  <1>10. Does(At2(t1, NewSessions), NotNull("token", "user_id"), At2(t2, NewSessions))
    <2>1. IsTable(t1)
      BY <1>t1 DEF IsTable, Minus, Plus, TokenKeyed11
    <2>2. /\ "user_id" \in DOMAIN t1
          /\ t1["user_id"] = Req("uuid") \/ t1["user_id"] = Opt("uuid")
      BY <1>t1 DEF Minus, Plus, TokenKeyed11
    <2> QED
      BY <1>2, <1>t2, <2>1, <2>2, Requires DEF Plus
  <1>11. Does(At2(t2, NewSessions), Add("token", "FK_e50ca8", Cascade("user_id", "user")),
             At2(t3, NewSessions))
    <2>1. /\ "FK_e50ca8" \notin DOMAIN t2
          /\ "user_id" \in DOMAIN t2
          /\ t2["user_id"].ty = "uuid"
      BY <1>t1, <1>t2, Types DEF Minus, Plus, TokenKeyed11
    <2>2. /\ "id" \in DOMAIN User8
          /\ User8["id"].ty = "uuid"
      BY DEF User8, Def, Req, Column, Unique
    <2> QED
      BY <1>2, <1>t3, <2>1, <2>2, AddsCascade DEF Plus
  <1>12. Does(At2(t3, NewSessions), Add("sessions", "FK_085d54", Cascade("user_id", "user")),
             At2(t3, s1))
    <2>1. /\ "FK_085d54" \notin DOMAIN NewSessions
          /\ "user_id" \in DOMAIN NewSessions
          /\ NewSessions["user_id"].ty = "uuid"
      BY DEF NewSessions, Def, Opt, Req, Dated, Column
    <2>2. /\ "id" \in DOMAIN User8
          /\ User8["id"].ty = "uuid"
      BY DEF User8, Def, Req, Column, Unique
    <2> QED
      BY <1>2, <1>s1, <2>1, <2>2, AddsCascade DEF Plus
  <1>13. Does(At2(t3, s1), Add("sessions", "FK_3b579c", Cascade("consent_id", "consent")),
             At2(t3, s2))
    <2>1. /\ "FK_3b579c" \notin DOMAIN s1
          /\ "consent_id" \in DOMAIN s1
          /\ s1["consent_id"].ty = "uuid"
      BY <1>s1, Types DEF Minus, Plus, NewSessions
    <2>2. /\ "id" \in DOMAIN Consent10
          /\ Consent10["id"].ty = "uuid"
      BY DEF Consent10, Def, Opt, Req, Column, Cascade, References
    <2> QED
      BY <1>2, <1>s2, <2>1, <2>2, AddsCascade DEF Plus
  <1> QED
    BY <1>4, <1>7, <1>8, <1>9, <1>10, <1>11, <1>12, <1>13, Path6
       DEF SessionTable, NewSessions, Dated

LEMMA SessionTableReverts == Leads(Level12, SessionTable.down, Level11)
  <1> DEFINE At1(t, s) == Sessioned(User8, Client9, Grant6, Consent10, t, s)
  <1>        At2(t) == Consented(User8, Client9, Grant6, Consent10, t)
  <1>1. \A t, s :
           /\ DOMAIN At1(t, s) = {"user", "client", "user_client_consent", "consent", "token",
                              "sessions"}
           /\ At1(t, s)["user"] = User8
           /\ At1(t, s)["client"] = Client9
           /\ At1(t, s)["user_client_consent"] = Grant6
           /\ At1(t, s)["consent"] = Consent10
           /\ At1(t, s)["token"] = t
           /\ At1(t, s)["sessions"] = s
           /\ \A r : Put(At1(t, s), "token", r) = At1(r, s)
           /\ \A r : Put(At1(t, s), "sessions", r) = At1(t, r)
    BY DEF Put, Sessioned
  <1>2. \A t :
           DOMAIN At2(t) = {"user", "client", "user_client_consent", "consent", "token"}
    BY DEF Put, Consented
  <1>3. \A t, s : Without(At1(t, s), "sessions") = At2(t)
    BY DEF Without, Sessioned, Consented
  <1>4. At1(Token12, Sessions12) = Level12
    BY DEF Level12
  <1>s1. PICK s1 : Minus(s1, Sessions12, "FK_3b579c")
    BY Edits
  <1>s2. PICK s2 : Minus(s2, s1, "FK_085d54")
    BY Edits
  <1>t1. PICK t1 : Minus(t1, Token12, "FK_e50ca8")
    BY Edits
  <1>t2. PICK t2 : Plus(t2, t1, "user_id", Opt("uuid"))
    BY Edits
  <1>t3. PICK t3 : Plus(t3, t2, "FK_e50ca8", Cascade("user_id", "user"))
    BY Edits
  <1>5. t3 = Token11
    <2>1. IsTable(t3) /\ IsTable(Token11)
      BY <1>t3 DEF Minus, Plus, IsTable, Token11
    <2>2. DOMAIN t3 = DOMAIN Token11
      BY <1>t1, <1>t2, <1>t3 DEF Minus, Plus, Token12, Token11
    <2>3. \A x \in DOMAIN t3 : t3[x] = Token11[x]
      BY <1>t1, <1>t2, <1>t3, <2>2 DEF Minus, Plus, Token12, Token11
    <2> QED
      BY <2>1, <2>2, <2>3, SameTable
  <1>6. At2(t3) = Level11
    BY <1>5 DEF Level11
  <1> HIDE DEF At1, At2
  <1>7. Does(At1(Token12, Sessions12), Drop("sessions", "FK_3b579c"), At1(Token12, s1))
    <2>1. /\ "FK_3b579c" \in DOMAIN Sessions12
          /\ Sessions12["FK_3b579c"].kind = "fk"
      BY DEF Sessions12, Def, Opt, Req, Dated, Column, Cascade, References
    <2> QED
      BY <1>1, <1>s1, <2>1, DropsKey DEF Minus
  <1>8. Does(At1(Token12, s1), Drop("sessions", "FK_085d54"), At1(Token12, s2))
    <2>1. /\ "FK_085d54" \in DOMAIN s1
          /\ s1["FK_085d54"].kind = "fk"
      BY <1>s1, Kinds DEF Minus, Plus, Sessions12
    <2> QED
      BY <1>1, <1>s2, <2>1, DropsKey DEF Minus
  <1>9. Does(At1(Token12, s2), Drop("token", "FK_e50ca8"), At1(t1, s2))
    <2>1. /\ "FK_e50ca8" \in DOMAIN Token12
          /\ Token12["FK_e50ca8"].kind = "fk"
      BY DEF Token12, Def, Opt, Req, Column, Cascade, References, Unique
    <2> QED
      BY <1>1, <1>t1, <2>1, DropsKey DEF Minus
  <1>10. Does(At1(t1, s2), Nullable("token", "user_id"), At1(t2, s2))
    <2>1. IsTable(t1)
      BY <1>t1 DEF IsTable, Minus, Plus, Token12
    <2>2. /\ "user_id" \in DOMAIN t1
          /\ t1["user_id"] = Req("uuid") \/ t1["user_id"] = Opt("uuid")
      BY <1>t1 DEF Minus, Plus, Token12
    <2> QED
      BY <1>1, <1>t2, <2>1, <2>2, Frees DEF Plus
  <1>11. Does(At1(t2, s2), Add("token", "FK_e50ca8", Cascade("user_id", "user")), At1(t3, s2))
    <2>1. /\ "FK_e50ca8" \notin DOMAIN t2
          /\ "user_id" \in DOMAIN t2
          /\ t2["user_id"].ty = "uuid"
      BY <1>t1, <1>t2, Types DEF Minus, Plus, Token12
    <2>2. /\ "id" \in DOMAIN User8
          /\ User8["id"].ty = "uuid"
      BY DEF User8, Def, Req, Column, Unique
    <2> QED
      BY <1>1, <1>t3, <2>1, <2>2, AddsCascade DEF Plus
  <1>12. Does(At1(t3, s2), DropTable("sessions"), At2(t3))
    <2>1. \A m \in DOMAIN User8 : User8[m].kind = "fk" => User8[m].table # "sessions"
      BY DEF User8, Def, Req, Column, Unique
    <2>2. \A m \in DOMAIN Client9 : Client9[m].kind = "fk" => Client9[m].table # "sessions"
      BY DEF Client9, Def, Opt, Req, Column, Unique
    <2>3. \A m \in DOMAIN Grant6 : Grant6[m].kind = "fk" => Grant6[m].table # "sessions"
      BY DEF Grant6, Def, Opt, Req, Column, Cascade, References
    <2>4. \A m \in DOMAIN Consent10 : Consent10[m].kind = "fk" => Consent10[m].table # "sessions"
      BY DEF Consent10, Def, Opt, Req, Column, Cascade, References
    <2>5. \A m \in DOMAIN t3 : t3[m].kind = "fk" => t3[m].table # "sessions"
      BY <1>t1, <1>t2, <1>t3, Kinds DEF Minus, Plus, Token12
    <2>6. MayDropTable(At1(t3, s2), "sessions")
      BY <1>1, <2>1, <2>2, <2>3, <2>4, <2>5 DEF MayDropTable
    <2> QED
      BY <1>1, <2>6, <1>3, DropsTable
  <1> QED
    BY <1>4, <1>6, <1>7, <1>8, <1>9, <1>10, <1>11, <1>12, Path6 DEF SessionTable

LEMMA SessionTableRevertsUndone == Leads(Level12Undone, SessionTable.down, Level11Keyed)
  <1> DEFINE At1(t, s) == Sessioned(User8, Client9, Grant6, Consent10, t, s)
  <1>        At2(t) == Consented(User8, Client9, Grant6, Consent10, t)
  <1>1. \A t, s :
           /\ DOMAIN At1(t, s) = {"user", "client", "user_client_consent", "consent", "token",
                              "sessions"}
           /\ At1(t, s)["user"] = User8
           /\ At1(t, s)["client"] = Client9
           /\ At1(t, s)["user_client_consent"] = Grant6
           /\ At1(t, s)["consent"] = Consent10
           /\ At1(t, s)["token"] = t
           /\ At1(t, s)["sessions"] = s
           /\ \A r : Put(At1(t, s), "token", r) = At1(r, s)
           /\ \A r : Put(At1(t, s), "sessions", r) = At1(t, r)
    BY DEF Put, Sessioned
  <1>2. \A t :
           DOMAIN At2(t) = {"user", "client", "user_client_consent", "consent", "token"}
    BY DEF Put, Consented
  <1>3. \A t, s : Without(At1(t, s), "sessions") = At2(t)
    BY DEF Without, Sessioned, Consented
  <1>4. At1(TokenKeyed12, SessionsUndone) = Level12Undone
    BY DEF Level12Undone
  <1>s1. PICK s1 : Minus(s1, SessionsUndone, "FK_3b579c")
    BY Edits
  <1>s2. PICK s2 : Minus(s2, s1, "FK_085d54")
    BY Edits
  <1>t1. PICK t1 : Minus(t1, TokenKeyed12, "FK_e50ca8")
    BY Edits
  <1>t2. PICK t2 : Plus(t2, t1, "user_id", Opt("uuid"))
    BY Edits
  <1>t3. PICK t3 : Plus(t3, t2, "FK_e50ca8", Cascade("user_id", "user"))
    BY Edits
  <1>5. t3 = TokenKeyed11
    <2>1. IsTable(t3) /\ IsTable(TokenKeyed11)
      BY <1>t3 DEF Minus, Plus, IsTable, TokenKeyed11
    <2>2. DOMAIN t3 = DOMAIN TokenKeyed11
      BY <1>t1, <1>t2, <1>t3 DEF Minus, Plus, TokenKeyed12, TokenKeyed11
    <2>3. \A x \in DOMAIN t3 : t3[x] = TokenKeyed11[x]
      BY <1>t1, <1>t2, <1>t3, <2>2 DEF Minus, Plus, TokenKeyed12, TokenKeyed11
    <2> QED
      BY <2>1, <2>2, <2>3, SameTable
  <1>6. At2(t3) = Level11Keyed
    BY <1>5 DEF Level11Keyed
  <1> HIDE DEF At1, At2
  <1>7. Does(At1(TokenKeyed12, SessionsUndone), Drop("sessions", "FK_3b579c"),
             At1(TokenKeyed12, s1))
    <2>1. /\ "FK_3b579c" \in DOMAIN SessionsUndone
          /\ SessionsUndone["FK_3b579c"].kind = "fk"
      BY DEF SessionsUndone, Def, Req, Dated, Column, References, Unique
    <2> QED
      BY <1>1, <1>s1, <2>1, DropsKey DEF Minus
  <1>8. Does(At1(TokenKeyed12, s1), Drop("sessions", "FK_085d54"), At1(TokenKeyed12, s2))
    <2>1. /\ "FK_085d54" \in DOMAIN s1
          /\ s1["FK_085d54"].kind = "fk"
      BY <1>s1, Kinds DEF Minus, Plus, SessionsUndone
    <2> QED
      BY <1>1, <1>s2, <2>1, DropsKey DEF Minus
  <1>9. Does(At1(TokenKeyed12, s2), Drop("token", "FK_e50ca8"), At1(t1, s2))
    <2>1. /\ "FK_e50ca8" \in DOMAIN TokenKeyed12
          /\ TokenKeyed12["FK_e50ca8"].kind = "fk"
      BY DEF TokenKeyed12, Def, Opt, Req, Column, Cascade, References, Unique
    <2> QED
      BY <1>1, <1>t1, <2>1, DropsKey DEF Minus
  <1>10. Does(At1(t1, s2), Nullable("token", "user_id"), At1(t2, s2))
    <2>1. IsTable(t1)
      BY <1>t1 DEF IsTable, Minus, Plus, TokenKeyed12
    <2>2. /\ "user_id" \in DOMAIN t1
          /\ t1["user_id"] = Req("uuid") \/ t1["user_id"] = Opt("uuid")
      BY <1>t1 DEF Minus, Plus, TokenKeyed12
    <2> QED
      BY <1>1, <1>t2, <2>1, <2>2, Frees DEF Plus
  <1>11. Does(At1(t2, s2), Add("token", "FK_e50ca8", Cascade("user_id", "user")), At1(t3, s2))
    <2>1. /\ "FK_e50ca8" \notin DOMAIN t2
          /\ "user_id" \in DOMAIN t2
          /\ t2["user_id"].ty = "uuid"
      BY <1>t1, <1>t2, Types DEF Minus, Plus, TokenKeyed12
    <2>2. /\ "id" \in DOMAIN User8
          /\ User8["id"].ty = "uuid"
      BY DEF User8, Def, Req, Column, Unique
    <2> QED
      BY <1>1, <1>t3, <2>1, <2>2, AddsCascade DEF Plus
  <1>12. Does(At1(t3, s2), DropTable("sessions"), At2(t3))
    <2>1. \A m \in DOMAIN User8 : User8[m].kind = "fk" => User8[m].table # "sessions"
      BY DEF User8, Def, Req, Column, Unique
    <2>2. \A m \in DOMAIN Client9 : Client9[m].kind = "fk" => Client9[m].table # "sessions"
      BY DEF Client9, Def, Opt, Req, Column, Unique
    <2>3. \A m \in DOMAIN Grant6 : Grant6[m].kind = "fk" => Grant6[m].table # "sessions"
      BY DEF Grant6, Def, Opt, Req, Column, Cascade, References
    <2>4. \A m \in DOMAIN Consent10 : Consent10[m].kind = "fk" => Consent10[m].table # "sessions"
      BY DEF Consent10, Def, Opt, Req, Column, Cascade, References
    <2>5. \A m \in DOMAIN t3 : t3[m].kind = "fk" => t3[m].table # "sessions"
      BY <1>t1, <1>t2, <1>t3, Kinds DEF Minus, Plus, TokenKeyed12
    <2>6. MayDropTable(At1(t3, s2), "sessions")
      BY <1>1, <2>1, <2>2, <2>3, <2>4, <2>5 DEF MayDropTable
    <2> QED
      BY <1>1, <2>6, <1>3, DropsTable
  <1> QED
    BY <1>4, <1>6, <1>7, <1>8, <1>9, <1>10, <1>11, <1>12, Path6 DEF SessionTable

LEMMA SessionTableRevertsKeyed == Leads(Level12Keyed, SessionTable.down, Level11Keyed)
  <1> DEFINE At1(t, s) == Sessioned(User8, Client9, Grant6, Consent10, t, s)
  <1>        At2(t) == Consented(User8, Client9, Grant6, Consent10, t)
  <1>1. \A t, s :
           /\ DOMAIN At1(t, s) = {"user", "client", "user_client_consent", "consent", "token",
                              "sessions"}
           /\ At1(t, s)["user"] = User8
           /\ At1(t, s)["client"] = Client9
           /\ At1(t, s)["user_client_consent"] = Grant6
           /\ At1(t, s)["consent"] = Consent10
           /\ At1(t, s)["token"] = t
           /\ At1(t, s)["sessions"] = s
           /\ \A r : Put(At1(t, s), "token", r) = At1(r, s)
           /\ \A r : Put(At1(t, s), "sessions", r) = At1(t, r)
    BY DEF Put, Sessioned
  <1>2. \A t :
           DOMAIN At2(t) = {"user", "client", "user_client_consent", "consent", "token"}
    BY DEF Put, Consented
  <1>3. \A t, s : Without(At1(t, s), "sessions") = At2(t)
    BY DEF Without, Sessioned, Consented
  <1>4. At1(TokenKeyed12, Sessions12) = Level12Keyed
    BY DEF Level12Keyed
  <1>s1. PICK s1 : Minus(s1, Sessions12, "FK_3b579c")
    BY Edits
  <1>s2. PICK s2 : Minus(s2, s1, "FK_085d54")
    BY Edits
  <1>t1. PICK t1 : Minus(t1, TokenKeyed12, "FK_e50ca8")
    BY Edits
  <1>t2. PICK t2 : Plus(t2, t1, "user_id", Opt("uuid"))
    BY Edits
  <1>t3. PICK t3 : Plus(t3, t2, "FK_e50ca8", Cascade("user_id", "user"))
    BY Edits
  <1>5. t3 = TokenKeyed11
    <2>1. IsTable(t3) /\ IsTable(TokenKeyed11)
      BY <1>t3 DEF Minus, Plus, IsTable, TokenKeyed11
    <2>2. DOMAIN t3 = DOMAIN TokenKeyed11
      BY <1>t1, <1>t2, <1>t3 DEF Minus, Plus, TokenKeyed12, TokenKeyed11
    <2>3. \A x \in DOMAIN t3 : t3[x] = TokenKeyed11[x]
      BY <1>t1, <1>t2, <1>t3, <2>2 DEF Minus, Plus, TokenKeyed12, TokenKeyed11
    <2> QED
      BY <2>1, <2>2, <2>3, SameTable
  <1>6. At2(t3) = Level11Keyed
    BY <1>5 DEF Level11Keyed
  <1> HIDE DEF At1, At2
  <1>7. Does(At1(TokenKeyed12, Sessions12), Drop("sessions", "FK_3b579c"), At1(TokenKeyed12, s1))
    <2>1. /\ "FK_3b579c" \in DOMAIN Sessions12
          /\ Sessions12["FK_3b579c"].kind = "fk"
      BY DEF Sessions12, Def, Opt, Req, Dated, Column, Cascade, References
    <2> QED
      BY <1>1, <1>s1, <2>1, DropsKey DEF Minus
  <1>8. Does(At1(TokenKeyed12, s1), Drop("sessions", "FK_085d54"), At1(TokenKeyed12, s2))
    <2>1. /\ "FK_085d54" \in DOMAIN s1
          /\ s1["FK_085d54"].kind = "fk"
      BY <1>s1, Kinds DEF Minus, Plus, Sessions12
    <2> QED
      BY <1>1, <1>s2, <2>1, DropsKey DEF Minus
  <1>9. Does(At1(TokenKeyed12, s2), Drop("token", "FK_e50ca8"), At1(t1, s2))
    <2>1. /\ "FK_e50ca8" \in DOMAIN TokenKeyed12
          /\ TokenKeyed12["FK_e50ca8"].kind = "fk"
      BY DEF TokenKeyed12, Def, Opt, Req, Column, Cascade, References, Unique
    <2> QED
      BY <1>1, <1>t1, <2>1, DropsKey DEF Minus
  <1>10. Does(At1(t1, s2), Nullable("token", "user_id"), At1(t2, s2))
    <2>1. IsTable(t1)
      BY <1>t1 DEF IsTable, Minus, Plus, TokenKeyed12
    <2>2. /\ "user_id" \in DOMAIN t1
          /\ t1["user_id"] = Req("uuid") \/ t1["user_id"] = Opt("uuid")
      BY <1>t1 DEF Minus, Plus, TokenKeyed12
    <2> QED
      BY <1>1, <1>t2, <2>1, <2>2, Frees DEF Plus
  <1>11. Does(At1(t2, s2), Add("token", "FK_e50ca8", Cascade("user_id", "user")), At1(t3, s2))
    <2>1. /\ "FK_e50ca8" \notin DOMAIN t2
          /\ "user_id" \in DOMAIN t2
          /\ t2["user_id"].ty = "uuid"
      BY <1>t1, <1>t2, Types DEF Minus, Plus, TokenKeyed12
    <2>2. /\ "id" \in DOMAIN User8
          /\ User8["id"].ty = "uuid"
      BY DEF User8, Def, Req, Column, Unique
    <2> QED
      BY <1>1, <1>t3, <2>1, <2>2, AddsCascade DEF Plus
  <1>12. Does(At1(t3, s2), DropTable("sessions"), At2(t3))
    <2>1. \A m \in DOMAIN User8 : User8[m].kind = "fk" => User8[m].table # "sessions"
      BY DEF User8, Def, Req, Column, Unique
    <2>2. \A m \in DOMAIN Client9 : Client9[m].kind = "fk" => Client9[m].table # "sessions"
      BY DEF Client9, Def, Opt, Req, Column, Unique
    <2>3. \A m \in DOMAIN Grant6 : Grant6[m].kind = "fk" => Grant6[m].table # "sessions"
      BY DEF Grant6, Def, Opt, Req, Column, Cascade, References
    <2>4. \A m \in DOMAIN Consent10 : Consent10[m].kind = "fk" => Consent10[m].table # "sessions"
      BY DEF Consent10, Def, Opt, Req, Column, Cascade, References
    <2>5. \A m \in DOMAIN t3 : t3[m].kind = "fk" => t3[m].table # "sessions"
      BY <1>t1, <1>t2, <1>t3, Kinds DEF Minus, Plus, TokenKeyed12
    <2>6. MayDropTable(At1(t3, s2), "sessions")
      BY <1>1, <2>1, <2>2, <2>3, <2>4, <2>5 DEF MayDropTable
    <2> QED
      BY <1>1, <2>6, <1>3, DropsTable
  <1> QED
    BY <1>4, <1>6, <1>7, <1>8, <1>9, <1>10, <1>11, <1>12, Path6 DEF SessionTable

\* 13. Sessions without a token: the revert undoes less than the run did.
LEMMA SessionWithoutTokenRuns == Leads(Level12, SessionWithoutToken.up, Level13)
  <1> DEFINE At(t, s) == Sessioned(User8, Client9, Grant6, Consent10, t, s)
  <1>1. \A t, s :
           /\ DOMAIN At(t, s) = {"user", "client", "user_client_consent", "consent", "token",
                              "sessions"}
           /\ At(t, s)["user"] = User8
           /\ At(t, s)["consent"] = Consent10
           /\ At(t, s)["token"] = t
           /\ At(t, s)["sessions"] = s
           /\ \A r : Put(At(t, s), "token", r) = At(r, s)
           /\ \A r : Put(At(t, s), "sessions", r) = At(t, r)
    BY DEF Put, Sessioned
  <1>2. At(Token12, Sessions12) = Level12
    BY DEF Level12
  <1>s1. PICK s1 : Minus(s1, Sessions12, "FK_085d54")
    BY Edits
  <1>s2. PICK s2 : Minus(s2, s1, "FK_3b579c")
    BY Edits
  <1>s3. PICK s3 : Plus(s3, s2, "FK_085d54", Cascade("user_id", "user"))
    BY Edits
  <1>s4. PICK s4 : Plus(s4, s3, "FK_3b579c", Cascade("consent_id", "consent"))
    BY Edits
  <1>3. s4 = Sessions12
    <2>1. IsTable(s4) /\ IsTable(Sessions12)
      BY <1>s4 DEF Minus, Plus, IsTable, Sessions12
    <2>2. DOMAIN s4 = DOMAIN Sessions12
      BY <1>s1, <1>s2, <1>s3, <1>s4 DEF Minus, Plus, Sessions12
    <2>3. \A x \in DOMAIN s4 : s4[x] = Sessions12[x]
      BY <1>s1, <1>s2, <1>s3, <1>s4, <2>2 DEF Minus, Plus, Sessions12
    <2> QED
      BY <2>1, <2>2, <2>3, SameTable
  <1>4. At(Token12, s4) = Level13
    BY <1>3 DEF Level13
  <1> HIDE DEF At
  <1>5. Does(At(Token12, Sessions12), DropIf("sessions", "FK_085d54"), At(Token12, s1))
    <2>1. /\ "FK_085d54" \in DOMAIN Sessions12
          /\ Sessions12["FK_085d54"].kind = "fk"
      BY DEF Sessions12, Def, Opt, Req, Dated, Column, Cascade, References
    <2> QED
      BY <1>1, <1>s1, <2>1, DropsKey DEF Minus
  <1>6. Does(At(Token12, s1), DropIf("sessions", "FK_3b579c"), At(Token12, s2))
    <2>1. /\ "FK_3b579c" \in DOMAIN s1
          /\ s1["FK_3b579c"].kind = "fk"
      BY <1>s1, Kinds DEF Minus, Plus, Sessions12
    <2> QED
      BY <1>1, <1>s2, <2>1, DropsKey DEF Minus
  <1>7. Does(At(Token12, s2), DropIf("sessions", "FK_b99aa5"), At(Token12, s2))
    <2>1. "FK_b99aa5" \notin DOMAIN s2
      BY <1>s1, <1>s2 DEF Minus, Plus, Sessions12
    <2> QED
      BY <1>1, <2>1, DropsNothing
  <1>8. Does(At(Token12, s2), DropIf("sessions", "UQ_b99aa5"), At(Token12, s2))
    <2>1. "UQ_b99aa5" \notin DOMAIN s2
      BY <1>s1, <1>s2 DEF Minus, Plus, Sessions12
    <2> QED
      BY <1>1, <2>1, DropsNothing
  <1>9. Does(At(Token12, s2), DropIf("token", "UQ_eb1888"), At(Token12, s2))
    <2>1. "UQ_eb1888" \notin DOMAIN Token12
      BY DEF Token12
    <2> QED
      BY <1>1, <2>1, DropsNothing
  <1>10. Does(At(Token12, s2), AddIf("sessions", "token_family_id", Opt("varchar")),
             At(Token12, s2))
    <2>1. "token_family_id" \in DOMAIN s2
      BY <1>s1, <1>s2 DEF Minus, Plus, Sessions12
    <2> QED
      BY <1>1, <2>1, AddsNothing, Kinds
  <1>11. Does(At(Token12, s2), AddIf("sessions", "expires_at", Opt("timestamp")), At(Token12, s2))
    <2>1. "expires_at" \in DOMAIN s2
      BY <1>s1, <1>s2 DEF Minus, Plus, Sessions12
    <2> QED
      BY <1>1, <2>1, AddsNothing, Kinds
  <1>12. Does(At(Token12, s2), Nullable("sessions", "consent_id"), At(Token12, s2))
    <2>1. IsTable(s2)
      BY <1>s1, <1>s2 DEF IsTable, Minus, Plus, Sessions12
    <2>2. /\ "consent_id" \in DOMAIN s2
          /\ s2["consent_id"] = Req("uuid") \/ s2["consent_id"] = Opt("uuid")
          /\ s2["consent_id"] = Opt("uuid")
      BY <1>s1, <1>s2 DEF Minus, Plus, Sessions12
    <2> QED
      BY <1>1, <2>1, <2>2, Frees
  <1>13. Does(At(Token12, s2), Alter("sessions", "token_family_id", "ty", "varchar"),
             At(Token12, s2))
    <2>1. IsTable(s2)
      BY <1>s1, <1>s2 DEF IsTable, Minus, Plus, Sessions12
    <2>2. /\ "token_family_id" \in DOMAIN s2
          /\ s2["token_family_id"] = Req("varchar")
      BY <1>s1, <1>s2 DEF Minus, Plus, Sessions12
    <2> QED
      BY <1>1, <2>1, <2>2, Retypes
  <1>14. Does(At(Token12, s2), NotNull("sessions", "token_family_id"), At(Token12, s2))
    <2>1. IsTable(s2)
      BY <1>s1, <1>s2 DEF IsTable, Minus, Plus, Sessions12
    <2>2. /\ "token_family_id" \in DOMAIN s2
          /\ s2["token_family_id"] = Req("varchar") \/ s2["token_family_id"] = Opt("varchar")
          /\ s2["token_family_id"] = Req("varchar")
      BY <1>s1, <1>s2 DEF Minus, Plus, Sessions12
    <2> QED
      BY <1>1, <2>1, <2>2, Requires
  <1>15. Does(At(Token12, s2), NotNull("sessions", "expires_at"), At(Token12, s2))
    <2>1. IsTable(s2)
      BY <1>s1, <1>s2 DEF IsTable, Minus, Plus, Sessions12
    <2>2. /\ "expires_at" \in DOMAIN s2
          /\ s2["expires_at"] = Req("timestamp") \/ s2["expires_at"] = Opt("timestamp")
          /\ s2["expires_at"] = Req("timestamp")
      BY <1>s1, <1>s2 DEF Minus, Plus, Sessions12
    <2> QED
      BY <1>1, <2>1, <2>2, Requires
  <1>16. Does(At(Token12, s2), DropIf("sessions", "session_count"), At(Token12, s2))
    <2>1. "session_count" \notin DOMAIN s2
      BY <1>s1, <1>s2 DEF Minus, Plus, Sessions12
    <2> QED
      BY <1>1, <2>1, DropsNothing
  <1>17. Does(At(Token12, s2), DropIf("sessions", "token_id"), At(Token12, s2))
    <2>1. "token_id" \notin DOMAIN s2
      BY <1>s1, <1>s2 DEF Minus, Plus, Sessions12
    <2> QED
      BY <1>1, <2>1, DropsNothing
  <1>18. Does(At(Token12, s2), Add("sessions", "FK_085d54", Cascade("user_id", "user")),
             At(Token12, s3))
    <2>1. /\ "FK_085d54" \notin DOMAIN s2
          /\ "user_id" \in DOMAIN s2
          /\ s2["user_id"].ty = "uuid"
      BY <1>s1, <1>s2, Types DEF Minus, Plus, Sessions12
    <2>2. /\ "id" \in DOMAIN User8
          /\ User8["id"].ty = "uuid"
      BY DEF User8, Def, Req, Column, Unique
    <2> QED
      BY <1>1, <1>s3, <2>1, <2>2, AddsCascade DEF Plus
  <1>19. Does(At(Token12, s3), Add("sessions", "FK_3b579c", Cascade("consent_id", "consent")),
             At(Token12, s4))
    <2>1. /\ "FK_3b579c" \notin DOMAIN s3
          /\ "consent_id" \in DOMAIN s3
          /\ s3["consent_id"].ty = "uuid"
      BY <1>s1, <1>s2, <1>s3, Types DEF Minus, Plus, Sessions12
    <2>2. /\ "id" \in DOMAIN Consent10
          /\ Consent10["id"].ty = "uuid"
      BY DEF Consent10, Def, Opt, Req, Column, Cascade, References
    <2> QED
      BY <1>1, <1>s4, <2>1, <2>2, AddsCascade DEF Plus
  <1> QED
    BY <1>2, <1>4, <1>5, <1>6, <1>7, <1>8, <1>9, <1>10, <1>11, <1>12, <1>13, <1>14, <1>15,
       <1>16, <1>17, <1>18, <1>19, Path15
       DEF SessionWithoutToken

LEMMA SessionWithoutTokenRunsUndone == Leads(Level12Undone, SessionWithoutToken.up, Level13)
  <1> DEFINE At(t, s) == Sessioned(User8, Client9, Grant6, Consent10, t, s)
  <1>1. \A t, s :
           /\ DOMAIN At(t, s) = {"user", "client", "user_client_consent", "consent", "token",
                              "sessions"}
           /\ At(t, s)["user"] = User8
           /\ At(t, s)["client"] = Client9
           /\ At(t, s)["user_client_consent"] = Grant6
           /\ At(t, s)["consent"] = Consent10
           /\ At(t, s)["token"] = t
           /\ At(t, s)["sessions"] = s
           /\ \A r : Put(At(t, s), "token", r) = At(r, s)
           /\ \A r : Put(At(t, s), "sessions", r) = At(t, r)
    BY DEF Put, Sessioned
  <1>2. At(TokenKeyed12, SessionsUndone) = Level12Undone
    BY DEF Level12Undone
  <1>s1. PICK s1 : Minus(s1, SessionsUndone, "FK_085d54")
    BY Edits
  <1>s2. PICK s2 : Minus(s2, s1, "FK_3b579c")
    BY Edits
  <1>s3. PICK s3 : Minus(s3, s2, "FK_b99aa5")
    BY Edits
  <1>s4. PICK s4 : Minus(s4, s3, "UQ_b99aa5")
    BY Edits
  <1>t1. PICK t1 : Minus(t1, TokenKeyed12, "UQ_eb1888")
    BY Edits
  <1>s5. PICK s5 : Plus(s5, s4, "consent_id", Opt("uuid"))
    BY Edits
  <1>s6. PICK s6 : Plus(s6, s5, "token_family_id", Req("varchar"))
    BY Edits
  <1>s7. PICK s7 : Plus(s7, s6, "FK_085d54", Cascade("user_id", "user"))
    BY Edits
  <1>s8. PICK s8 : Plus(s8, s7, "FK_3b579c", Cascade("consent_id", "consent"))
    BY Edits
  <1>3. t1 = Token12
    <2>1. IsTable(t1) /\ IsTable(Token12)
      BY <1>t1 DEF Minus, Plus, IsTable, Token12
    <2>2. DOMAIN t1 = DOMAIN Token12
      BY <1>t1 DEF Minus, Plus, TokenKeyed12, Token12
    <2>3. \A x \in DOMAIN t1 : t1[x] = Token12[x]
      BY <1>t1, <2>2 DEF Minus, Plus, TokenKeyed12, Token12
    <2> QED
      BY <2>1, <2>2, <2>3, SameTable
  <1>4. s8 = Sessions12
    <2>1. IsTable(s8) /\ IsTable(Sessions12)
      BY <1>s8 DEF Minus, Plus, IsTable, Sessions12
    <2>2. DOMAIN s8 = DOMAIN Sessions12
      BY <1>s1, <1>s2, <1>s3, <1>s4, <1>s5, <1>s6, <1>s7, <1>s8
         DEF Minus, Plus, SessionsUndone, Sessions12
    <2>3. \A x \in DOMAIN s8 : s8[x] = Sessions12[x]
      BY <1>s1, <1>s2, <1>s3, <1>s4, <1>s5, <1>s6, <1>s7, <1>s8, <2>2
         DEF Minus, Plus, SessionsUndone, Sessions12
    <2> QED
      BY <2>1, <2>2, <2>3, SameTable
  <1>5. At(t1, s8) = Level13
    BY <1>3, <1>4 DEF Level13
  <1> HIDE DEF At
  <1>6. Does(At(TokenKeyed12, SessionsUndone), DropIf("sessions", "FK_085d54"),
             At(TokenKeyed12, s1))
    <2>1. /\ "FK_085d54" \in DOMAIN SessionsUndone
          /\ SessionsUndone["FK_085d54"].kind = "fk"
      BY DEF SessionsUndone, Def, Req, Dated, Column, References, Unique
    <2> QED
      BY <1>1, <1>s1, <2>1, DropsKey DEF Minus
  <1>7. Does(At(TokenKeyed12, s1), DropIf("sessions", "FK_3b579c"), At(TokenKeyed12, s2))
    <2>1. /\ "FK_3b579c" \in DOMAIN s1
          /\ s1["FK_3b579c"].kind = "fk"
      BY <1>s1, Kinds DEF Minus, Plus, SessionsUndone
    <2> QED
      BY <1>1, <1>s2, <2>1, DropsKey DEF Minus
  <1>8. Does(At(TokenKeyed12, s2), DropIf("sessions", "FK_b99aa5"), At(TokenKeyed12, s3))
    <2>1. /\ "FK_b99aa5" \in DOMAIN s2
          /\ s2["FK_b99aa5"].kind = "fk"
      BY <1>s1, <1>s2, Kinds DEF Minus, Plus, SessionsUndone
    <2> QED
      BY <1>1, <1>s3, <2>1, DropsKey DEF Minus
  <1>9. Does(At(TokenKeyed12, s3), DropIf("sessions", "UQ_b99aa5"), At(TokenKeyed12, s4))
    <2>1. /\ "UQ_b99aa5" \in DOMAIN s3
          /\ s3["UQ_b99aa5"] = Unique("token_family_id")
      BY <1>s1, <1>s2, <1>s3 DEF Minus, Plus, SessionsUndone
    <2>2. \A m \in DOMAIN User8 :
            User8[m].kind = "fk" => ~ (User8[m].table = "sessions" /\ User8[m].ref =
                "token_family_id")
      BY DEF User8, Def, Req, Column, Unique
    <2>3. \A m \in DOMAIN Client9 :
            Client9[m].kind = "fk" => ~ (Client9[m].table = "sessions" /\ Client9[m].ref =
                "token_family_id")
      BY DEF Client9, Def, Opt, Req, Column, Unique
    <2>4. \A m \in DOMAIN Grant6 :
            Grant6[m].kind = "fk" => ~ (Grant6[m].table = "sessions" /\ Grant6[m].ref =
                "token_family_id")
      BY DEF Grant6, Def, Opt, Req, Column, Cascade, References
    <2>5. \A m \in DOMAIN Consent10 :
            Consent10[m].kind = "fk" => ~ (Consent10[m].table = "sessions" /\
                Consent10[m].ref = "token_family_id")
      BY DEF Consent10, Def, Opt, Req, Column, Cascade, References
    <2>6. \A m \in DOMAIN TokenKeyed12 :
            TokenKeyed12[m].kind = "fk" => ~ (TokenKeyed12[m].table = "sessions" /\
                TokenKeyed12[m].ref = "token_family_id")
      BY DEF TokenKeyed12, Def, Opt, Req, Column, Cascade, References, Unique
    <2>7. \A m \in DOMAIN s3 :
            s3[m].kind = "fk" => ~ (s3[m].table = "sessions" /\ s3[m].ref = "token_family_id")
      BY <1>s1, <1>s2, <1>s3, Kinds DEF Minus, Plus, SessionsUndone
    <2>8. ~ PointsAt(At(TokenKeyed12, s3), "sessions", "token_family_id")
      BY <1>1, <2>2, <2>3, <2>4, <2>5, <2>6, <2>7 DEF PointsAt
    <2> QED
      BY <1>1, <1>s4, <2>1, <2>8, DropsUnique DEF Minus
  <1>10. Does(At(TokenKeyed12, s4), DropIf("token", "UQ_eb1888"), At(t1, s4))
    <2>1. /\ "UQ_eb1888" \in DOMAIN TokenKeyed12
          /\ TokenKeyed12["UQ_eb1888"] = Unique("token_family_id")
      BY DEF TokenKeyed12
    <2>2. \A m \in DOMAIN User8 :
            User8[m].kind = "fk" => ~ (User8[m].table = "token" /\ User8[m].ref = "token_family_id")
      BY DEF User8, Def, Req, Column, Unique
    <2>3. \A m \in DOMAIN Client9 :
            Client9[m].kind = "fk" => ~ (Client9[m].table = "token" /\ Client9[m].ref =
                "token_family_id")
      BY DEF Client9, Def, Opt, Req, Column, Unique
    <2>4. \A m \in DOMAIN Grant6 :
            Grant6[m].kind = "fk" => ~ (Grant6[m].table = "token" /\ Grant6[m].ref =
                "token_family_id")
      BY DEF Grant6, Def, Opt, Req, Column, Cascade, References
    <2>5. \A m \in DOMAIN Consent10 :
            Consent10[m].kind = "fk" => ~ (Consent10[m].table = "token" /\ Consent10[m].ref =
                "token_family_id")
      BY DEF Consent10, Def, Opt, Req, Column, Cascade, References
    <2>6. \A m \in DOMAIN TokenKeyed12 :
            TokenKeyed12[m].kind = "fk" => ~ (TokenKeyed12[m].table = "token" /\
                TokenKeyed12[m].ref = "token_family_id")
      BY DEF TokenKeyed12, Def, Opt, Req, Column, Cascade, References, Unique
    <2>7. \A m \in DOMAIN s4 :
            s4[m].kind = "fk" => ~ (s4[m].table = "token" /\ s4[m].ref = "token_family_id")
      BY <1>s1, <1>s2, <1>s3, <1>s4, Kinds DEF Minus, Plus, SessionsUndone
    <2>8. ~ PointsAt(At(TokenKeyed12, s4), "token", "token_family_id")
      BY <1>1, <2>2, <2>3, <2>4, <2>5, <2>6, <2>7 DEF PointsAt
    <2> QED
      BY <1>1, <1>t1, <2>1, <2>8, DropsUnique DEF Minus
  <1>11. Does(At(t1, s4), AddIf("sessions", "token_family_id", Opt("varchar")), At(t1, s4))
    <2>1. "token_family_id" \in DOMAIN s4
      BY <1>s1, <1>s2, <1>s3, <1>s4 DEF Minus, Plus, SessionsUndone
    <2> QED
      BY <1>1, <2>1, AddsNothing, Kinds
  <1>12. Does(At(t1, s4), AddIf("sessions", "expires_at", Opt("timestamp")), At(t1, s4))
    <2>1. "expires_at" \in DOMAIN s4
      BY <1>s1, <1>s2, <1>s3, <1>s4 DEF Minus, Plus, SessionsUndone
    <2> QED
      BY <1>1, <2>1, AddsNothing, Kinds
  <1>13. Does(At(t1, s4), Nullable("sessions", "consent_id"), At(t1, s5))
    <2>1. IsTable(s4)
      BY <1>s1, <1>s2, <1>s3, <1>s4 DEF IsTable, Minus, Plus, SessionsUndone
    <2>2. /\ "consent_id" \in DOMAIN s4
          /\ s4["consent_id"] = Req("uuid") \/ s4["consent_id"] = Opt("uuid")
      BY <1>s1, <1>s2, <1>s3, <1>s4 DEF Minus, Plus, SessionsUndone
    <2> QED
      BY <1>1, <1>s5, <2>1, <2>2, Frees DEF Plus
  <1>14. Does(At(t1, s5), Alter("sessions", "token_family_id", "ty", "varchar"), At(t1, s6))
    <2>1. IsTable(s5)
      BY <1>s1, <1>s2, <1>s3, <1>s4, <1>s5 DEF IsTable, Minus, Plus, SessionsUndone
    <2>2. /\ "token_family_id" \in DOMAIN s5
          /\ s5["token_family_id"] = Req("uuid")
      BY <1>s1, <1>s2, <1>s3, <1>s4, <1>s5 DEF Minus, Plus, SessionsUndone
    <2> QED
      BY <1>1, <1>s6, <2>1, <2>2, Retypes DEF Plus
  <1>15. Does(At(t1, s6), NotNull("sessions", "token_family_id"), At(t1, s6))
    <2>1. IsTable(s6)
      BY <1>s1, <1>s2, <1>s3, <1>s4, <1>s5, <1>s6 DEF IsTable, Minus, Plus, SessionsUndone
    <2>2. /\ "token_family_id" \in DOMAIN s6
          /\ s6["token_family_id"] = Req("varchar") \/ s6["token_family_id"] = Opt("varchar")
          /\ s6["token_family_id"] = Req("varchar")
      BY <1>s1, <1>s2, <1>s3, <1>s4, <1>s5, <1>s6 DEF Minus, Plus, SessionsUndone
    <2> QED
      BY <1>1, <2>1, <2>2, Requires
  <1>16. Does(At(t1, s6), NotNull("sessions", "expires_at"), At(t1, s6))
    <2>1. IsTable(s6)
      BY <1>s1, <1>s2, <1>s3, <1>s4, <1>s5, <1>s6 DEF IsTable, Minus, Plus, SessionsUndone
    <2>2. /\ "expires_at" \in DOMAIN s6
          /\ s6["expires_at"] = Req("timestamp") \/ s6["expires_at"] = Opt("timestamp")
          /\ s6["expires_at"] = Req("timestamp")
      BY <1>s1, <1>s2, <1>s3, <1>s4, <1>s5, <1>s6 DEF Minus, Plus, SessionsUndone
    <2> QED
      BY <1>1, <2>1, <2>2, Requires
  <1>17. Does(At(t1, s6), DropIf("sessions", "session_count"), At(t1, s6))
    <2>1. "session_count" \notin DOMAIN s6
      BY <1>s1, <1>s2, <1>s3, <1>s4, <1>s5, <1>s6 DEF Minus, Plus, SessionsUndone
    <2> QED
      BY <1>1, <2>1, DropsNothing
  <1>18. Does(At(t1, s6), DropIf("sessions", "token_id"), At(t1, s6))
    <2>1. "token_id" \notin DOMAIN s6
      BY <1>s1, <1>s2, <1>s3, <1>s4, <1>s5, <1>s6 DEF Minus, Plus, SessionsUndone
    <2> QED
      BY <1>1, <2>1, DropsNothing
  <1>19. Does(At(t1, s6), Add("sessions", "FK_085d54", Cascade("user_id", "user")), At(t1, s7))
    <2>1. /\ "FK_085d54" \notin DOMAIN s6
          /\ "user_id" \in DOMAIN s6
          /\ s6["user_id"].ty = "uuid"
      BY <1>s1, <1>s2, <1>s3, <1>s4, <1>s5, <1>s6, Types DEF Minus, Plus, SessionsUndone
    <2>2. /\ "id" \in DOMAIN User8
          /\ User8["id"].ty = "uuid"
      BY DEF User8, Def, Req, Column, Unique
    <2> QED
      BY <1>1, <1>s7, <2>1, <2>2, AddsCascade DEF Plus
  <1>20. Does(At(t1, s7), Add("sessions", "FK_3b579c", Cascade("consent_id", "consent")),
             At(t1, s8))
    <2>1. /\ "FK_3b579c" \notin DOMAIN s7
          /\ "consent_id" \in DOMAIN s7
          /\ s7["consent_id"].ty = "uuid"
      BY <1>s1, <1>s2, <1>s3, <1>s4, <1>s5, <1>s6, <1>s7, Types DEF Minus, Plus, SessionsUndone
    <2>2. /\ "id" \in DOMAIN Consent10
          /\ Consent10["id"].ty = "uuid"
      BY DEF Consent10, Def, Opt, Req, Column, Cascade, References
    <2> QED
      BY <1>1, <1>s8, <2>1, <2>2, AddsCascade DEF Plus
  <1> QED
    BY <1>2, <1>5, <1>6, <1>7, <1>8, <1>9, <1>10, <1>11, <1>12, <1>13, <1>14, <1>15, <1>16,
       <1>17, <1>18, <1>19, <1>20, Path15
       DEF SessionWithoutToken

LEMMA SessionWithoutTokenRunsKeyed == Leads(Level12Keyed, SessionWithoutToken.up, Level13)
  <1> DEFINE At(t, s) == Sessioned(User8, Client9, Grant6, Consent10, t, s)
  <1>1. \A t, s :
           /\ DOMAIN At(t, s) = {"user", "client", "user_client_consent", "consent", "token",
                              "sessions"}
           /\ At(t, s)["user"] = User8
           /\ At(t, s)["client"] = Client9
           /\ At(t, s)["user_client_consent"] = Grant6
           /\ At(t, s)["consent"] = Consent10
           /\ At(t, s)["token"] = t
           /\ At(t, s)["sessions"] = s
           /\ \A r : Put(At(t, s), "token", r) = At(r, s)
           /\ \A r : Put(At(t, s), "sessions", r) = At(t, r)
    BY DEF Put, Sessioned
  <1>2. At(TokenKeyed12, Sessions12) = Level12Keyed
    BY DEF Level12Keyed
  <1>s1. PICK s1 : Minus(s1, Sessions12, "FK_085d54")
    BY Edits
  <1>s2. PICK s2 : Minus(s2, s1, "FK_3b579c")
    BY Edits
  <1>t1. PICK t1 : Minus(t1, TokenKeyed12, "UQ_eb1888")
    BY Edits
  <1>s3. PICK s3 : Plus(s3, s2, "FK_085d54", Cascade("user_id", "user"))
    BY Edits
  <1>s4. PICK s4 : Plus(s4, s3, "FK_3b579c", Cascade("consent_id", "consent"))
    BY Edits
  <1>3. t1 = Token12
    <2>1. IsTable(t1) /\ IsTable(Token12)
      BY <1>t1 DEF Minus, Plus, IsTable, Token12
    <2>2. DOMAIN t1 = DOMAIN Token12
      BY <1>t1 DEF Minus, Plus, TokenKeyed12, Token12
    <2>3. \A x \in DOMAIN t1 : t1[x] = Token12[x]
      BY <1>t1, <2>2 DEF Minus, Plus, TokenKeyed12, Token12
    <2> QED
      BY <2>1, <2>2, <2>3, SameTable
  <1>4. s4 = Sessions12
    <2>1. IsTable(s4) /\ IsTable(Sessions12)
      BY <1>s4 DEF Minus, Plus, IsTable, Sessions12
    <2>2. DOMAIN s4 = DOMAIN Sessions12
      BY <1>s1, <1>s2, <1>s3, <1>s4 DEF Minus, Plus, Sessions12
    <2>3. \A x \in DOMAIN s4 : s4[x] = Sessions12[x]
      BY <1>s1, <1>s2, <1>s3, <1>s4, <2>2 DEF Minus, Plus, Sessions12
    <2> QED
      BY <2>1, <2>2, <2>3, SameTable
  <1>5. At(t1, s4) = Level13
    BY <1>3, <1>4 DEF Level13
  <1> HIDE DEF At
  <1>6. Does(At(TokenKeyed12, Sessions12), DropIf("sessions", "FK_085d54"), At(TokenKeyed12, s1))
    <2>1. /\ "FK_085d54" \in DOMAIN Sessions12
          /\ Sessions12["FK_085d54"].kind = "fk"
      BY DEF Sessions12, Def, Opt, Req, Dated, Column, Cascade, References
    <2> QED
      BY <1>1, <1>s1, <2>1, DropsKey DEF Minus
  <1>7. Does(At(TokenKeyed12, s1), DropIf("sessions", "FK_3b579c"), At(TokenKeyed12, s2))
    <2>1. /\ "FK_3b579c" \in DOMAIN s1
          /\ s1["FK_3b579c"].kind = "fk"
      BY <1>s1, Kinds DEF Minus, Plus, Sessions12
    <2> QED
      BY <1>1, <1>s2, <2>1, DropsKey DEF Minus
  <1>8. Does(At(TokenKeyed12, s2), DropIf("sessions", "FK_b99aa5"), At(TokenKeyed12, s2))
    <2>1. "FK_b99aa5" \notin DOMAIN s2
      BY <1>s1, <1>s2 DEF Minus, Plus, Sessions12
    <2> QED
      BY <1>1, <2>1, DropsNothing
  <1>9. Does(At(TokenKeyed12, s2), DropIf("sessions", "UQ_b99aa5"), At(TokenKeyed12, s2))
    <2>1. "UQ_b99aa5" \notin DOMAIN s2
      BY <1>s1, <1>s2 DEF Minus, Plus, Sessions12
    <2> QED
      BY <1>1, <2>1, DropsNothing
  <1>10. Does(At(TokenKeyed12, s2), DropIf("token", "UQ_eb1888"), At(t1, s2))
    <2>1. /\ "UQ_eb1888" \in DOMAIN TokenKeyed12
          /\ TokenKeyed12["UQ_eb1888"] = Unique("token_family_id")
      BY DEF TokenKeyed12
    <2>2. \A m \in DOMAIN User8 :
            User8[m].kind = "fk" => ~ (User8[m].table = "token" /\ User8[m].ref = "token_family_id")
      BY DEF User8, Def, Req, Column, Unique
    <2>3. \A m \in DOMAIN Client9 :
            Client9[m].kind = "fk" => ~ (Client9[m].table = "token" /\ Client9[m].ref =
                "token_family_id")
      BY DEF Client9, Def, Opt, Req, Column, Unique
    <2>4. \A m \in DOMAIN Grant6 :
            Grant6[m].kind = "fk" => ~ (Grant6[m].table = "token" /\ Grant6[m].ref =
                "token_family_id")
      BY DEF Grant6, Def, Opt, Req, Column, Cascade, References
    <2>5. \A m \in DOMAIN Consent10 :
            Consent10[m].kind = "fk" => ~ (Consent10[m].table = "token" /\ Consent10[m].ref =
                "token_family_id")
      BY DEF Consent10, Def, Opt, Req, Column, Cascade, References
    <2>6. \A m \in DOMAIN TokenKeyed12 :
            TokenKeyed12[m].kind = "fk" => ~ (TokenKeyed12[m].table = "token" /\
                TokenKeyed12[m].ref = "token_family_id")
      BY DEF TokenKeyed12, Def, Opt, Req, Column, Cascade, References, Unique
    <2>7. \A m \in DOMAIN s2 :
            s2[m].kind = "fk" => ~ (s2[m].table = "token" /\ s2[m].ref = "token_family_id")
      BY <1>s1, <1>s2, Kinds DEF Minus, Plus, Sessions12
    <2>8. ~ PointsAt(At(TokenKeyed12, s2), "token", "token_family_id")
      BY <1>1, <2>2, <2>3, <2>4, <2>5, <2>6, <2>7 DEF PointsAt
    <2> QED
      BY <1>1, <1>t1, <2>1, <2>8, DropsUnique DEF Minus
  <1>11. Does(At(t1, s2), AddIf("sessions", "token_family_id", Opt("varchar")), At(t1, s2))
    <2>1. "token_family_id" \in DOMAIN s2
      BY <1>s1, <1>s2 DEF Minus, Plus, Sessions12
    <2> QED
      BY <1>1, <2>1, AddsNothing, Kinds
  <1>12. Does(At(t1, s2), AddIf("sessions", "expires_at", Opt("timestamp")), At(t1, s2))
    <2>1. "expires_at" \in DOMAIN s2
      BY <1>s1, <1>s2 DEF Minus, Plus, Sessions12
    <2> QED
      BY <1>1, <2>1, AddsNothing, Kinds
  <1>13. Does(At(t1, s2), Nullable("sessions", "consent_id"), At(t1, s2))
    <2>1. IsTable(s2)
      BY <1>s1, <1>s2 DEF IsTable, Minus, Plus, Sessions12
    <2>2. /\ "consent_id" \in DOMAIN s2
          /\ s2["consent_id"] = Req("uuid") \/ s2["consent_id"] = Opt("uuid")
          /\ s2["consent_id"] = Opt("uuid")
      BY <1>s1, <1>s2 DEF Minus, Plus, Sessions12
    <2> QED
      BY <1>1, <2>1, <2>2, Frees
  <1>14. Does(At(t1, s2), Alter("sessions", "token_family_id", "ty", "varchar"), At(t1, s2))
    <2>1. IsTable(s2)
      BY <1>s1, <1>s2 DEF IsTable, Minus, Plus, Sessions12
    <2>2. /\ "token_family_id" \in DOMAIN s2
          /\ s2["token_family_id"] = Req("varchar")
      BY <1>s1, <1>s2 DEF Minus, Plus, Sessions12
    <2> QED
      BY <1>1, <2>1, <2>2, Retypes
  <1>15. Does(At(t1, s2), NotNull("sessions", "token_family_id"), At(t1, s2))
    <2>1. IsTable(s2)
      BY <1>s1, <1>s2 DEF IsTable, Minus, Plus, Sessions12
    <2>2. /\ "token_family_id" \in DOMAIN s2
          /\ s2["token_family_id"] = Req("varchar") \/ s2["token_family_id"] = Opt("varchar")
          /\ s2["token_family_id"] = Req("varchar")
      BY <1>s1, <1>s2 DEF Minus, Plus, Sessions12
    <2> QED
      BY <1>1, <2>1, <2>2, Requires
  <1>16. Does(At(t1, s2), NotNull("sessions", "expires_at"), At(t1, s2))
    <2>1. IsTable(s2)
      BY <1>s1, <1>s2 DEF IsTable, Minus, Plus, Sessions12
    <2>2. /\ "expires_at" \in DOMAIN s2
          /\ s2["expires_at"] = Req("timestamp") \/ s2["expires_at"] = Opt("timestamp")
          /\ s2["expires_at"] = Req("timestamp")
      BY <1>s1, <1>s2 DEF Minus, Plus, Sessions12
    <2> QED
      BY <1>1, <2>1, <2>2, Requires
  <1>17. Does(At(t1, s2), DropIf("sessions", "session_count"), At(t1, s2))
    <2>1. "session_count" \notin DOMAIN s2
      BY <1>s1, <1>s2 DEF Minus, Plus, Sessions12
    <2> QED
      BY <1>1, <2>1, DropsNothing
  <1>18. Does(At(t1, s2), DropIf("sessions", "token_id"), At(t1, s2))
    <2>1. "token_id" \notin DOMAIN s2
      BY <1>s1, <1>s2 DEF Minus, Plus, Sessions12
    <2> QED
      BY <1>1, <2>1, DropsNothing
  <1>19. Does(At(t1, s2), Add("sessions", "FK_085d54", Cascade("user_id", "user")), At(t1, s3))
    <2>1. /\ "FK_085d54" \notin DOMAIN s2
          /\ "user_id" \in DOMAIN s2
          /\ s2["user_id"].ty = "uuid"
      BY <1>s1, <1>s2, Types DEF Minus, Plus, Sessions12
    <2>2. /\ "id" \in DOMAIN User8
          /\ User8["id"].ty = "uuid"
      BY DEF User8, Def, Req, Column, Unique
    <2> QED
      BY <1>1, <1>s3, <2>1, <2>2, AddsCascade DEF Plus
  <1>20. Does(At(t1, s3), Add("sessions", "FK_3b579c", Cascade("consent_id", "consent")),
             At(t1, s4))
    <2>1. /\ "FK_3b579c" \notin DOMAIN s3
          /\ "consent_id" \in DOMAIN s3
          /\ s3["consent_id"].ty = "uuid"
      BY <1>s1, <1>s2, <1>s3, Types DEF Minus, Plus, Sessions12
    <2>2. /\ "id" \in DOMAIN Consent10
          /\ Consent10["id"].ty = "uuid"
      BY DEF Consent10, Def, Opt, Req, Column, Cascade, References
    <2> QED
      BY <1>1, <1>s4, <2>1, <2>2, AddsCascade DEF Plus
  <1> QED
    BY <1>2, <1>5, <1>6, <1>7, <1>8, <1>9, <1>10, <1>11, <1>12, <1>13, <1>14, <1>15, <1>16,
       <1>17, <1>18, <1>19, <1>20, Path15
       DEF SessionWithoutToken

LEMMA SessionWithoutTokenReverts == Leads(Level13, SessionWithoutToken.down, Level12Undone)
  <1> DEFINE At(t, s) == Sessioned(User8, Client9, Grant6, Consent10, t, s)
  <1>1. \A t, s :
           /\ DOMAIN At(t, s) = {"user", "client", "user_client_consent", "consent", "token",
                              "sessions"}
           /\ At(t, s)["user"] = User8
           /\ At(t, s)["consent"] = Consent10
           /\ At(t, s)["token"] = t
           /\ At(t, s)["sessions"] = s
           /\ \A r : Put(At(t, s), "token", r) = At(r, s)
           /\ \A r : Put(At(t, s), "sessions", r) = At(t, r)
    BY DEF Put, Sessioned
  <1>2. At(Token12, Sessions12) = Level13
    BY DEF Level13
  <1>s1. PICK s1 : Minus(s1, Sessions12, "FK_3b579c")
    BY Edits
  <1>s2. PICK s2 : Minus(s2, s1, "FK_085d54")
    BY Edits
  <1>s3. PICK s3 : Plus(s3, s2, "token_family_id", Req("uuid"))
    BY Edits
  <1>s4. PICK s4 : Plus(s4, s3, "consent_id", Req("uuid"))
    BY Edits
  <1>t1. PICK t1 : Plus(t1, Token12, "UQ_eb1888", Unique("token_family_id"))
    BY Edits
  <1>s5. PICK s5 : Plus(s5, s4, "UQ_b99aa5", Unique("token_family_id"))
    BY Edits
  <1>s6. PICK s6 : Plus(s6, s5, "FK_b99aa5", References("token_family_id", "token",
             "token_family_id", "cascade"))
    BY Edits
  <1>s7. PICK s7 : Plus(s7, s6, "FK_085d54", References("user_id", "user", "id", "noAction"))
    BY Edits
  <1>s8. PICK s8 : Plus(s8, s7, "FK_3b579c", References("consent_id", "consent", "id", "noAction"))
    BY Edits
  <1>3. t1 = TokenKeyed12
    <2>1. IsTable(t1) /\ IsTable(TokenKeyed12)
      BY <1>t1 DEF Minus, Plus, IsTable, TokenKeyed12
    <2>2. DOMAIN t1 = DOMAIN TokenKeyed12
      BY <1>t1 DEF Minus, Plus, Token12, TokenKeyed12
    <2>3. \A x \in DOMAIN t1 : t1[x] = TokenKeyed12[x]
      BY <1>t1, <2>2 DEF Minus, Plus, Token12, TokenKeyed12
    <2> QED
      BY <2>1, <2>2, <2>3, SameTable
  <1>4. s8 = SessionsUndone
    <2>1. IsTable(s8) /\ IsTable(SessionsUndone)
      BY <1>s8 DEF Minus, Plus, IsTable, SessionsUndone
    <2>2. DOMAIN s8 = DOMAIN SessionsUndone
      BY <1>s1, <1>s2, <1>s3, <1>s4, <1>s5, <1>s6, <1>s7, <1>s8
         DEF Minus, Plus, Sessions12, SessionsUndone
    <2>3. \A x \in DOMAIN s8 : s8[x] = SessionsUndone[x]
      BY <1>s1, <1>s2, <1>s3, <1>s4, <1>s5, <1>s6, <1>s7, <1>s8, <2>2
         DEF Minus, Plus, Sessions12, SessionsUndone
    <2> QED
      BY <2>1, <2>2, <2>3, SameTable
  <1>5. At(t1, s8) = Level12Undone
    BY <1>3, <1>4 DEF Level12Undone
  <1> HIDE DEF At
  <1>6. Does(At(Token12, Sessions12), DropIf("sessions", "FK_3b579c"), At(Token12, s1))
    <2>1. /\ "FK_3b579c" \in DOMAIN Sessions12
          /\ Sessions12["FK_3b579c"].kind = "fk"
      BY DEF Sessions12, Def, Opt, Req, Dated, Column, Cascade, References
    <2> QED
      BY <1>1, <1>s1, <2>1, DropsKey DEF Minus
  <1>7. Does(At(Token12, s1), DropIf("sessions", "FK_085d54"), At(Token12, s2))
    <2>1. /\ "FK_085d54" \in DOMAIN s1
          /\ s1["FK_085d54"].kind = "fk"
      BY <1>s1, Kinds DEF Minus, Plus, Sessions12
    <2> QED
      BY <1>1, <1>s2, <2>1, DropsKey DEF Minus
  <1>8. Does(At(Token12, s2), Alter("sessions", "token_family_id", "ty", "uuid"), At(Token12, s3))
    <2>1. IsTable(s2)
      BY <1>s1, <1>s2 DEF IsTable, Minus, Plus, Sessions12
    <2>2. /\ "token_family_id" \in DOMAIN s2
          /\ s2["token_family_id"] = Req("varchar")
      BY <1>s1, <1>s2 DEF Minus, Plus, Sessions12
    <2> QED
      BY <1>1, <1>s3, <2>1, <2>2, Retypes DEF Plus
  <1>9. Does(At(Token12, s3), NotNull("sessions", "consent_id"), At(Token12, s4))
    <2>1. IsTable(s3)
      BY <1>s1, <1>s2, <1>s3 DEF IsTable, Minus, Plus, Sessions12
    <2>2. /\ "consent_id" \in DOMAIN s3
          /\ s3["consent_id"] = Req("uuid") \/ s3["consent_id"] = Opt("uuid")
      BY <1>s1, <1>s2, <1>s3 DEF Minus, Plus, Sessions12
    <2> QED
      BY <1>1, <1>s4, <2>1, <2>2, Requires DEF Plus
  <1>10. Does(At(Token12, s4), Add("token", "UQ_eb1888", Unique("token_family_id")), At(t1, s4))
    <2>1. /\ "UQ_eb1888" \notin DOMAIN Token12
          /\ "token_family_id" \in DOMAIN Token12
      BY DEF Token12
    <2> QED
      BY <1>1, <1>t1, <2>1, AddsUnique DEF Plus
  <1>11. Does(At(t1, s4), Add("sessions", "UQ_b99aa5", Unique("token_family_id")), At(t1, s5))
    <2>1. /\ "UQ_b99aa5" \notin DOMAIN s4
          /\ "token_family_id" \in DOMAIN s4
      BY <1>s1, <1>s2, <1>s3, <1>s4 DEF Minus, Plus, Sessions12
    <2> QED
      BY <1>1, <1>s5, <2>1, AddsUnique DEF Plus
  <1>12. Does(At(t1, s5), Add("sessions", "FK_b99aa5", References("token_family_id", "token",
             "token_family_id", "cascade")),
             At(t1, s6))
    <2>1. /\ "FK_b99aa5" \notin DOMAIN s5
          /\ "token_family_id" \in DOMAIN s5
          /\ s5["token_family_id"].ty = "uuid"
      BY <1>s1, <1>s2, <1>s3, <1>s4, <1>s5, Types DEF Minus, Plus, Sessions12
    <2>2. /\ "token_family_id" \in DOMAIN t1
          /\ t1["token_family_id"].ty = "uuid"
      BY <1>t1, Types DEF Minus, Plus, Token12
    <2>3. /\ "UQ_eb1888" \in DOMAIN t1
          /\ t1["UQ_eb1888"] = Unique("token_family_id")
      BY <1>t1 DEF Minus, Plus, Token12
    <2> QED
      BY <1>1, <1>s6, <2>1, <2>2, <2>3, AddsKey DEF Plus, IsUnique
  <1>13. Does(At(t1, s6), Add("sessions", "FK_085d54", References("user_id", "user", "id",
             "noAction")),
             At(t1, s7))
    <2>1. /\ "FK_085d54" \notin DOMAIN s6
          /\ "user_id" \in DOMAIN s6
          /\ s6["user_id"].ty = "uuid"
      BY <1>s1, <1>s2, <1>s3, <1>s4, <1>s5, <1>s6, Types DEF Minus, Plus, Sessions12
    <2>2. /\ "id" \in DOMAIN User8
          /\ User8["id"].ty = "uuid"
      BY DEF User8, Def, Req, Column, Unique
    <2> QED
      BY <1>1, <1>s7, <2>1, <2>2, AddsKey DEF Plus, IsUnique
  <1>14. Does(At(t1, s7), Add("sessions", "FK_3b579c", References("consent_id", "consent",
             "id", "noAction")),
             At(t1, s8))
    <2>1. /\ "FK_3b579c" \notin DOMAIN s7
          /\ "consent_id" \in DOMAIN s7
          /\ s7["consent_id"].ty = "uuid"
      BY <1>s1, <1>s2, <1>s3, <1>s4, <1>s5, <1>s6, <1>s7, Types DEF Minus, Plus, Sessions12
    <2>2. /\ "id" \in DOMAIN Consent10
          /\ Consent10["id"].ty = "uuid"
      BY DEF Consent10, Def, Opt, Req, Column, Cascade, References
    <2> QED
      BY <1>1, <1>s8, <2>1, <2>2, AddsKey DEF Plus, IsUnique
  <1> QED
    BY <1>2, <1>5, <1>6, <1>7, <1>8, <1>9, <1>10, <1>11, <1>12, <1>13, <1>14, Path9
       DEF SessionWithoutToken

\* 14. Expiry with a time zone, and marks of deletion.
LEMMA DeletedAtRuns == Leads(Level13, DeletedAt.up, Level14)
  <1> DEFINE At(t, s) == Sessioned(User8, Client9, Grant6, Consent10, t, s)
  <1>1. \A t, s :
           /\ DOMAIN At(t, s) = {"user", "client", "user_client_consent", "consent", "token",
                              "sessions"}
           /\ At(t, s)["token"] = t
           /\ At(t, s)["sessions"] = s
           /\ \A r : Put(At(t, s), "token", r) = At(r, s)
           /\ \A r : Put(At(t, s), "sessions", r) = At(t, r)
    BY DEF Put, Sessioned
  <1>2. At(Token12, Sessions12) = Level13
    BY DEF Level13
  <1>t1. PICK t1 : Minus(t1, Token12, "expiresAt")
    BY Edits
  <1>s1. PICK s1 : Plus(s1, Sessions12, "deleted_at", Opt("timestamptz"))
    BY Edits
  <1>t2. PICK t2 : Plus(t2, t1, "expires_at", Req("timestamptz"))
    BY Edits
  <1>t3. PICK t3 : Plus(t3, t2, "deleted_at", Opt("timestamptz"))
    BY Edits
  <1>3. t3 = Token14
    <2>1. IsTable(t3) /\ IsTable(Token14)
      BY <1>t3 DEF Minus, Plus, IsTable, Token14
    <2>2. DOMAIN t3 = DOMAIN Token14
      BY <1>t1, <1>t2, <1>t3 DEF Minus, Plus, Token12, Token14
    <2>3. \A x \in DOMAIN t3 : t3[x] = Token14[x]
      BY <1>t1, <1>t2, <1>t3, <2>2 DEF Minus, Plus, Token12, Token14
    <2> QED
      BY <2>1, <2>2, <2>3, SameTable
  <1>4. s1 = Sessions14
    <2>1. IsTable(s1) /\ IsTable(Sessions14)
      BY <1>s1 DEF Minus, Plus, IsTable, Sessions14
    <2>2. DOMAIN s1 = DOMAIN Sessions14
      BY <1>s1 DEF Minus, Plus, Sessions12, Sessions14
    <2>3. \A x \in DOMAIN s1 : s1[x] = Sessions14[x]
      BY <1>s1, <2>2 DEF Minus, Plus, Sessions12, Sessions14
    <2> QED
      BY <2>1, <2>2, <2>3, SameTable
  <1>5. At(t3, s1) = Level14
    BY <1>3, <1>4 DEF Level14
  <1> HIDE DEF At
  <1>6. Does(At(Token12, Sessions12), Drop("token", "expiresAt"), At(t1, Sessions12))
    <2>1. /\ "expiresAt" \in DOMAIN Token12
          /\ Token12["expiresAt"].kind = "column"
      BY DEF Token12, Def, Opt, Req, Column, Cascade, References, Unique
    <2>2. \A m \in DOMAIN Token12 : Token12[m].kind # "column" => Token12[m].on # "expiresAt"
      BY DEF Token12, Def, Opt, Req, Column, Cascade, References, Unique
    <2> QED
      BY <1>1, <1>t1, <2>1, <2>2, DropsColumn DEF Minus
  <1>7. Does(At(t1, Sessions12), Add("sessions", "deleted_at", Opt("timestamptz")), At(t1, s1))
    <2>1. "deleted_at" \notin DOMAIN Sessions12
      BY DEF Sessions12
    <2> QED
      BY <1>1, <1>s1, <2>1, AddsColumn, Kinds DEF Plus
  <1>8. Does(At(t1, s1), Add("token", "expires_at", Req("timestamptz")), At(t2, s1))
    <2>1. "expires_at" \notin DOMAIN t1
      BY <1>t1 DEF Minus, Plus, Token12
    <2> QED
      BY <1>1, <1>t2, <2>1, AddsColumn, Kinds DEF Plus
  <1>9. Does(At(t2, s1), Add("token", "deleted_at", Opt("timestamptz")), At(t3, s1))
    <2>1. "deleted_at" \notin DOMAIN t2
      BY <1>t1, <1>t2 DEF Minus, Plus, Token12
    <2> QED
      BY <1>1, <1>t3, <2>1, AddsColumn, Kinds DEF Plus
  <1> QED
    BY <1>2, <1>5, <1>6, <1>7, <1>8, <1>9, Path4 DEF DeletedAt

LEMMA DeletedAtReverts == Leads(Level14, DeletedAt.down, Level13)
  <1> DEFINE At(t, s) == Sessioned(User8, Client9, Grant6, Consent10, t, s)
  <1>1. \A t, s :
           /\ DOMAIN At(t, s) = {"user", "client", "user_client_consent", "consent", "token",
                              "sessions"}
           /\ At(t, s)["token"] = t
           /\ At(t, s)["sessions"] = s
           /\ \A r : Put(At(t, s), "token", r) = At(r, s)
           /\ \A r : Put(At(t, s), "sessions", r) = At(t, r)
    BY DEF Put, Sessioned
  <1>2. At(Token14, Sessions14) = Level14
    BY DEF Level14
  <1>t1. PICK t1 : Minus(t1, Token14, "deleted_at")
    BY Edits
  <1>t2. PICK t2 : Minus(t2, t1, "expires_at")
    BY Edits
  <1>s1. PICK s1 : Minus(s1, Sessions14, "deleted_at")
    BY Edits
  <1>t3. PICK t3 : Plus(t3, t2, "expiresAt", Req("timestamp"))
    BY Edits
  <1>3. t3 = Token12
    <2>1. IsTable(t3) /\ IsTable(Token12)
      BY <1>t3 DEF Minus, Plus, IsTable, Token12
    <2>2. DOMAIN t3 = DOMAIN Token12
      BY <1>t1, <1>t2, <1>t3 DEF Minus, Plus, Token14, Token12
    <2>3. \A x \in DOMAIN t3 : t3[x] = Token12[x]
      BY <1>t1, <1>t2, <1>t3, <2>2 DEF Minus, Plus, Token14, Token12
    <2> QED
      BY <2>1, <2>2, <2>3, SameTable
  <1>4. s1 = Sessions12
    <2>1. IsTable(s1) /\ IsTable(Sessions12)
      BY <1>s1 DEF Minus, Plus, IsTable, Sessions12
    <2>2. DOMAIN s1 = DOMAIN Sessions12
      BY <1>s1 DEF Minus, Plus, Sessions14, Sessions12
    <2>3. \A x \in DOMAIN s1 : s1[x] = Sessions12[x]
      BY <1>s1, <2>2 DEF Minus, Plus, Sessions14, Sessions12
    <2> QED
      BY <2>1, <2>2, <2>3, SameTable
  <1>5. At(t3, s1) = Level13
    BY <1>3, <1>4 DEF Level13
  <1> HIDE DEF At
  <1>6. Does(At(Token14, Sessions14), Drop("token", "deleted_at"), At(t1, Sessions14))
    <2>1. /\ "deleted_at" \in DOMAIN Token14
          /\ Token14["deleted_at"].kind = "column"
      BY DEF Token14, Def, Opt, Req, Column, Cascade, References, Unique
    <2>2. \A m \in DOMAIN Token14 : Token14[m].kind # "column" => Token14[m].on # "deleted_at"
      BY DEF Token14, Def, Opt, Req, Column, Cascade, References, Unique
    <2> QED
      BY <1>1, <1>t1, <2>1, <2>2, DropsColumn DEF Minus
  <1>7. Does(At(t1, Sessions14), Drop("token", "expires_at"), At(t2, Sessions14))
    <2>1. /\ "expires_at" \in DOMAIN t1
          /\ t1["expires_at"].kind = "column"
      BY <1>t1, Kinds DEF Minus, Plus, Token14
    <2>2. \A m \in DOMAIN t1 : t1[m].kind # "column" => t1[m].on # "expires_at"
      BY <1>t1, Kinds DEF Minus, Plus, Token14
    <2> QED
      BY <1>1, <1>t2, <2>1, <2>2, DropsColumn DEF Minus
  <1>8. Does(At(t2, Sessions14), Drop("sessions", "deleted_at"), At(t2, s1))
    <2>1. /\ "deleted_at" \in DOMAIN Sessions14
          /\ Sessions14["deleted_at"].kind = "column"
      BY DEF Sessions14, Def, Opt, Req, Dated, Column, Cascade, References
    <2>2. \A m \in DOMAIN Sessions14 : Sessions14[m].kind # "column" =>
              Sessions14[m].on # "deleted_at"
      BY DEF Sessions14, Def, Opt, Req, Dated, Column, Cascade, References
    <2> QED
      BY <1>1, <1>s1, <2>1, <2>2, DropsColumn DEF Minus
  <1>9. Does(At(t2, s1), Add("token", "expiresAt", Req("timestamp")), At(t3, s1))
    <2>1. "expiresAt" \notin DOMAIN t2
      BY <1>t1, <1>t2 DEF Minus, Plus, Token14
    <2> QED
      BY <1>1, <1>t3, <2>1, AddsColumn, Kinds DEF Plus
  <1> QED
    BY <1>2, <1>5, <1>6, <1>7, <1>8, <1>9, Path4 DEF DeletedAt

\* 15. Security events and their two types.
LEMMA SecurityEventTableRuns == Leads(Level14, SecurityEventTable.up, Level15)
  <1> DEFINE At1 == Sessioned(User8, Client9, Grant6, Consent10, Token14, Sessions14)
  <1>        At2 == [user |-> User8, client |-> Client9, user_client_consent |-> Grant6,
                     consent |-> Consent10, token |-> Token14, sessions |-> Sessions14,
                     security_event_type_enum |-> <<>>]
  <1>        At3 == [user |-> User8, client |-> Client9, user_client_consent |-> Grant6,
                     consent |-> Consent10, token |-> Token14, sessions |-> Sessions14,
                     security_event_type_enum |-> <<>>, security_event_severity_enum |-> <<>>]
  <1>        At4 == Recorded(User8, Client9, Grant6, Consent10, Token14, Sessions14,
                 SecurityEvent15)
  <1>1. DOMAIN At1 = {"user", "client", "user_client_consent", "consent", "token",
                              "sessions"}
    BY DEF Put, Sessioned
  <1>2. DOMAIN At2 = {"user", "client", "user_client_consent", "consent", "token",
                              "sessions", "security_event_type_enum"}
    BY DEF Put
  <1>3. DOMAIN At3 = {"user", "client", "user_client_consent", "consent", "token",
                              "sessions", "security_event_type_enum",
                              "security_event_severity_enum"}
    BY DEF Put
  <1>4. DOMAIN At4 = {"user", "client", "user_client_consent", "consent", "token",
                              "sessions", "security_event", "security_event_type_enum",
                              "security_event_severity_enum"}
    BY DEF Put, Recorded
  <1>5. With(At1, "security_event_type_enum", <<>>) = At2
    BY DEF With, Sessioned
  <1>6. With(At2, "security_event_severity_enum", <<>>) = At3
    BY DEF With
  <1>7. With(At3, "security_event", SecurityEvent15) = At4
    BY DEF With, Recorded
  <1>8. At1 = Level14
    BY DEF Level14
  <1>9. At4 = Level15
    BY DEF Level15
  <1> HIDE DEF At1, At2, At3, At4
  <1>10. Does(At1, Create("security_event_type_enum", <<>>), At2)
    <2>1. "security_event_type_enum" \notin DOMAIN At1
      BY <1>1
    <2> QED
      BY <1>1, <2>1, <1>5, Creates
  <1>11. Does(At2, Create("security_event_severity_enum", <<>>), At3)
    <2>1. "security_event_severity_enum" \notin DOMAIN At2
      BY <1>2
    <2> QED
      BY <1>2, <2>1, <1>6, Creates
  <1>12. Does(At3, Create("security_event", SecurityEvent15), At4)
    <2>1. "security_event" \notin DOMAIN At3
      BY <1>3
    <2> QED
      BY <1>3, <2>1, <1>7, Creates
  <1> QED
    BY <1>8, <1>9, <1>10, <1>11, <1>12, Path3 DEF SecurityEventTable, SecurityEvent15

LEMMA SecurityEventTableReverts == Leads(Level15, SecurityEventTable.down, Level14)
  <1> DEFINE At1 == Recorded(User8, Client9, Grant6, Consent10, Token14, Sessions14,
          SecurityEvent15)
  <1>        At2 == [user |-> User8, client |-> Client9, user_client_consent |-> Grant6,
                     consent |-> Consent10, token |-> Token14, sessions |-> Sessions14,
                     security_event_type_enum |-> <<>>, security_event_severity_enum |-> <<>>]
  <1>        At3 == [user |-> User8, client |-> Client9, user_client_consent |-> Grant6,
                     consent |-> Consent10, token |-> Token14, sessions |-> Sessions14,
                     security_event_type_enum |-> <<>>]
  <1>        At4 == Sessioned(User8, Client9, Grant6, Consent10, Token14, Sessions14)
  <1>1. /\ DOMAIN At1 = {"user", "client", "user_client_consent", "consent", "token",
                              "sessions", "security_event", "security_event_type_enum",
                              "security_event_severity_enum"}
        /\ At1["user"] = User8
        /\ At1["client"] = Client9
        /\ At1["user_client_consent"] = Grant6
        /\ At1["consent"] = Consent10
        /\ At1["token"] = Token14
        /\ At1["sessions"] = Sessions14
        /\ At1["security_event"] = SecurityEvent15
        /\ DOMAIN At1["security_event_type_enum"] = {}
        /\ DOMAIN At1["security_event_severity_enum"] = {}
    BY DEF Put, Recorded
  <1>2. /\ DOMAIN At2 = {"user", "client", "user_client_consent", "consent", "token",
                              "sessions", "security_event_type_enum",
                              "security_event_severity_enum"}
        /\ At2["user"] = User8
        /\ At2["client"] = Client9
        /\ At2["user_client_consent"] = Grant6
        /\ At2["consent"] = Consent10
        /\ At2["token"] = Token14
        /\ At2["sessions"] = Sessions14
        /\ DOMAIN At2["security_event_type_enum"] = {}
        /\ DOMAIN At2["security_event_severity_enum"] = {}
    BY DEF Put
  <1>3. /\ DOMAIN At3 = {"user", "client", "user_client_consent", "consent", "token",
                              "sessions", "security_event_type_enum"}
        /\ At3["user"] = User8
        /\ At3["client"] = Client9
        /\ At3["user_client_consent"] = Grant6
        /\ At3["consent"] = Consent10
        /\ At3["token"] = Token14
        /\ At3["sessions"] = Sessions14
        /\ DOMAIN At3["security_event_type_enum"] = {}
    BY DEF Put
  <1>4. DOMAIN At4 = {"user", "client", "user_client_consent", "consent", "token",
                              "sessions"}
    BY DEF Put, Sessioned
  <1>5. Without(At1, "security_event") = At2
    BY DEF Without, Recorded
  <1>6. Without(At2, "security_event_severity_enum") = At3
    BY DEF Without
  <1>7. Without(At3, "security_event_type_enum") = At4
    BY DEF Without, Sessioned
  <1>8. At1 = Level15
    BY DEF Level15
  <1>9. At4 = Level14
    BY DEF Level14
  <1> HIDE DEF At1, At2, At3, At4
  <1>10. Does(At1, DropTable("security_event"), At2)
    <2>1. \A m \in DOMAIN User8 : User8[m].kind = "fk" => User8[m].table # "security_event"
      BY DEF User8, Def, Req, Column, Unique
    <2>2. \A m \in DOMAIN Client9 : Client9[m].kind = "fk" => Client9[m].table # "security_event"
      BY DEF Client9, Def, Opt, Req, Column, Unique
    <2>3. \A m \in DOMAIN Grant6 : Grant6[m].kind = "fk" => Grant6[m].table # "security_event"
      BY DEF Grant6, Def, Opt, Req, Column, Cascade, References
    <2>4. \A m \in DOMAIN Consent10 : Consent10[m].kind = "fk" =>
              Consent10[m].table # "security_event"
      BY DEF Consent10, Def, Opt, Req, Column, Cascade, References
    <2>5. \A m \in DOMAIN Token14 : Token14[m].kind = "fk" => Token14[m].table # "security_event"
      BY DEF Token14, Def, Opt, Req, Column, Cascade, References, Unique
    <2>6. \A m \in DOMAIN Sessions14 : Sessions14[m].kind = "fk" =>
              Sessions14[m].table # "security_event"
      BY DEF Sessions14, Def, Opt, Req, Dated, Column, Cascade, References
    <2>7. MayDropTable(At1, "security_event")
      BY <1>1, <2>1, <2>2, <2>3, <2>4, <2>5, <2>6 DEF MayDropTable
    <2> QED
      BY <1>1, <2>7, <1>5, DropsTable
  <1>11. Does(At2, DropTable("security_event_severity_enum"), At3)
    <2>1. \A m \in DOMAIN User8 : User8[m].kind = "fk" =>
              User8[m].table # "security_event_severity_enum"
      BY DEF User8, Def, Req, Column, Unique
    <2>2. \A m \in DOMAIN Client9 : Client9[m].kind = "fk" =>
              Client9[m].table # "security_event_severity_enum"
      BY DEF Client9, Def, Opt, Req, Column, Unique
    <2>3. \A m \in DOMAIN Grant6 : Grant6[m].kind = "fk" =>
              Grant6[m].table # "security_event_severity_enum"
      BY DEF Grant6, Def, Opt, Req, Column, Cascade, References
    <2>4. \A m \in DOMAIN Consent10 : Consent10[m].kind = "fk" =>
              Consent10[m].table # "security_event_severity_enum"
      BY DEF Consent10, Def, Opt, Req, Column, Cascade, References
    <2>5. \A m \in DOMAIN Token14 : Token14[m].kind = "fk" =>
              Token14[m].table # "security_event_severity_enum"
      BY DEF Token14, Def, Opt, Req, Column, Cascade, References, Unique
    <2>6. \A m \in DOMAIN Sessions14 : Sessions14[m].kind = "fk" =>
              Sessions14[m].table # "security_event_severity_enum"
      BY DEF Sessions14, Def, Opt, Req, Dated, Column, Cascade, References
    <2>7. MayDropTable(At2, "security_event_severity_enum")
      BY <1>2, <2>1, <2>2, <2>3, <2>4, <2>5, <2>6 DEF MayDropTable
    <2> QED
      BY <1>2, <2>7, <1>6, DropsTable
  <1>12. Does(At3, DropTable("security_event_type_enum"), At4)
    <2>1. \A m \in DOMAIN User8 : User8[m].kind = "fk" =>
              User8[m].table # "security_event_type_enum"
      BY DEF User8, Def, Req, Column, Unique
    <2>2. \A m \in DOMAIN Client9 : Client9[m].kind = "fk" =>
              Client9[m].table # "security_event_type_enum"
      BY DEF Client9, Def, Opt, Req, Column, Unique
    <2>3. \A m \in DOMAIN Grant6 : Grant6[m].kind = "fk" =>
              Grant6[m].table # "security_event_type_enum"
      BY DEF Grant6, Def, Opt, Req, Column, Cascade, References
    <2>4. \A m \in DOMAIN Consent10 : Consent10[m].kind = "fk" =>
              Consent10[m].table # "security_event_type_enum"
      BY DEF Consent10, Def, Opt, Req, Column, Cascade, References
    <2>5. \A m \in DOMAIN Token14 : Token14[m].kind = "fk" =>
              Token14[m].table # "security_event_type_enum"
      BY DEF Token14, Def, Opt, Req, Column, Cascade, References, Unique
    <2>6. \A m \in DOMAIN Sessions14 : Sessions14[m].kind = "fk" =>
              Sessions14[m].table # "security_event_type_enum"
      BY DEF Sessions14, Def, Opt, Req, Dated, Column, Cascade, References
    <2>7. MayDropTable(At3, "security_event_type_enum")
      BY <1>3, <2>1, <2>2, <2>3, <2>4, <2>5, <2>6 DEF MayDropTable
    <2> QED
      BY <1>3, <2>7, <1>7, DropsTable
  <1> QED
    BY <1>8, <1>9, <1>10, <1>11, <1>12, Path3 DEF SecurityEventTable

\* 16. A default for their ids.
LEMMA SecurityEventIdRuns == Leads(Level15, SecurityEventId.up, Level16)
  <1> DEFINE At(e) == Recorded(User8, Client9, Grant6, Consent10, Token14, Sessions14, e)
  <1>1. \A e :
           /\ DOMAIN At(e) = {"user", "client", "user_client_consent", "consent", "token",
                              "sessions", "security_event", "security_event_type_enum",
                              "security_event_severity_enum"}
           /\ At(e)["security_event"] = e
           /\ \A r : Put(At(e), "security_event", r) = At(r)
    BY DEF Put, Recorded
  <1>2. At(SecurityEvent15) = Level15
    BY DEF Level15
  <1>e1. PICK e1 : Plus(e1, SecurityEvent15, "id", Def("uuid"))
    BY Edits
  <1>3. e1 = SecurityEvent16
    <2>1. IsTable(e1) /\ IsTable(SecurityEvent16)
      BY <1>e1 DEF Minus, Plus, IsTable, SecurityEvent16
    <2>2. DOMAIN e1 = DOMAIN SecurityEvent16
      BY <1>e1 DEF Minus, Plus, SecurityEvent15, SecurityEvent16
    <2>3. \A x \in DOMAIN e1 : e1[x] = SecurityEvent16[x]
      BY <1>e1, <2>2 DEF Minus, Plus, SecurityEvent15, SecurityEvent16
    <2> QED
      BY <2>1, <2>2, <2>3, SameTable
  <1>4. At(e1) = Level16
    BY <1>3 DEF Level16
  <1> HIDE DEF At
  <1>5. Does(At(SecurityEvent15), SetDefault("security_event", "id"), At(e1))
    <2>1. IsTable(SecurityEvent15)
      BY DEF IsTable, SecurityEvent15
    <2>2. /\ "id" \in DOMAIN SecurityEvent15
          /\ SecurityEvent15["id"] = Req("uuid")
      BY DEF SecurityEvent15
    <2> QED
      BY <1>1, <1>e1, <2>1, <2>2, SetsValue DEF Plus
  <1> QED
    BY <1>2, <1>4, <1>5, Path1 DEF SecurityEventId, SetDefault

LEMMA SecurityEventIdReverts == Leads(Level16, SecurityEventId.down, Level15)
  <1> DEFINE At(e) == Recorded(User8, Client9, Grant6, Consent10, Token14, Sessions14, e)
  <1>1. \A e :
           /\ DOMAIN At(e) = {"user", "client", "user_client_consent", "consent", "token",
                              "sessions", "security_event", "security_event_type_enum",
                              "security_event_severity_enum"}
           /\ At(e)["security_event"] = e
           /\ \A r : Put(At(e), "security_event", r) = At(r)
    BY DEF Put, Recorded
  <1>2. At(SecurityEvent16) = Level16
    BY DEF Level16
  <1>e1. PICK e1 : Plus(e1, SecurityEvent16, "id", Req("uuid"))
    BY Edits
  <1>3. e1 = SecurityEvent15
    <2>1. IsTable(e1) /\ IsTable(SecurityEvent15)
      BY <1>e1 DEF Minus, Plus, IsTable, SecurityEvent15
    <2>2. DOMAIN e1 = DOMAIN SecurityEvent15
      BY <1>e1 DEF Minus, Plus, SecurityEvent16, SecurityEvent15
    <2>3. \A x \in DOMAIN e1 : e1[x] = SecurityEvent15[x]
      BY <1>e1, <2>2 DEF Minus, Plus, SecurityEvent16, SecurityEvent15
    <2> QED
      BY <2>1, <2>2, <2>3, SameTable
  <1>4. At(e1) = Level15
    BY <1>3 DEF Level15
  <1> HIDE DEF At
  <1>5. Does(At(SecurityEvent16), DropDefault("security_event", "id"), At(e1))
    <2>1. IsTable(SecurityEvent16)
      BY DEF IsTable, SecurityEvent16
    <2>2. /\ "id" \in DOMAIN SecurityEvent16
          /\ SecurityEvent16["id"] = Def("uuid")
      BY DEF SecurityEvent16
    <2> QED
      BY <1>1, <1>e1, <2>1, <2>2, DropsValue DEF Plus
  <1> QED
    BY <1>2, <1>4, <1>5, Path1 DEF SecurityEventId, DropDefault

\* 17. Their email becomes optional.
LEMMA SecurityEventEmailRuns == Leads(Level16, SecurityEventEmail.up, Level17)
  <1> DEFINE At(e) == Recorded(User8, Client9, Grant6, Consent10, Token14, Sessions14, e)
  <1>1. \A e :
           /\ DOMAIN At(e) = {"user", "client", "user_client_consent", "consent", "token",
                              "sessions", "security_event", "security_event_type_enum",
                              "security_event_severity_enum"}
           /\ At(e)["security_event"] = e
           /\ \A r : Put(At(e), "security_event", r) = At(r)
    BY DEF Put, Recorded
  <1>2. At(SecurityEvent16) = Level16
    BY DEF Level16
  <1>e1. PICK e1 : Plus(e1, SecurityEvent16, "email", Opt("varchar"))
    BY Edits
  <1>3. e1 = SecurityEvent17
    <2>1. IsTable(e1) /\ IsTable(SecurityEvent17)
      BY <1>e1 DEF Minus, Plus, IsTable, SecurityEvent17
    <2>2. DOMAIN e1 = DOMAIN SecurityEvent17
      BY <1>e1 DEF Minus, Plus, SecurityEvent16, SecurityEvent17
    <2>3. \A x \in DOMAIN e1 : e1[x] = SecurityEvent17[x]
      BY <1>e1, <2>2 DEF Minus, Plus, SecurityEvent16, SecurityEvent17
    <2> QED
      BY <2>1, <2>2, <2>3, SameTable
  <1>4. At(e1) = Level17
    BY <1>3 DEF Level17
  <1> HIDE DEF At
  <1>5. Does(At(SecurityEvent16), Nullable("security_event", "email"), At(e1))
    <2>1. IsTable(SecurityEvent16)
      BY DEF IsTable, SecurityEvent16
    <2>2. /\ "email" \in DOMAIN SecurityEvent16
          /\ SecurityEvent16["email"] = Req("varchar") \/ SecurityEvent16["email"] = Opt("varchar")
      BY DEF SecurityEvent16
    <2> QED
      BY <1>1, <1>e1, <2>1, <2>2, Frees DEF Plus
  <1> QED
    BY <1>2, <1>4, <1>5, Path1 DEF SecurityEventEmail

LEMMA SecurityEventEmailReverts == Leads(Level17, SecurityEventEmail.down, Level16)
  <1> DEFINE At(e) == Recorded(User8, Client9, Grant6, Consent10, Token14, Sessions14, e)
  <1>1. \A e :
           /\ DOMAIN At(e) = {"user", "client", "user_client_consent", "consent", "token",
                              "sessions", "security_event", "security_event_type_enum",
                              "security_event_severity_enum"}
           /\ At(e)["security_event"] = e
           /\ \A r : Put(At(e), "security_event", r) = At(r)
    BY DEF Put, Recorded
  <1>2. At(SecurityEvent17) = Level17
    BY DEF Level17
  <1>e1. PICK e1 : Plus(e1, SecurityEvent17, "email", Req("varchar"))
    BY Edits
  <1>3. e1 = SecurityEvent16
    <2>1. IsTable(e1) /\ IsTable(SecurityEvent16)
      BY <1>e1 DEF Minus, Plus, IsTable, SecurityEvent16
    <2>2. DOMAIN e1 = DOMAIN SecurityEvent16
      BY <1>e1 DEF Minus, Plus, SecurityEvent17, SecurityEvent16
    <2>3. \A x \in DOMAIN e1 : e1[x] = SecurityEvent16[x]
      BY <1>e1, <2>2 DEF Minus, Plus, SecurityEvent17, SecurityEvent16
    <2> QED
      BY <2>1, <2>2, <2>3, SameTable
  <1>4. At(e1) = Level16
    BY <1>3 DEF Level16
  <1> HIDE DEF At
  <1>5. Does(At(SecurityEvent17), NotNull("security_event", "email"), At(e1))
    <2>1. IsTable(SecurityEvent17)
      BY DEF IsTable, SecurityEvent17
    <2>2. /\ "email" \in DOMAIN SecurityEvent17
          /\ SecurityEvent17["email"] = Req("varchar") \/ SecurityEvent17["email"] = Opt("varchar")
      BY DEF SecurityEvent17
    <2> QED
      BY <1>1, <1>e1, <2>1, <2>2, Requires DEF Plus
  <1> QED
    BY <1>2, <1>4, <1>5, Path1 DEF SecurityEventEmail

\* 18. Their type gets a label.
LEMMA SecurityEventLabelsRuns == Leads(Level17, SecurityEventLabels.up, Level18)
  <1> DEFINE At1(e) == Recorded(User8, Client9, Grant6, Consent10, Token14, Sessions14, e)
  <1>        At2(e) == [user |-> User8, client |-> Client9, user_client_consent |-> Grant6,
                        consent |-> Consent10, token |-> Token14, sessions |-> Sessions14,
                        security_event |-> e, security_event_severity_enum |-> <<>>,
                        security_event_type_enum_old |-> <<>>]
  <1>        At3(e) == [user |-> User8, client |-> Client9, user_client_consent |-> Grant6,
                        consent |-> Consent10, token |-> Token14, sessions |-> Sessions14,
                        security_event |-> e, security_event_type_enum |-> <<>>,
                        security_event_severity_enum |-> <<>>,
                        security_event_type_enum_old |-> <<>>]
  <1>1. \A e :
           /\ DOMAIN At1(e) = {"user", "client", "user_client_consent", "consent", "token",
                              "sessions", "security_event", "security_event_type_enum",
                              "security_event_severity_enum"}
           /\ At1(e)["user"] = User8
           /\ At1(e)["client"] = Client9
           /\ At1(e)["user_client_consent"] = Grant6
           /\ At1(e)["consent"] = Consent10
           /\ At1(e)["token"] = Token14
           /\ At1(e)["sessions"] = Sessions14
           /\ At1(e)["security_event"] = e
    BY DEF Put, Recorded
  <1>2. \A e :
           DOMAIN At2(e) = {"user", "client", "user_client_consent", "consent", "token",
                              "sessions", "security_event", "security_event_severity_enum",
                              "security_event_type_enum_old"}
    BY DEF Put
  <1>3. \A e :
           /\ DOMAIN At3(e) = {"user", "client", "user_client_consent", "consent", "token",
                              "sessions", "security_event", "security_event_type_enum",
                              "security_event_severity_enum", "security_event_type_enum_old"}
           /\ At3(e)["user"] = User8
           /\ At3(e)["client"] = Client9
           /\ At3(e)["user_client_consent"] = Grant6
           /\ At3(e)["consent"] = Consent10
           /\ At3(e)["token"] = Token14
           /\ At3(e)["sessions"] = Sessions14
           /\ At3(e)["security_event"] = e
           /\ DOMAIN At3(e)["security_event_type_enum"] = {}
           /\ DOMAIN At3(e)["security_event_severity_enum"] = {}
           /\ DOMAIN At3(e)["security_event_type_enum_old"] = {}
           /\ \A r : Put(At3(e), "security_event", r) = At3(r)
    BY DEF Put
  <1> DEFINE Mid(e) == [user |-> User8, client |-> Client9, user_client_consent |-> Grant6,
                    consent |-> Consent10, token |-> Token14, sessions |-> Sessions14,
                    security_event |-> e, security_event_severity_enum |-> <<>>]
  <1>4. \A e : Without(At1(e), "security_event_type_enum") = Mid(e) /\
            At1(e)["security_event_type_enum"] = <<>>
    BY DEF Without, Recorded
  <1>5. \A e : With(Mid(e), "security_event_type_enum_old", <<>>) = At2(e)
    BY DEF With, Recorded
  <1>6. \A e : With(At2(e), "security_event_type_enum", <<>>) = At3(e)
    BY DEF With
  <1>7. \A e : Without(At3(e), "security_event_type_enum_old") = At1(e)
    BY DEF Without, Recorded
  <1>8. At1(SecurityEvent17) = Level17
    BY DEF Level17
  <1>e1. PICK e1 : Plus(e1, SecurityEvent17, "type", Bare(FirstLabels))
    BY Edits
  <1>e2. PICK e2 : Plus(e2, e1, "type", Bare(LaterLabels))
    BY Edits
  <1>e3. PICK e3 : Plus(e3, e2, "type", Enum(LaterLabels))
    BY Edits
  <1>9. e3 = SecurityEvent18
    <2>1. IsTable(e3) /\ IsTable(SecurityEvent18)
      BY <1>e3 DEF Minus, Plus, IsTable, SecurityEvent18
    <2>2. DOMAIN e3 = DOMAIN SecurityEvent18
      BY <1>e1, <1>e2, <1>e3 DEF Minus, Plus, SecurityEvent17, SecurityEvent18
    <2>3. \A x \in DOMAIN e3 : e3[x] = SecurityEvent18[x]
      BY <1>e1, <1>e2, <1>e3, <2>2 DEF Minus, Plus, SecurityEvent17, SecurityEvent18
    <2> QED
      BY <2>1, <2>2, <2>3, SameTable
  <1>10. At1(e3) = Level18
    BY <1>9 DEF Level18
  <1> HIDE DEF At1, At2, At3, Mid
  <1>11. Does(At1(SecurityEvent17), RenameType("security_event_type_enum",
             "security_event_type_enum_old"),
             At2(SecurityEvent17))
    <2>1. /\ "security_event_type_enum" \in DOMAIN At1(SecurityEvent17)
          /\ "security_event_type_enum_old" \notin DOMAIN At1(SecurityEvent17)
      BY <1>1
    <2> QED
      BY <1>1, <2>1, <1>4, <1>5, RenamesType
  <1>12. Does(At2(SecurityEvent17), Create("security_event_type_enum", <<>>),
             At3(SecurityEvent17))
    <2>1. "security_event_type_enum" \notin DOMAIN At2(SecurityEvent17)
      BY <1>2
    <2> QED
      BY <1>2, <2>1, <1>6, Creates
  <1>13. Does(At3(SecurityEvent17), DropDefault("security_event", "type"), At3(e1))
    <2>1. IsTable(SecurityEvent17)
      BY DEF IsTable, SecurityEvent17
    <2>2. /\ "type" \in DOMAIN SecurityEvent17
          /\ SecurityEvent17["type"] = Enum(FirstLabels)
      BY DEF SecurityEvent17
    <2> QED
      BY <1>3, <1>e1, <2>1, <2>2, DropsEnum DEF Plus
  <1>14. Does(At3(e1), Alter("security_event", "type", "labels", LaterLabels), At3(e2))
    <2>1. IsTable(e1)
      BY <1>e1 DEF IsTable, Minus, Plus, SecurityEvent17
    <2>2. /\ "type" \in DOMAIN e1
          /\ e1["type"] = Bare(FirstLabels)
      BY <1>e1 DEF Minus, Plus, SecurityEvent17
    <2> QED
      BY <1>3, <1>e2, <2>1, <2>2, Relabels DEF Plus
  <1>15. Does(At3(e2), SetDefault("security_event", "type"), At3(e3))
    <2>1. IsTable(e2)
      BY <1>e1, <1>e2 DEF IsTable, Minus, Plus, SecurityEvent17
    <2>2. /\ "type" \in DOMAIN e2
          /\ e2["type"] = Bare(LaterLabels)
      BY <1>e1, <1>e2 DEF Minus, Plus, SecurityEvent17
    <2> QED
      BY <1>3, <1>e3, <2>1, <2>2, SetsEnum DEF Plus
  <1>16. Does(At3(e3), DropTable("security_event_type_enum_old"), At1(e3))
    <2>1. \A m \in DOMAIN User8 : User8[m].kind = "fk" =>
              User8[m].table # "security_event_type_enum_old"
      BY DEF User8, Def, Req, Column, Unique
    <2>2. \A m \in DOMAIN Client9 : Client9[m].kind = "fk" =>
              Client9[m].table # "security_event_type_enum_old"
      BY DEF Client9, Def, Opt, Req, Column, Unique
    <2>3. \A m \in DOMAIN Grant6 : Grant6[m].kind = "fk" =>
              Grant6[m].table # "security_event_type_enum_old"
      BY DEF Grant6, Def, Opt, Req, Column, Cascade, References
    <2>4. \A m \in DOMAIN Consent10 : Consent10[m].kind = "fk" =>
              Consent10[m].table # "security_event_type_enum_old"
      BY DEF Consent10, Def, Opt, Req, Column, Cascade, References
    <2>5. \A m \in DOMAIN Token14 : Token14[m].kind = "fk" =>
              Token14[m].table # "security_event_type_enum_old"
      BY DEF Token14, Def, Opt, Req, Column, Cascade, References, Unique
    <2>6. \A m \in DOMAIN Sessions14 : Sessions14[m].kind = "fk" =>
              Sessions14[m].table # "security_event_type_enum_old"
      BY DEF Sessions14, Def, Opt, Req, Dated, Column, Cascade, References
    <2>7. \A m \in DOMAIN e3 : e3[m].kind = "fk" => e3[m].table # "security_event_type_enum_old"
      BY <1>e1, <1>e2, <1>e3, Kinds DEF Minus, Plus, SecurityEvent17
    <2>8. MayDropTable(At3(e3), "security_event_type_enum_old")
      BY <1>3, <2>1, <2>2, <2>3, <2>4, <2>5, <2>6, <2>7 DEF MayDropTable
    <2> QED
      BY <1>3, <2>8, <1>7, DropsTable
  <1> QED
    BY <1>8, <1>10, <1>11, <1>12, <1>13, <1>14, <1>15, <1>16, Path6
       DEF SecurityEventLabels, LaterLabels, SetDefault, DropDefault

LEMMA SecurityEventLabelsReverts == Leads(Level18, SecurityEventLabels.down, Level17)
  <1> DEFINE At1(e) == Recorded(User8, Client9, Grant6, Consent10, Token14, Sessions14, e)
  <1>        At2(e) == [user |-> User8, client |-> Client9, user_client_consent |-> Grant6,
                        consent |-> Consent10, token |-> Token14, sessions |-> Sessions14,
                        security_event |-> e, security_event_type_enum |-> <<>>,
                        security_event_severity_enum |-> <<>>,
                        security_event_type_enum_old |-> <<>>]
  <1>        At3(e) == [user |-> User8, client |-> Client9, user_client_consent |-> Grant6,
                        consent |-> Consent10, token |-> Token14, sessions |-> Sessions14,
                        security_event |-> e, security_event_severity_enum |-> <<>>,
                        security_event_type_enum_old |-> <<>>]
  <1>1. \A e :
           DOMAIN At1(e) = {"user", "client", "user_client_consent", "consent", "token",
                              "sessions", "security_event", "security_event_type_enum",
                              "security_event_severity_enum"}
    BY DEF Put, Recorded
  <1>2. \A e :
           /\ DOMAIN At2(e) = {"user", "client", "user_client_consent", "consent", "token",
                              "sessions", "security_event", "security_event_type_enum",
                              "security_event_severity_enum", "security_event_type_enum_old"}
           /\ At2(e)["user"] = User8
           /\ At2(e)["client"] = Client9
           /\ At2(e)["user_client_consent"] = Grant6
           /\ At2(e)["consent"] = Consent10
           /\ At2(e)["token"] = Token14
           /\ At2(e)["sessions"] = Sessions14
           /\ At2(e)["security_event"] = e
           /\ DOMAIN At2(e)["security_event_type_enum"] = {}
           /\ DOMAIN At2(e)["security_event_severity_enum"] = {}
           /\ DOMAIN At2(e)["security_event_type_enum_old"] = {}
           /\ \A r : Put(At2(e), "security_event", r) = At2(r)
    BY DEF Put
  <1>3. \A e :
           /\ DOMAIN At3(e) = {"user", "client", "user_client_consent", "consent", "token",
                              "sessions", "security_event", "security_event_severity_enum",
                              "security_event_type_enum_old"}
           /\ At3(e)["user"] = User8
           /\ At3(e)["client"] = Client9
           /\ At3(e)["user_client_consent"] = Grant6
           /\ At3(e)["consent"] = Consent10
           /\ At3(e)["token"] = Token14
           /\ At3(e)["sessions"] = Sessions14
           /\ At3(e)["security_event"] = e
    BY DEF Put
  <1>4. \A e : With(At1(e), "security_event_type_enum_old", <<>>) = At2(e)
    BY DEF With, Recorded
  <1>5. \A e : Without(At2(e), "security_event_type_enum") = At3(e)
    BY DEF Without
  <1> DEFINE Mid(e) == [user |-> User8, client |-> Client9, user_client_consent |-> Grant6,
                    consent |-> Consent10, token |-> Token14, sessions |-> Sessions14,
                    security_event |-> e, security_event_severity_enum |-> <<>>]
  <1>6. \A e : Without(At3(e), "security_event_type_enum_old") = Mid(e) /\
            At3(e)["security_event_type_enum_old"] = <<>>
    BY DEF Without, Recorded
  <1>7. \A e : With(Mid(e), "security_event_type_enum", <<>>) = At1(e)
    BY DEF With, Recorded
  <1>8. At1(SecurityEvent18) = Level18
    BY DEF Level18
  <1>e1. PICK e1 : Plus(e1, SecurityEvent18, "type", Bare(LaterLabels))
    BY Edits
  <1>e2. PICK e2 : Plus(e2, e1, "type", Bare(FirstLabels))
    BY Edits
  <1>e3. PICK e3 : Plus(e3, e2, "type", Enum(FirstLabels))
    BY Edits
  <1>9. e3 = SecurityEvent17
    <2>1. IsTable(e3) /\ IsTable(SecurityEvent17)
      BY <1>e3 DEF Minus, Plus, IsTable, SecurityEvent17
    <2>2. DOMAIN e3 = DOMAIN SecurityEvent17
      BY <1>e1, <1>e2, <1>e3 DEF Minus, Plus, SecurityEvent18, SecurityEvent17
    <2>3. \A x \in DOMAIN e3 : e3[x] = SecurityEvent17[x]
      BY <1>e1, <1>e2, <1>e3, <2>2 DEF Minus, Plus, SecurityEvent18, SecurityEvent17
    <2> QED
      BY <2>1, <2>2, <2>3, SameTable
  <1>10. At1(e3) = Level17
    BY <1>9 DEF Level17
  <1> HIDE DEF At1, At2, At3, Mid
  <1>11. Does(At1(SecurityEvent18), Create("security_event_type_enum_old", <<>>),
             At2(SecurityEvent18))
    <2>1. "security_event_type_enum_old" \notin DOMAIN At1(SecurityEvent18)
      BY <1>1
    <2> QED
      BY <1>1, <2>1, <1>4, Creates
  <1>12. Does(At2(SecurityEvent18), DropDefault("security_event", "type"), At2(e1))
    <2>1. IsTable(SecurityEvent18)
      BY DEF IsTable, SecurityEvent18
    <2>2. /\ "type" \in DOMAIN SecurityEvent18
          /\ SecurityEvent18["type"] = Enum(LaterLabels)
      BY DEF SecurityEvent18
    <2> QED
      BY <1>2, <1>e1, <2>1, <2>2, DropsEnum DEF Plus
  <1>13. Does(At2(e1), Alter("security_event", "type", "labels", FirstLabels), At2(e2))
    <2>1. IsTable(e1)
      BY <1>e1 DEF IsTable, Minus, Plus, SecurityEvent18
    <2>2. /\ "type" \in DOMAIN e1
          /\ e1["type"] = Bare(LaterLabels)
      BY <1>e1 DEF Minus, Plus, SecurityEvent18
    <2> QED
      BY <1>2, <1>e2, <2>1, <2>2, Relabels DEF Plus
  <1>14. Does(At2(e2), SetDefault("security_event", "type"), At2(e3))
    <2>1. IsTable(e2)
      BY <1>e1, <1>e2 DEF IsTable, Minus, Plus, SecurityEvent18
    <2>2. /\ "type" \in DOMAIN e2
          /\ e2["type"] = Bare(FirstLabels)
      BY <1>e1, <1>e2 DEF Minus, Plus, SecurityEvent18
    <2> QED
      BY <1>2, <1>e3, <2>1, <2>2, SetsEnum DEF Plus
  <1>15. Does(At2(e3), DropTable("security_event_type_enum"), At3(e3))
    <2>1. \A m \in DOMAIN User8 : User8[m].kind = "fk" =>
              User8[m].table # "security_event_type_enum"
      BY DEF User8, Def, Req, Column, Unique
    <2>2. \A m \in DOMAIN Client9 : Client9[m].kind = "fk" =>
              Client9[m].table # "security_event_type_enum"
      BY DEF Client9, Def, Opt, Req, Column, Unique
    <2>3. \A m \in DOMAIN Grant6 : Grant6[m].kind = "fk" =>
              Grant6[m].table # "security_event_type_enum"
      BY DEF Grant6, Def, Opt, Req, Column, Cascade, References
    <2>4. \A m \in DOMAIN Consent10 : Consent10[m].kind = "fk" =>
              Consent10[m].table # "security_event_type_enum"
      BY DEF Consent10, Def, Opt, Req, Column, Cascade, References
    <2>5. \A m \in DOMAIN Token14 : Token14[m].kind = "fk" =>
              Token14[m].table # "security_event_type_enum"
      BY DEF Token14, Def, Opt, Req, Column, Cascade, References, Unique
    <2>6. \A m \in DOMAIN Sessions14 : Sessions14[m].kind = "fk" =>
              Sessions14[m].table # "security_event_type_enum"
      BY DEF Sessions14, Def, Opt, Req, Dated, Column, Cascade, References
    <2>7. \A m \in DOMAIN e3 : e3[m].kind = "fk" => e3[m].table # "security_event_type_enum"
      BY <1>e1, <1>e2, <1>e3, Kinds DEF Minus, Plus, SecurityEvent18
    <2>8. MayDropTable(At2(e3), "security_event_type_enum")
      BY <1>2, <2>1, <2>2, <2>3, <2>4, <2>5, <2>6, <2>7 DEF MayDropTable
    <2> QED
      BY <1>2, <2>8, <1>5, DropsTable
  <1>16. Does(At3(e3), RenameType("security_event_type_enum_old", "security_event_type_enum"),
             At1(e3))
    <2>1. /\ "security_event_type_enum_old" \in DOMAIN At3(e3)
          /\ "security_event_type_enum" \notin DOMAIN At3(e3)
      BY <1>3
    <2> QED
      BY <1>3, <2>1, <1>6, <1>7, RenamesType
  <1> QED
    BY <1>8, <1>10, <1>11, <1>12, <1>13, <1>14, <1>15, <1>16, Path6
       DEF SecurityEventLabels, SetDefault, DropDefault

\* 19. Their reason.
LEMMA SecurityEventReasonRuns == Leads(Level18, SecurityEventReason.up, Level19)
  <1> DEFINE At(e) == Recorded(User8, Client9, Grant6, Consent10, Token14, Sessions14, e)
  <1>1. \A e :
           /\ DOMAIN At(e) = {"user", "client", "user_client_consent", "consent", "token",
                              "sessions", "security_event", "security_event_type_enum",
                              "security_event_severity_enum"}
           /\ At(e)["security_event"] = e
           /\ \A r : Put(At(e), "security_event", r) = At(r)
    BY DEF Put, Recorded
  <1>2. At(SecurityEvent18) = Level18
    BY DEF Level18
  <1>e1. PICK e1 : Plus(e1, SecurityEvent18, "reason", Opt("varchar"))
    BY Edits
  <1>3. e1 = SecurityEvent19
    <2>1. IsTable(e1) /\ IsTable(SecurityEvent19)
      BY <1>e1 DEF Minus, Plus, IsTable, SecurityEvent19
    <2>2. DOMAIN e1 = DOMAIN SecurityEvent19
      BY <1>e1 DEF Minus, Plus, SecurityEvent18, SecurityEvent19
    <2>3. \A x \in DOMAIN e1 : e1[x] = SecurityEvent19[x]
      BY <1>e1, <2>2 DEF Minus, Plus, SecurityEvent18, SecurityEvent19
    <2> QED
      BY <2>1, <2>2, <2>3, SameTable
  <1>4. At(e1) = Level19
    BY <1>3 DEF Level19
  <1> HIDE DEF At
  <1>5. Does(At(SecurityEvent18), Add("security_event", "reason", Opt("varchar")), At(e1))
    <2>1. "reason" \notin DOMAIN SecurityEvent18
      BY DEF SecurityEvent18
    <2> QED
      BY <1>1, <1>e1, <2>1, AddsColumn, Kinds DEF Plus
  <1> QED
    BY <1>2, <1>4, <1>5, Path1 DEF SecurityEventReason

LEMMA SecurityEventReasonReverts == Leads(Level19, SecurityEventReason.down, Level18)
  <1> DEFINE At(e) == Recorded(User8, Client9, Grant6, Consent10, Token14, Sessions14, e)
  <1>1. \A e :
           /\ DOMAIN At(e) = {"user", "client", "user_client_consent", "consent", "token",
                              "sessions", "security_event", "security_event_type_enum",
                              "security_event_severity_enum"}
           /\ At(e)["security_event"] = e
           /\ \A r : Put(At(e), "security_event", r) = At(r)
    BY DEF Put, Recorded
  <1>2. At(SecurityEvent19) = Level19
    BY DEF Level19
  <1>e1. PICK e1 : Minus(e1, SecurityEvent19, "reason")
    BY Edits
  <1>3. e1 = SecurityEvent18
    <2>1. IsTable(e1) /\ IsTable(SecurityEvent18)
      BY <1>e1 DEF Minus, Plus, IsTable, SecurityEvent18
    <2>2. DOMAIN e1 = DOMAIN SecurityEvent18
      BY <1>e1 DEF Minus, Plus, SecurityEvent19, SecurityEvent18
    <2>3. \A x \in DOMAIN e1 : e1[x] = SecurityEvent18[x]
      BY <1>e1, <2>2 DEF Minus, Plus, SecurityEvent19, SecurityEvent18
    <2> QED
      BY <2>1, <2>2, <2>3, SameTable
  <1>4. At(e1) = Level18
    BY <1>3 DEF Level18
  <1> HIDE DEF At
  <1>5. Does(At(SecurityEvent19), Drop("security_event", "reason"), At(e1))
    <2>1. /\ "reason" \in DOMAIN SecurityEvent19
          /\ SecurityEvent19["reason"].kind = "column"
      BY DEF SecurityEvent19, Def, Opt, Req, Column, Enum
    <2>2. \A m \in DOMAIN SecurityEvent19 : SecurityEvent19[m].kind # "column" =>
              SecurityEvent19[m].on # "reason"
      BY DEF SecurityEvent19, Def, Opt, Req, Column, Enum
    <2> QED
      BY <1>1, <1>e1, <2>1, <2>2, DropsColumn DEF Minus
  <1> QED
    BY <1>2, <1>4, <1>5, Path1 DEF SecurityEventReason

\* 20. Users get a mark of deletion.
LEMMA UserDeletedAtRuns == Leads(Level19, UserDeletedAt.up, Level20)
  <1> DEFINE At(u) == Recorded(u, Client9, Grant6, Consent10, Token14, Sessions14, SecurityEvent19)
  <1>1. \A u :
           /\ DOMAIN At(u) = {"user", "client", "user_client_consent", "consent", "token",
                              "sessions", "security_event", "security_event_type_enum",
                              "security_event_severity_enum"}
           /\ At(u)["user"] = u
           /\ \A r : Put(At(u), "user", r) = At(r)
    BY DEF Put, Recorded
  <1>2. At(User8) = Level19
    BY DEF Level19
  <1>u1. PICK u1 : Plus(u1, User8, "deleted_at", Opt("timestamptz"))
    BY Edits
  <1>3. u1 = User20
    <2>1. IsTable(u1) /\ IsTable(User20)
      BY <1>u1 DEF Minus, Plus, IsTable, User20
    <2>2. DOMAIN u1 = DOMAIN User20
      BY <1>u1 DEF Minus, Plus, User8, User20
    <2>3. \A x \in DOMAIN u1 : u1[x] = User20[x]
      BY <1>u1, <2>2 DEF Minus, Plus, User8, User20
    <2> QED
      BY <2>1, <2>2, <2>3, SameTable
  <1>4. At(u1) = Level20
    BY <1>3 DEF Level20
  <1> HIDE DEF At
  <1>5. Does(At(User8), Add("user", "deleted_at", Opt("timestamptz")), At(u1))
    <2>1. "deleted_at" \notin DOMAIN User8
      BY DEF User8
    <2> QED
      BY <1>1, <1>u1, <2>1, AddsColumn, Kinds DEF Plus
  <1> QED
    BY <1>2, <1>4, <1>5, Path1 DEF UserDeletedAt

LEMMA UserDeletedAtReverts == Leads(Level20, UserDeletedAt.down, Level19)
  <1> DEFINE At(u) == Recorded(u, Client9, Grant6, Consent10, Token14, Sessions14, SecurityEvent19)
  <1>1. \A u :
           /\ DOMAIN At(u) = {"user", "client", "user_client_consent", "consent", "token",
                              "sessions", "security_event", "security_event_type_enum",
                              "security_event_severity_enum"}
           /\ At(u)["user"] = u
           /\ \A r : Put(At(u), "user", r) = At(r)
    BY DEF Put, Recorded
  <1>2. At(User20) = Level20
    BY DEF Level20
  <1>u1. PICK u1 : Minus(u1, User20, "deleted_at")
    BY Edits
  <1>3. u1 = User8
    <2>1. IsTable(u1) /\ IsTable(User8)
      BY <1>u1 DEF Minus, Plus, IsTable, User8
    <2>2. DOMAIN u1 = DOMAIN User8
      BY <1>u1 DEF Minus, Plus, User20, User8
    <2>3. \A x \in DOMAIN u1 : u1[x] = User8[x]
      BY <1>u1, <2>2 DEF Minus, Plus, User20, User8
    <2> QED
      BY <2>1, <2>2, <2>3, SameTable
  <1>4. At(u1) = Level19
    BY <1>3 DEF Level19
  <1> HIDE DEF At
  <1>5. Does(At(User20), Drop("user", "deleted_at"), At(u1))
    <2>1. /\ "deleted_at" \in DOMAIN User20
          /\ User20["deleted_at"].kind = "column"
      BY DEF User20, Def, Opt, Req, Column, Unique
    <2>2. \A m \in DOMAIN User20 : User20[m].kind # "column" => User20[m].on # "deleted_at"
      BY DEF User20, Def, Opt, Req, Column, Unique
    <2> QED
      BY <1>1, <1>u1, <2>1, <2>2, DropsColumn DEF Minus
  <1> QED
    BY <1>2, <1>4, <1>5, Path1 DEF UserDeletedAt

-----------------------------------------------------------------------------
(* From one level to the next. *)

\* The schemas of each level.
LEMMA Members ==
    ASSUME NEW s
    PROVE  /\ Known(0, s) <=> DOMAIN s = {}
           /\ Known(1, s) <=> s = Level1
           /\ Known(2, s) <=> s = Level2
           /\ Known(3, s) <=> s = Level3
           /\ Known(4, s) <=> s = Level4
           /\ Known(5, s) <=> s = Level5
           /\ Known(6, s) <=> s = Level6
           /\ Known(7, s) <=> s = Level7
           /\ Known(8, s) <=> s = Level8
           /\ Known(9, s) <=> s = Level9
           /\ Known(10, s) <=> s = Level10
           /\ Known(11, s) <=> s = Level11 \/ s = Level11Keyed
           /\ Known(12, s) <=> s = Level12 \/ s = Level12Undone \/ s = Level12Keyed
           /\ Known(13, s) <=> s = Level13
           /\ Known(14, s) <=> s = Level14
           /\ Known(15, s) <=> s = Level15
           /\ Known(16, s) <=> s = Level16
           /\ Known(17, s) <=> s = Level17
           /\ Known(18, s) <=> s = Level18
           /\ Known(19, s) <=> s = Level19
           /\ Known(20, s) <=> s = Level20
  BY DEF Known, Schemas

\* A migration that runs leads from a schema of one level to one of the next.
LEMMA KnownUp ==
    ASSUME NEW l \in 1..Latest, NEW s, Known(l - 1, s)
    PROVE  \E t : Known(l, t) /\ Leads(s, Migration[l].up, t)
  <1>1. CASE l = 1
    BY <1>1, Which, Members, Init19032026Runs
  <1>2. CASE l = 2
    BY <1>2, Which, Members, ConsentRelationRuns
  <1>3. CASE l = 3
    BY <1>3, Which, Members, TokenBecomesConsentIdRuns
  <1>4. CASE l = 4
    BY <1>4, Which, Members, NewRelationsRuns
  <1>5. CASE l = 5
    BY <1>5, Which, Members, ConsentDatesRuns
  <1>6. CASE l = 6
    BY <1>6, Which, Members, ClientIdRenamedRuns
  <1>7. CASE l = 7
    BY <1>7, Which, Members, JtiRuns
  <1>8. CASE l = 8
    BY <1>8, Which, Members, UserCreatedAtRuns
  <1>9. CASE l = 9
    BY <1>9, Which, Members, ClientNameUniqueRuns
  <1>10. CASE l = 10
    BY <1>10, Which, Members, ConsentTableRuns
  <1>11. CASE l = 11
    BY <1>11, Which, Members, TokenFamilyRuns
  <1>12. CASE l = 12
    <2>1. CASE s = Level11
      BY <1>12, <2>1, Which, Members, SessionTableRuns
    <2>2. CASE s = Level11Keyed
      BY <1>12, <2>2, Which, Members, SessionTableRunsKeyed
    <2> QED
      BY <1>12, <2>1, <2>2, Members
  <1>13. CASE l = 13
    <2>1. CASE s = Level12
      BY <1>13, <2>1, Which, Members, SessionWithoutTokenRuns
    <2>2. CASE s = Level12Undone
      BY <1>13, <2>2, Which, Members, SessionWithoutTokenRunsUndone
    <2>3. CASE s = Level12Keyed
      BY <1>13, <2>3, Which, Members, SessionWithoutTokenRunsKeyed
    <2> QED
      BY <1>13, <2>1, <2>2, <2>3, Members
  <1>14. CASE l = 14
    BY <1>14, Which, Members, DeletedAtRuns
  <1>15. CASE l = 15
    BY <1>15, Which, Members, SecurityEventTableRuns
  <1>16. CASE l = 16
    BY <1>16, Which, Members, SecurityEventIdRuns
  <1>17. CASE l = 17
    BY <1>17, Which, Members, SecurityEventEmailRuns
  <1>18. CASE l = 18
    BY <1>18, Which, Members, SecurityEventLabelsRuns
  <1>19. CASE l = 19
    BY <1>19, Which, Members, SecurityEventReasonRuns
  <1>20. CASE l = 20
    BY <1>20, Which, Members, UserDeletedAtRuns
  <1> QED
    BY Which, <1>1, <1>2, <1>3, <1>4, <1>5, <1>6, <1>7, <1>8, <1>9, <1>10, <1>11, <1>12, <1>13,
        <1>14,
       <1>15, <1>16, <1>17, <1>18, <1>19, <1>20

\* A migration that is reverted leads from a schema of one level to one of the last.
LEMMA KnownDown ==
    ASSUME NEW l \in 1..Latest, NEW s, Known(l, s)
    PROVE  \E t : Known(l - 1, t) /\ Leads(s, Migration[l].down, t)
  <1>1. CASE l = 1
    BY <1>1, Which, Members, Init19032026Reverts
  <1>2. CASE l = 2
    BY <1>2, Which, Members, ConsentRelationReverts
  <1>3. CASE l = 3
    BY <1>3, Which, Members, TokenBecomesConsentIdReverts
  <1>4. CASE l = 4
    BY <1>4, Which, Members, NewRelationsReverts
  <1>5. CASE l = 5
    BY <1>5, Which, Members, ConsentDatesReverts
  <1>6. CASE l = 6
    BY <1>6, Which, Members, ClientIdRenamedReverts
  <1>7. CASE l = 7
    BY <1>7, Which, Members, JtiReverts
  <1>8. CASE l = 8
    BY <1>8, Which, Members, UserCreatedAtReverts
  <1>9. CASE l = 9
    BY <1>9, Which, Members, ClientNameUniqueReverts
  <1>10. CASE l = 10
    BY <1>10, Which, Members, ConsentTableReverts
  <1>11. CASE l = 11
    <2>1. CASE s = Level11
      BY <1>11, <2>1, Which, Members, TokenFamilyReverts
    <2>2. CASE s = Level11Keyed
      BY <1>11, <2>2, Which, Members, TokenFamilyRevertsKeyed
    <2> QED
      BY <1>11, <2>1, <2>2, Members
  <1>12. CASE l = 12
    <2>1. CASE s = Level12
      BY <1>12, <2>1, Which, Members, SessionTableReverts
    <2>2. CASE s = Level12Undone
      BY <1>12, <2>2, Which, Members, SessionTableRevertsUndone
    <2>3. CASE s = Level12Keyed
      BY <1>12, <2>3, Which, Members, SessionTableRevertsKeyed
    <2> QED
      BY <1>12, <2>1, <2>2, <2>3, Members
  <1>13. CASE l = 13
    BY <1>13, Which, Members, SessionWithoutTokenReverts
  <1>14. CASE l = 14
    BY <1>14, Which, Members, DeletedAtReverts
  <1>15. CASE l = 15
    BY <1>15, Which, Members, SecurityEventTableReverts
  <1>16. CASE l = 16
    BY <1>16, Which, Members, SecurityEventIdReverts
  <1>17. CASE l = 17
    BY <1>17, Which, Members, SecurityEventEmailReverts
  <1>18. CASE l = 18
    BY <1>18, Which, Members, SecurityEventLabelsReverts
  <1>19. CASE l = 19
    BY <1>19, Which, Members, SecurityEventReasonReverts
  <1>20. CASE l = 20
    BY <1>20, Which, Members, UserDeletedAtReverts
  <1> QED
    BY Which, <1>1, <1>2, <1>3, <1>4, <1>5, <1>6, <1>7, <1>8, <1>9, <1>10, <1>11, <1>12, <1>13,
        <1>14,
       <1>15, <1>16, <1>17, <1>18, <1>19, <1>20

-----------------------------------------------------------------------------
(* What a run or a revert comes to. *)

\* Rows refused a statement, or all led to schema t.
Ends(x, t) == x.outcome = "rows" \/ (x.outcome = "ok" /\ x.schema = t)

\* Rows refused a statement, or all led to a schema of level l.
Arrives(x, l) == x.outcome = "rows" \/ (x.outcome = "ok" /\ Known(l, x.schema))

LEMMA DoesEnds ==
    ASSUME NEW x, NEW st, NEW s, NEW t, Ends(x, s), Does(s, st, t), NEW used, NEW picky
    PROVE  Ends(Executed(x, st, used, picky), t)
  BY DEF Ends, Does, Executed

\* No statement meets a schema that does not allow it where the sequence leads
\* from the schema it began with.
LEMMA LeadsEnds ==
    ASSUME NEW x, x.outcome = "ok", NEW statements, NEW t, Leads(x.schema, statements, t),
           NEW used, NEW picky
    PROVE  Ends(Execute(x, statements, used, picky), t)
  <1> DEFINE n == Len(statements)
  <1>1. n \in Nat
    BY DEF Leads
  <1>2. PICK after : Steps(after, x, statements, used, picky)
    BY <1>1, ExecuteSteps
  <1>3. PICK path : /\ path[1] = x.schema /\ path[n + 1] = t
                    /\ \A i \in 1..n : Does(path[i], statements[i], path[i + 1])
    BY DEF Leads
  <1> DEFINE G == {i \in 0..n : Ends(after[i], path[i + 1])}
  <1>4. 0 \in G
    BY <1>1, <1>2, <1>3 DEF Steps, Ends
  <1>5. ASSUME NEW i \in 0 + 1..n, i - 1 \in G PROVE i \in G
    <2>1. i \in 1..n /\ i \in 0..n /\ Ends(after[i - 1], path[i])
      BY <1>1, <1>5
    <2>2. after[i] = Executed(after[i - 1], statements[i], used, picky)
      BY <1>2, <2>1 DEF Steps
    <2>3. Ends(after[i], path[i + 1])
      BY <1>3, <2>1, <2>2, DoesEnds
    <2> QED
      BY <2>1, <2>3
  <1>6. n \in G
    <2>1. n \in 0..n /\ 0 \in Nat
      BY <1>1
    <2> HIDE DEF G, n
    <2>2. \A i \in 0..n : i \in G
      BY <1>1, <1>4, <1>5, <2>1, RangeInduction, Zenon
    <2> QED
      BY <2>1, <2>2
  <1> QED
    BY <1>2, <1>3, <1>6 DEF Steps

\* One pending migration.
LEMMA StageArrives ==
    ASSUME NEW l \in 1..Latest, NEW x, Arrives(x, l - 1), NEW used, NEW picky
    PROVE  Arrives(Execute(x, Migration[l].up, used, picky), l)
  <1>1. CASE x.outcome = "rows"
    BY <1>1, Sizes, FailedStays DEF Arrives
  <1>2. CASE x.outcome = "ok"
    <2>1. PICK t : Known(l, t) /\ Leads(x.schema, Migration[l].up, t)
      BY <1>2, KnownUp DEF Arrives
    <2>2. Ends(Execute(x, Migration[l].up, used, picky), t)
      BY <1>2, <2>1, LeadsEnds
    <2> QED
      BY <2>1, <2>2 DEF Ends, Arrives
  <1> QED
    BY <1>1, <1>2 DEF Arrives

\* And the reverted one.
LEMMA RevertArrives ==
    ASSUME NEW l \in 1..Latest, NEW x, x.outcome = "ok", Known(l, x.schema), NEW used, NEW picky
    PROVE  Arrives(Execute(x, Migration[l].down, used, picky), l - 1)
  <1>1. PICK t : Known(l - 1, t) /\ Leads(x.schema, Migration[l].down, t)
    BY KnownDown
  <1>2. Ends(Execute(x, Migration[l].down, used, picky), t)
    BY <1>1, LeadsEnds
  <1> QED
    BY <1>1, <1>2 DEF Ends, Arrives

\* All that are pending, up to the last that was executed.
LEMMA PendingArrives ==
    ASSUME NEW from \in Nat, NEW to \in 0..Latest, NEW x, x.outcome = "ok", Known(from, x.schema),
           NEW used, NEW picky,
           NEW after, Stages(after, x, from, to, used, picky),
           NEW k \in 0..to - from
    PROVE  Arrives(after[k], from + k)
  <1> DEFINE G == {i \in 0..k : Arrives(after[i], from + i)}
  <1>1. 0 \in G /\ 0 \in Nat /\ k \in Nat /\ k \in 0..k
    BY Which DEF Stages, Arrives
  <1>2. ASSUME NEW i \in 0 + 1..k, i - 1 \in G PROVE i \in G
    <2>1. /\ i \in 0..k /\ i \in 1..to - from /\ from + i \in 1..Latest
          /\ from + (i - 1) = (from + i) - 1
          /\ Arrives(after[i - 1], (from + i) - 1)
      BY <1>2, Which
    <2>2. after[i] = Execute(after[i - 1], Migration[from + i].up, used, picky)
      BY <2>1 DEF Stages
    <2>3. Arrives(after[i], from + i)
      BY <2>1, <2>2, StageArrives
    <2> QED
      BY <2>1, <2>3
  <1>3. k \in G
    <2> HIDE DEF G
    <2>1. \A i \in 0..k : i \in G
      BY <1>1, <1>2, RangeInduction, Zenon
    <2> QED
      BY <1>1, <2>1
  <1> QED
    BY <1>3

LEMMA RunArrives ==
    ASSUME NEW from \in Nat, NEW to \in 0..Latest, from <= to,
           NEW x, x.outcome = "ok", Known(from, x.schema), NEW used, NEW picky
    PROVE  Arrives(ExecutePending(x, from, to, used, picky), to)
  <1>1. to \in Nat
    BY Which
  <1>2. PICK after : Stages(after, x, from, to, used, picky)
    BY <1>1, PendingSteps
  <1>3. to - from \in 0..to - from /\ from + (to - from) = to
    BY <1>1
  <1> QED
    BY <1>2, <1>3, PendingArrives DEF Stages

-----------------------------------------------------------------------------
(* Where a used token table stops a run. *)

HasColumn(s, c) == "token" \in DOMAIN s /\ c \in DOMAIN s["token"]

\* No jti in the token table, unless the transaction failed.
NoJti(x) == x.outcome = "ok" => ~ HasColumn(x.schema, "jti")

\* There is none before the seventh migration.
LEMMA SixthHasNoJti == ASSUME NEW x, Arrives(x, 6) PROVE NoJti(x)
  <1>1. "jti" \notin DOMAIN Level6["token"]
    BY DEF Level6, Core, Token4
  <1> QED
    BY <1>1, Members DEF Arrives, NoJti, HasColumn

\* Rows of a token table refuse a column that they must have and that the
\* statement gives no value for.
LEMMA RowsRefuse ==
    ASSUME NEW x, NEW c, NEW ty, NEW used, NEW picky, "token" \in used
    PROVE  /\ Executed(x, Add("token", c, Req(ty)), used, picky).outcome # "ok"
           /\ ~ HasColumn(x.schema, c) =>
                Executed(x, AddIf("token", c, Req(ty)), used, picky).outcome # "ok"
  BY DEF Executed, Legal, MayAdd, Refused, Add, AddIf, Req, Column, HasColumn

\* A used token table stops each of the three migrations that add a column its
\* rows must have; the seventh looks first whether the column is there.
LEMMA RowsStop ==
    ASSUME NEW x, NEW used, NEW picky, "token" \in used
    PROVE  /\ NoJti(x) => Execute(x, Migration[7].up, used, picky).outcome # "ok"
           /\ Execute(x, Migration[11].up, used, picky).outcome # "ok"
           /\ Execute(x, Migration[14].up, used, picky).outcome # "ok"
  <1>1. ASSUME NoJti(x) PROVE Execute(x, Migration[7].up, used, picky).outcome # "ok"
    <2> DEFINE u == Migration[7].up
    <2>1. Len(u) = 2 /\ Len(u) \in Nat /\ u[1] = AddIf("token", "jti", Req("uuid"))
      BY Which DEF Jti
    <2> HIDE DEF u
    <2>2. PICK after : Steps(after, x, u, used, picky)
      BY <2>1, ExecuteSteps
    <2>3. 1 \in 1..Len(u)
      BY <2>1
    <2>4. after[1] = Executed(x, AddIf("token", "jti", Req("uuid")), used, picky)
      BY <2>1, <2>2, <2>3 DEF Steps
    <2>5. after[1].outcome # "ok"
      <3>1. CASE x.outcome = "ok"
        BY <1>1, <2>4, <3>1, RowsRefuse DEF NoJti
      <3>2. CASE x.outcome # "ok"
        BY <2>4, <3>2, FailedExecuted
      <3> QED
        BY <3>1, <3>2
    <2>6. Broken(after[1])
      BY <2>5 DEF Broken
    <2>7. Broken(Execute(x, u, used, picky))
      BY <2>1, <2>2, <2>3, <2>6, FailsWithin
    <2> QED
      BY <2>7 DEF u, Broken
  <1>2. Execute(x, Migration[11].up, used, picky).outcome # "ok"
    <2> DEFINE u == Migration[11].up
    <2>1. Len(u) = 5 /\ Len(u) \in Nat /\ u[3] = Add("token", "token_family_id", Req("uuid"))
      BY Which DEF TokenFamily
    <2> HIDE DEF u
    <2>2. PICK after : Steps(after, x, u, used, picky)
      BY <2>1, ExecuteSteps
    <2>3. 3 \in 1..Len(u)
      BY <2>1
    <2>4. after[3] = Executed(after[2], Add("token", "token_family_id", Req("uuid")), used, picky)
      BY <2>1, <2>2, <2>3 DEF Steps
    <2>5. after[3].outcome # "ok"
      BY <2>4, RowsRefuse
    <2>6. Broken(after[3])
      BY <2>5 DEF Broken
    <2>7. Broken(Execute(x, u, used, picky))
      BY <2>1, <2>2, <2>3, <2>6, FailsWithin
    <2> QED
      BY <2>7 DEF u, Broken
  <1>3. Execute(x, Migration[14].up, used, picky).outcome # "ok"
    <2> DEFINE u == Migration[14].up
    <2>1. Len(u) = 4 /\ Len(u) \in Nat /\ u[3] = Add("token", "expires_at", Req("timestamptz"))
      BY Which DEF DeletedAt
    <2> HIDE DEF u
    <2>2. PICK after : Steps(after, x, u, used, picky)
      BY <2>1, ExecuteSteps
    <2>3. 3 \in 1..Len(u)
      BY <2>1
    <2>4. after[3] = Executed(after[2], Add("token", "expires_at", Req("timestamptz")), used, picky)
      BY <2>1, <2>2, <2>3 DEF Steps
    <2>5. after[3].outcome # "ok"
      BY <2>4, RowsRefuse
    <2>6. Broken(after[3])
      BY <2>5 DEF Broken
    <2>7. Broken(Execute(x, u, used, picky))
      BY <2>1, <2>2, <2>3, <2>6, FailsWithin
    <2> QED
      BY <2>7 DEF u, Broken
  <1> QED
    BY <1>1, <1>2, <1>3

\* When a pending migration fails, the run does.
LEMMA PendingFails ==
    ASSUME NEW x, NEW from \in Nat, NEW to \in 0..Latest, NEW used, NEW picky,
           NEW after, Stages(after, x, from, to, used, picky),
           NEW k \in 1..to - from, after[k].outcome # "ok"
    PROVE  ExecutePending(x, from, to, used, picky).outcome # "ok"
  <1> DEFINE n == to - from
             G == {i \in 1..n : after[i].outcome # "ok"}
  <1>1. ASSUME NEW i \in k + 1..n, i - 1 \in G PROVE i \in G
    <2>1. i - 1 \in 1..n /\ i \in 1..n /\ after[i - 1].outcome # "ok" /\ from + i \in 1..Latest
      BY <1>1, Which
    <2>2. after[i] = Execute(after[i - 1], Migration[from + i].up, used, picky)
      BY <2>1 DEF Stages
    <2>3. after[i].outcome # "ok"
      BY <2>1, <2>2, Sizes, FailedStays
    <2> QED
      BY <2>1, <2>3
  <1>2. k \in G /\ n \in k..n /\ k \in Nat /\ n \in Nat
    BY Which
  <1>3. n \in G
    <2> HIDE DEF G, n
    <2>1. \A i \in k..n : i \in G
      BY <1>1, <1>2, RangeInduction
    <2> QED
      BY <1>2, <2>1
  <1> QED
    BY <1>3 DEF Stages

\* A run over a used token table does not get past 7, 11 or 14.
LEMMA RunStops ==
    ASSUME NEW x, NEW from \in Nat, NEW to \in 0..Latest, NEW used, NEW picky,
           "token" \in used, x.outcome = "ok", Known(from, x.schema),
           NEW added \in {7, 11, 14}, from < added, added <= to
    PROVE  ExecutePending(x, from, to, used, picky).outcome # "ok"
  <1>0. from <= to /\ to \in Nat
    BY Which
  <1>1. PICK after : Stages(after, x, from, to, used, picky)
    BY <1>0, PendingSteps
  <1> DEFINE k == added - from
  <1>2. k \in 1..to - from /\ from + k = added /\ k - 1 \in 0..to - from
    BY Which
  <1>3. after[k] = Execute(after[k - 1], Migration[added].up, used, picky)
    BY <1>1, <1>2 DEF Stages
  <1>4. added = 7 => NoJti(after[k - 1])
    <2>1. Arrives(after[k - 1], from + (k - 1))
      <3> HIDE DEF k
      <3> QED
        BY <1>1, <1>2, PendingArrives
    <2>2. added = 7 => from + (k - 1) = 6
      BY <1>2
    <2> QED
      BY <2>1, <2>2, SixthHasNoJti
  <1>5. after[k].outcome # "ok"
    BY <1>3, <1>4, RowsStop
  <1> HIDE DEF k
  <1> QED
    BY <1>1, <1>2, <1>5, PendingFails

-----------------------------------------------------------------------------
(* The inductive invariant. *)

\* Rows are in tables that there are, written at a level that there is.
Born ==
    /\ outcome \in {"ok", "rows", "schema"}
    /\ DOMAIN born \subseteq DOMAIN schema
    /\ \A t \in DOMAIN born : born[t] \in 0..Latest

\* Catalogued is what makes the rest inductive: where a run starts is what says
\* where it ends, and that no jti is there before the seventh migration.
IInv == Catalogued /\ Born /\ TokenRowsComplete

\* A transaction leaves all as it was, or the schema and the level it ended in.
LEMMA TransactionStep ==
    ASSUME IInv, NEW x, NEW to \in 0..Latest, Transaction(x, to), Arrives(x, to),
           x.outcome = "ok" /\ "token" \in DOMAIN born =>
               \A added \in {7, 11, 14} : to >= added => level >= added
    PROVE  IInv'
  <1>1. CASE x.outcome = "ok"
    <2>1. /\ schema' = x.schema /\ level' = to /\ release' = release /\ outcome' = "ok"
          /\ born' = [t \in DOMAIN born \intersect DOMAIN x.schema |-> born[t]]
      BY <1>1 DEF Transaction
    <2>2. Catalogued'
      BY <1>1, <2>1 DEF IInv, Catalogued, Arrives
    <2>3. Born'
      BY <2>1 DEF IInv, Born
    <2>4. TokenRowsComplete'
      BY <1>1, <2>1 DEF IInv, TokenRowsComplete
    <2> QED
      BY <2>2, <2>3, <2>4 DEF IInv
  <1>2. CASE x.outcome # "ok"
    <2>1. outcome' = "rows" /\ UNCHANGED <<schema, level, born, release>>
      BY <1>2 DEF Transaction, Arrives
    <2> QED
      BY <2>1 DEF IInv, Catalogued, Born, TokenRowsComplete
  <1> QED
    BY <1>1, <1>2

\* `migration:run` stops where rows would be left without a column.
LEMMA RunStep == IInv /\ MigrationRun => IInv'
  <1> SUFFICES ASSUME IInv, MigrationRun PROVE IInv'
    OBVIOUS
  <1>1. level < release /\ release \in 0..Latest /\ level \in Nat /\ release \in Nat
    BY ReleasesAssumption, Which DEF IInv, Catalogued, MigrationRun
  <1>2. PICK picky \in BOOLEAN :
           Transaction(ExecutePending(Begun, level, release, DOMAIN born, picky), release)
    BY DEF MigrationRun
  <1>3. Begun.outcome = "ok" /\ Known(level, Begun.schema)
    BY DEF IInv, Catalogued, Begun
  <1> DEFINE x == ExecutePending(Begun, level, release, DOMAIN born, picky)
  <1>4. Arrives(x, release)
    <2>1. level <= release
      BY <1>1
    <2> QED
      BY <1>1, <1>3, <2>1, RunArrives
  <1>5. ASSUME x.outcome = "ok", "token" \in DOMAIN born, NEW added \in {7, 11, 14},
               release >= added
        PROVE  level >= added
    <2>1. CASE level < added
      <3>1. added <= release
        BY <1>1, <1>5
      <3>2. x.outcome # "ok"
        BY <1>1, <1>3, <1>5, <2>1, <3>1, RunStops
      <3> QED
        BY <1>5, <3>2
    <2>2. CASE ~ (level < added)
      BY <1>1, <2>2
    <2> QED
      BY <2>1, <2>2
  <1> HIDE DEF x
  <1> QED
    BY <1>1, <1>2, <1>4, <1>5, TransactionStep DEF x

\* `migration:revert` lowers the level by one.
LEMMA RevertStep == IInv /\ MigrationRevert => IInv'
  <1> SUFFICES ASSUME IInv, MigrationRevert PROVE IInv'
    OBVIOUS
  <1>1. level \in 1..Latest /\ level - 1 \in 0..Latest
    BY Which DEF IInv, Catalogued, MigrationRevert
  <1>2. PICK picky \in BOOLEAN :
           Transaction(Execute(Begun, Migration[level].down, DOMAIN born, picky), level - 1)
    BY DEF MigrationRevert
  <1>3. Begun.outcome = "ok" /\ Known(level, Begun.schema)
    BY DEF IInv, Catalogued, Begun
  <1> DEFINE x == Execute(Begun, Migration[level].down, DOMAIN born, picky)
  <1>4. Arrives(x, level - 1)
    BY <1>1, <1>3, RevertArrives
  <1>5. \A added \in {7, 11, 14} : level - 1 >= added => level >= added
    BY <1>1, Which
  <1> HIDE DEF x
  <1> QED
    BY <1>1, <1>2, <1>4, <1>5, TransactionStep DEF x

\* A row is written at the level of the schema; no other step raises the level.
LEMMA WriteStep ==
    ASSUME NEW t \in Watched, IInv, Write(t)
    PROVE  IInv'
  <1>1. /\ born' = [y \in DOMAIN born \union {t} |-> IF y = t THEN level ELSE born[y]]
        /\ t \in DOMAIN schema
    BY DEF Write, With
  <1>2. UNCHANGED <<schema, level, release, outcome>>
    BY DEF Write
  <1>3. Catalogued'
    BY <1>2 DEF IInv, Catalogued
  <1>4. Born'
    BY <1>1, <1>2 DEF IInv, Born, Catalogued
  <1>5. TokenRowsComplete'
    BY <1>1, <1>2 DEF IInv, TokenRowsComplete
  <1> QED
    BY <1>3, <1>4, <1>5 DEF IInv

LEMMA EmptyStep ==
    ASSUME NEW t \in Watched, IInv, Empty(t)
    PROVE  IInv'
  <1>1. born' = [y \in DOMAIN born \ {t} |-> born[y]]
    BY DEF Empty, Without
  <1>2. UNCHANGED <<schema, level, release, outcome>>
    BY DEF Empty
  <1>3. Catalogued'
    BY <1>2 DEF IInv, Catalogued
  <1>4. Born'
    BY <1>1, <1>2 DEF IInv, Born
  <1>5. TokenRowsComplete'
    BY <1>1, <1>2 DEF IInv, TokenRowsComplete
  <1> QED
    BY <1>3, <1>4, <1>5 DEF IInv

\* The images of a later release.
LEMMA DeployStep == IInv /\ Deploy => IInv'
  BY DEF Deploy, IInv, Catalogued, Born, TokenRowsComplete

-----------------------------------------------------------------------------
(* What the entities map. *)

\* A table fits an entity when they have the same columns, and each constraint
\* of one is a constraint of the other.
LEMMA Fitting ==
    ASSUME NEW tab, NEW e, NEW C,
           C = {m \in DOMAIN tab : tab[m].kind = "column"},
           C = {m \in DOMAIN e : e[m].kind = "column"},
           \A m \in C : tab[m] = e[m],
           \A m \in DOMAIN tab \ C : \E k \in DOMAIN e \ C : tab[m] = e[k],
           \A k \in DOMAIN e \ C : \E m \in DOMAIN tab \ C : tab[m] = e[k]
    PROVE  Fits(tab, e)
  <1> DEFINE Columns(f) == {<<n, f[n]>> : n \in {m \in DOMAIN f : f[m].kind = "column"}}
             Constraints(f) == {f[n] : n \in {m \in DOMAIN f : f[m].kind # "column"}}
  <1>1. Columns(tab) = {<<n, tab[n]>> : n \in C} /\ Columns(e) = {<<n, e[n]>> : n \in C}
    OBVIOUS
  <1>2. {<<n, tab[n]>> : n \in C} = {<<n, e[n]>> : n \in C}
    OBVIOUS
  <1>3. /\ {m \in DOMAIN tab : tab[m].kind # "column"} = DOMAIN tab \ C
        /\ {m \in DOMAIN e : e[m].kind # "column"} = DOMAIN e \ C
    OBVIOUS
  <1>4. /\ Constraints(tab) = {tab[n] : n \in DOMAIN tab \ C}
        /\ Constraints(e) = {e[n] : n \in DOMAIN e \ C}
    BY <1>3
  <1>5. {tab[n] : n \in DOMAIN tab \ C} = {e[n] : n \in DOMAIN e \ C}
    OBVIOUS
  <1>6. Columns(tab) = Columns(e)
    BY <1>1, <1>2
  <1>7. Constraints(tab) = Constraints(e)
    BY <1>4, <1>5
  <1> QED
    BY <1>6, <1>7 DEF Fits

\* The labels of the type are those of the code.
LEMMA LabelsAgree == LaterLabels = SecurityEventType
  BY DEF LaterLabels, FirstLabels, SecurityEventType

\* Entity by entity, over the tables that all migrations lead to.
LEMMA UsersFit == Fits(User20, UserEntity)
  <1> DEFINE C == {"id", "name", "email", "password", "isVerified", "createdAt", "deleted_at"}
  <1>1. C = {m \in DOMAIN User20 : User20[m].kind = "column"}
    BY Kinds DEF User20
  <1>2. C = {m \in DOMAIN UserEntity : UserEntity[m].kind = "column"}
    BY Kinds DEF UserEntity
  <1>3. \A m \in C : User20[m] = UserEntity[m]
    BY DEF User20, UserEntity
  <1>4. /\ User20["UQ_e12875"] = UserEntity["email_unique"]
    BY DEF User20, UserEntity
  <1>5. /\ DOMAIN User20 \ C = {"UQ_e12875"}
        /\ DOMAIN UserEntity \ C = {"email_unique"}
    BY DEF User20, UserEntity
  <1> HIDE DEF C
  <1>6. \A m \in DOMAIN User20 \ C : \E k \in DOMAIN UserEntity \ C : User20[m] = UserEntity[k]
    BY <1>4, <1>5
  <1>7. \A k \in DOMAIN UserEntity \ C : \E m \in DOMAIN User20 \ C : User20[m] = UserEntity[k]
    BY <1>4, <1>5
  <1> QED
    BY <1>1, <1>2, <1>3, <1>6, <1>7, Fitting

LEMMA ClientsFit == Fits(Client9, ClientEntity)
  <1> DEFINE C == {"id", "client_id", "clientSecret", "isConfidential", "name", "redirectUris",
                   "grantTypes", "scopes", "isActive", "createdAt"}
  <1>1. C = {m \in DOMAIN Client9 : Client9[m].kind = "column"}
    BY Kinds DEF Client9
  <1>2. C = {m \in DOMAIN ClientEntity : ClientEntity[m].kind = "column"}
    BY Kinds DEF ClientEntity
  <1>3. \A m \in C : Client9[m] = ClientEntity[m]
    BY DEF Client9, ClientEntity
  <1>4. /\ Client9["UQ_43cd26"] = ClientEntity["unique_2"]
        /\ Client9["UQ_8d877a"] = ClientEntity["unique_4"]
        /\ Client9["UQ_7510ce"] = ClientEntity["unique_1"]
        /\ Client9["UQ_480f88"] = ClientEntity["unique_3"]
    BY DEF Client9, ClientEntity
  <1>5. /\ DOMAIN Client9 \ C = {"UQ_43cd26", "UQ_8d877a", "UQ_7510ce", "UQ_480f88"}
        /\ DOMAIN ClientEntity \ C = {"unique_2", "unique_4", "unique_1", "unique_3"}
    BY DEF Client9, ClientEntity
  <1> HIDE DEF C
  <1>6. \A m \in DOMAIN Client9 \ C : \E k \in DOMAIN ClientEntity \ C : Client9[m] =
            ClientEntity[k]
    BY <1>4, <1>5
  <1>7. \A k \in DOMAIN ClientEntity \ C : \E m \in DOMAIN Client9 \ C : Client9[m] =
            ClientEntity[k]
    BY <1>4, <1>5
  <1> QED
    BY <1>1, <1>2, <1>3, <1>6, <1>7, Fitting

LEMMA ConsentsFit == Fits(Consent10, ConsentEntity)
  <1> DEFINE C == {"id", "scopes", "user_id", "client_id", "grantedAt", "expires_at",
                   "revoke_at"}
  <1>1. C = {m \in DOMAIN Consent10 : Consent10[m].kind = "column"}
    BY Kinds DEF Consent10
  <1>2. C = {m \in DOMAIN ConsentEntity : ConsentEntity[m].kind = "column"}
    BY Kinds DEF ConsentEntity
  <1>3. \A m \in C : Consent10[m] = ConsentEntity[m]
    BY DEF Consent10, ConsentEntity
  <1>4. /\ Consent10["FK_a5cfa7"] = ConsentEntity["user"]
        /\ Consent10["FK_0e984f"] = ConsentEntity["client"]
    BY DEF Consent10, ConsentEntity
  <1>5. /\ DOMAIN Consent10 \ C = {"FK_a5cfa7", "FK_0e984f"}
        /\ DOMAIN ConsentEntity \ C = {"user", "client"}
    BY DEF Consent10, ConsentEntity
  <1> HIDE DEF C
  <1>6. \A m \in DOMAIN Consent10 \ C : \E k \in DOMAIN ConsentEntity \ C : Consent10[m] =
            ConsentEntity[k]
    BY <1>4, <1>5
  <1>7. \A k \in DOMAIN ConsentEntity \ C : \E m \in DOMAIN Consent10 \ C : Consent10[m] =
            ConsentEntity[k]
    BY <1>4, <1>5
  <1> QED
    BY <1>1, <1>2, <1>3, <1>6, <1>7, Fitting

LEMMA TokensFit == Fits(Token14, TokenEntity)
  <1> DEFINE C == {"id", "token_family_id", "jti", "user_id", "consent_id", "refresh_token",
                   "expires_at", "deleted_at"}
  <1>1. C = {m \in DOMAIN Token14 : Token14[m].kind = "column"}
    BY Kinds DEF Token14
  <1>2. C = {m \in DOMAIN TokenEntity : TokenEntity[m].kind = "column"}
    BY Kinds DEF TokenEntity
  <1>3. \A m \in C : Token14[m] = TokenEntity[m]
    BY DEF Token14, TokenEntity
  <1>4. /\ Token14["UQ_7e0bb4"] = TokenEntity["jti_unique"]
        /\ Token14["FK_05a103"] = TokenEntity["consent"]
        /\ Token14["FK_e50ca8"] = TokenEntity["user"]
    BY DEF Token14, TokenEntity
  <1>5. /\ DOMAIN Token14 \ C = {"UQ_7e0bb4", "FK_05a103", "FK_e50ca8"}
        /\ DOMAIN TokenEntity \ C = {"jti_unique", "consent", "user"}
    BY DEF Token14, TokenEntity
  <1> HIDE DEF C
  <1>6. \A m \in DOMAIN Token14 \ C : \E k \in DOMAIN TokenEntity \ C : Token14[m] = TokenEntity[k]
    BY <1>4, <1>5
  <1>7. \A k \in DOMAIN TokenEntity \ C : \E m \in DOMAIN Token14 \ C : Token14[m] = TokenEntity[k]
    BY <1>4, <1>5
  <1> QED
    BY <1>1, <1>2, <1>3, <1>6, <1>7, Fitting

LEMMA SessionsFit == Fits(Sessions14, SessionEntity)
  <1> DEFINE C == {"id", "jti", "user_id", "consent_id", "token_family_id", "expires_at",
                   "created_at", "updated_at", "deleted_at"}
  <1>0. SessionEntity =
          [id |-> Def("uuid"), jti |-> Req("varchar"), user_id |-> Req("uuid"),
           consent_id |-> Opt("uuid"), token_family_id |-> Req("varchar"),
           expires_at |-> Req("timestamp"), created_at |-> Dated, updated_at |-> Dated,
           deleted_at |-> Opt("timestamptz"), user |-> Cascade("user_id", "user"),
           consent |-> Cascade("consent_id", "consent")]
    BY DEF SessionEntity, Dated
  <1>1. C = {m \in DOMAIN Sessions14 : Sessions14[m].kind = "column"}
    BY Kinds DEF Sessions14
  <1>2. C = {m \in DOMAIN SessionEntity : SessionEntity[m].kind = "column"}
    BY Kinds, <1>0
  <1>3. \A m \in C : Sessions14[m] = SessionEntity[m]
    BY <1>0 DEF Sessions14
  <1>4. /\ Sessions14["FK_085d54"] = SessionEntity["user"]
        /\ Sessions14["FK_3b579c"] = SessionEntity["consent"]
    BY <1>0 DEF Sessions14
  <1>5. /\ DOMAIN Sessions14 \ C = {"FK_085d54", "FK_3b579c"}
        /\ DOMAIN SessionEntity \ C = {"user", "consent"}
    BY <1>0 DEF Sessions14
  <1> HIDE DEF C
  <1>6. \A m \in DOMAIN Sessions14 \ C : \E k \in DOMAIN SessionEntity \ C : Sessions14[m] =
            SessionEntity[k]
    BY <1>4, <1>5
  <1>7. \A k \in DOMAIN SessionEntity \ C : \E m \in DOMAIN Sessions14 \ C : Sessions14[m] =
            SessionEntity[k]
    BY <1>4, <1>5
  <1> QED
    BY <1>1, <1>2, <1>3, <1>6, <1>7, Fitting

LEMMA EventsFit == Fits(SecurityEvent19, SecurityEventEntity)
  <1> DEFINE C == {"id", "type", "ip", "userAgent", "email", "severity", "reason", "occurred_at"}
  <1>1. C = {m \in DOMAIN SecurityEvent19 : SecurityEvent19[m].kind = "column"}
    BY Kinds DEF SecurityEvent19
  <1>2. C = {m \in DOMAIN SecurityEventEntity : SecurityEventEntity[m].kind = "column"}
    BY Kinds DEF SecurityEventEntity
  <1>3. \A m \in C : SecurityEvent19[m] = SecurityEventEntity[m]
    BY LabelsAgree DEF SecurityEvent19, SecurityEventEntity
  <1>5. /\ DOMAIN SecurityEvent19 \ C = {}
        /\ DOMAIN SecurityEventEntity \ C = {}
    BY DEF SecurityEvent19, SecurityEventEntity
  <1> HIDE DEF C
  <1>6. \A m \in DOMAIN SecurityEvent19 \ C : \E k \in DOMAIN SecurityEventEntity \ C :
            SecurityEvent19[m] = SecurityEventEntity[k]
    BY <1>5
  <1>7. \A k \in DOMAIN SecurityEventEntity \ C : \E m \in DOMAIN SecurityEvent19 \ C :
            SecurityEvent19[m] = SecurityEventEntity[k]
    BY <1>5
  <1> QED
    BY <1>1, <1>2, <1>3, <1>6, <1>7, Fitting
LEMMA LastFits ==
    ASSUME NEW t \in DOMAIN Entities
    PROVE  t \in DOMAIN Level20 /\ Fits(Level20[t], Entities[t])
  <1>1. t \in {"user", "client", "consent", "token", "sessions", "security_event"}
    BY DEF Entities
  <1>2. /\ DOMAIN Level20 = {"user", "client", "user_client_consent", "consent", "token",
               "sessions",
              "security_event", "security_event_type_enum", "security_event_severity_enum"}
        /\ Level20["user"] = User20 /\ Level20["client"] = Client9
        /\ Level20["consent"] = Consent10 /\ Level20["token"] = Token14
        /\ Level20["sessions"] = Sessions14 /\ Level20["security_event"] = SecurityEvent19
    BY DEF Level20, Recorded
  <1>3. /\ Entities["user"] = UserEntity /\ Entities["client"] = ClientEntity
        /\ Entities["consent"] = ConsentEntity /\ Entities["token"] = TokenEntity
        /\ Entities["sessions"] = SessionEntity /\ Entities["security_event"] = SecurityEventEntity
    BY DEF Entities
  <1> QED
    BY <1>1, <1>2, <1>3, UsersFit, ClientsFit, ConsentsFit, TokensFit, SessionsFit, EventsFit

-----------------------------------------------------------------------------
(* The theorems. *)

\* Whatever is deployed, run, reverted, written and emptied, in any order: the
\* inductive invariant holds.
THEOREM Invariance == Spec => []IInv
  <1>1. Init => IInv
    <2> SUFFICES ASSUME Init PROVE IInv
      OBVIOUS
    <2>1. schema = <<>> /\ level = 0 /\ born = <<>> /\ release \in Releases /\ outcome = "ok"
      BY DEF Init, SchemaInit
    <2>2. DOMAIN schema = {} /\ DOMAIN born = {}
      BY <2>1
    <2>3. Catalogued
      BY <2>1, <2>2, Which, Members DEF Catalogued
    <2> QED
      BY <2>1, <2>2, <2>3 DEF IInv, Born, TokenRowsComplete
  <1>2. IInv /\ [Next]_vars => IInv'
    <2> SUFFICES ASSUME IInv, [Next]_vars PROVE IInv'
      OBVIOUS
    <2>1. CASE UNCHANGED schemaVars
      BY <2>1 DEF schemaVars, IInv, Catalogued, Born, TokenRowsComplete
    <2>2. CASE Operator
      BY <2>2, RunStep, RevertStep DEF Operator
    <2>3. CASE NewRelease
      BY <2>3, DeployStep DEF NewRelease
    <2>4. CASE Requests
      BY <2>4, WriteStep, EmptyStep DEF Requests
    <2> QED
      BY <2>1, <2>2, <2>3, <2>4 DEF Next, Process, vars
  <1> QED
    BY <1>1, <1>2, PTL DEF Spec

\* For every list of releases: the type invariant, by which rows are in tables
\* that there are and a full revert leaves none.
THEOREM TypeCorrect == Spec => []TypeOK
  <1>1. IInv => TypeOK
    BY Members DEF IInv, Catalogued, Born, TypeOK
  <1> QED
    BY <1>1, Invariance, PTL

\* For every list of releases, and every order of runs and reverts: a statement
\* is refused because of rows, never because of the schema it meets.
THEOREM NeverMisled == Spec => []RefusedOnlyByRows
  <1>1. IInv => RefusedOnlyByRows
    BY DEF IInv, Catalogued, RefusedOnlyByRows
  <1> QED
    BY <1>1, Invariance, PTL

\* For every list of releases, and every detour of reverts and runs: with all
\* migrations executed, each table is what the entity of the code maps.
THEOREM EntitiesFit == Spec => []LatestFitsEntities
  <1>1. IInv => LatestFitsEntities
    <2> SUFFICES ASSUME IInv, level = Latest, NEW t \in DOMAIN Entities
                 PROVE  t \in DOMAIN schema /\ Fits(schema[t], Entities[t])
      BY DEF LatestFitsEntities
    <2>1. schema = Level20
      BY Which, Members DEF IInv, Catalogued
    <2> QED
      BY <2>1, LastFits
  <1> QED
    BY <1>1, Invariance, PTL

\* For every list of releases: a refresh token of the database has a jti, a
\* family and an expiry that a release chose, because a used token table stops
\* the run that would add them.
THEOREM RowsComplete == Spec => []TokenRowsComplete
  <1>1. IInv => TokenRowsComplete
    BY DEF IInv
  <1> QED
    BY <1>1, Invariance, PTL
=============================================================================
