---------------------------- MODULE TokenSession ----------------------------
(***************************************************************************)
(* Refresh tokens, sessions and token families of ONE user, as the token,  *)
(* session and oauth packages handle them.  Every request handler is a     *)
(* process whose steps are the intervals between its awaits: Node runs one *)
(* of them at a time, and the handlers interleave at every await.          *)
(*                                                                         *)
(* - A token and its session are created by one transaction and share a    *)
(*   row number; row numbers follow the transactions' start times, which   *)
(*   is the order of created_at.                                           *)
(* - A credential stands for the refresh token and the jti that are drawn  *)
(*   together; a new family is named by its first credential.  They are    *)
(*   random, so they are numbered here in the order in which they become   *)
(*   visible.  0 is no credential, no row, and a family still to be drawn. *)
(* - A row is "none" (never inserted, or deleted), "live", or "soft"       *)
(*   (deleted_at is set: SELECT skips it, UPDATE and DELETE do not).       *)
(* - A transaction that writes takes effect when it commits.  The family   *)
(*   deletion is the one whose statements see different snapshots: it      *)
(*   holds its token rows while it waits for its second statement.         *)
(***************************************************************************)
EXTENDS Naturals, FiniteSets

CONSTANTS
    Req,         \* the requests that may be in progress at once
    Consent,     \* the user's consents, one per client
    NoConsent,   \* the consent_id NULL of a direct login
    SessionCap,  \* 5 in generate-token.use-case.ts
    MaxLogin,    \* bound: token/session rows ever inserted
    MaxCred      \* bound: credentials ever stored

ASSUME ConstantsAssumption ==
    /\ NoConsent \notin Consent
    /\ SessionCap \in Nat \ {0}
    /\ MaxLogin \in Nat
    /\ MaxCred \in Nat
    /\ IsFiniteSet(Req)

Row    == 1..MaxLogin
Cred   == 1..MaxCred
Grant  == Consent \cup {NoConsent}
NoRow  == [st |-> "none", cred |-> 0, family |-> 0, consent |-> NoConsent]
RowRec == [st: {"live", "soft"}, cred: Cred, family: Cred, consent: Grant]
          \cup {NoRow}

VARIABLES
    tok,       \* the token table
    sess,      \* the sessions table
    used,      \* Redis token-family-used:<token> -> its family
    blocklist, \* Redis revoke-token-blocklist:<jti>
    ending,    \* credentials with less than a whole second left to live
    expired,   \* credentials whose expires_at has passed
    lastRow,   \* the last row number given out
    lastCred,  \* the last credential that became visible
    pc,        \* where each request stands; "idle" when there is none
    loc,       \* what a request remembers across its awaits
    held,      \* token rows a family deletion has locked
    home,      \* history: the row a credential was written to
    parent,    \* history: the credential that was redeemed for this one
    stillborn, \* history: credentials written to a row already soft-deleted
    reported   \* history: credentials answered with "token family reused"

db      == <<tok, sess>>
redis   == <<used, blocklist>>
clock   == <<ending, expired>>
counts  == <<lastRow, lastCred>>
history == <<home, parent, stillborn, reported>>
vars    == <<tok, sess, used, blocklist, ending, expired, lastRow, lastCred, pc,
             loc, held, home, parent, stillborn, reported>>

Step == {"idle", "killTokens", "killSessions", "find", "flag", "reread", "rotate",
         "revokeRead", "revokeDelete", "block", "count", "evict", "insert"}

Local == [cred: 0..MaxCred, family: 0..MaxCred, row: 0..MaxLogin,
          victim: 0..MaxLogin, consent: Grant]
NoLocal == [cred |-> 0, family |-> 0, row |-> 0, victim |-> 0,
            consent |-> NoConsent]

Init ==
    /\ tok  = [r \in Row |-> NoRow]
    /\ sess = [r \in Row |-> NoRow]
    /\ used = [c \in Cred |-> 0]
    /\ blocklist = {}
    /\ ending = {}
    /\ expired = {}
    /\ lastRow = 0
    /\ lastCred = 0
    /\ pc   = [p \in Req |-> "idle"]
    /\ loc  = [p \in Req |-> NoLocal]
    /\ held = [p \in Req |-> {}]
    /\ home   = [c \in Cred |-> 0]
    /\ parent = [c \in Cred |-> 0]
    /\ stillborn = {}
    /\ reported = {}

-----------------------------------------------------------------------------
(* What the queries see. *)

Stored(table, r) == table[r].st # "none"
Live(table, r)   == table[r].st = "live"

\* A SELECT by refresh token: soft-deleted rows are filtered out.
LiveWith(c) == {r \in Row : Live(tok, r) /\ tok[r].cred = c}

\* The sessions a DELETE or UPDATE by jti reaches, soft-deleted ones included.
SessionsWith(c) == {r \in Row : Stored(sess, r) /\ sess[r].cred = c}

\* findByUserIdAndConsentId; findByUserId for a login without a consent.
CountedSessions(k) ==
    {r \in Row : Live(sess, r) /\ (k = NoConsent \/ sess[r].consent = k)}

\* The candidates of deleteOldestSessionByUserId: consentId || IsNull().
EvictableSessions(k) == {r \in Row : Live(sess, r) /\ sess[r].consent = k}

Families(k) == {tok[r].family : r \in {x \in Row : Live(tok, x) /\ tok[x].consent = k}}

\* TypeORM's "affected": a statement that reached no row makes the handler throw.
Unchecked(S) == TRUE                       \* mutant: the result is ignored
Affected(S) == S # {}

AtCapLate(k) == Cardinality(CountedSessions(k)) > SessionCap  \* mutant: off by one
AtCap(k) == Cardinality(CountedSessions(k)) >= SessionCap

\* The family a login joins; a new one is named by its first credential, c.
FamilyJoined(p, c) == IF loc[p].family = 0 THEN c ELSE loc[p].family

HeldByOthers(p) == UNION {held[q] : q \in Req \ {p}}

Goto(p, step) == pc' = [pc EXCEPT ![p] = step]

\* The handler answers or throws: its transaction and its locals are gone.
Leave(p) ==
    /\ Goto(p, "idle")
    /\ loc'  = [loc EXCEPT ![p] = NoLocal]
    /\ held' = [held EXCEPT ![p] = {}]

-----------------------------------------------------------------------------
(* POST /oauth/refresh-token. *)

\* Any credential ever answered may be presented again, by anyone.
RefreshConsult(p, c) ==
    /\ pc[p] = "idle"
    /\ home[c] # 0
    /\ Goto(p, IF used[c] # 0 THEN "killTokens" ELSE "find")
    /\ loc' = [loc EXCEPT ![p].cred = c, ![p].family = used[c]]
    /\ UNCHANGED <<db, redis, clock, counts, held, history>>

\* mutant: only the row of the presented token is deleted
KillToken(p) ==
    LET S == {r \in Row : Stored(tok, r) /\ tok[r].cred = loc[p].cred} IN
    /\ pc[p] = "killTokens"
    /\ S \cap HeldByOthers(p) = {}
    /\ held' = [held EXCEPT ![p] = S]
    /\ Goto(p, "killSessions")
    /\ UNCHANGED <<db, redis, clock, counts, loc, history>>

\* First statement of the family deletion: UPDATE token SET deleted_at.
KillTokens(p) ==
    LET S == {r \in Row : Stored(tok, r) /\ tok[r].family = loc[p].family} IN
    /\ pc[p] = "killTokens"
    /\ S \cap HeldByOthers(p) = {}
    /\ held' = [held EXCEPT ![p] = S]
    /\ Goto(p, "killSessions")
    /\ UNCHANGED <<db, redis, clock, counts, loc, history>>

\* Second statement and commit; no session in the family rolls both back.
KillSessions(p) ==
    LET T == {r \in Row : Stored(sess, r) /\ sess[r].family = loc[p].family} IN
    /\ pc[p] = "killSessions"
    /\ Affected(T)
    /\ tok'  = [r \in Row |-> IF r \in held[p] THEN [tok[r] EXCEPT !.st = "soft"]
                                               ELSE tok[r]]
    /\ sess' = [r \in Row |-> IF r \in T THEN [sess[r] EXCEPT !.st = "soft"]
                                         ELSE sess[r]]
    /\ reported' = reported \cup {loc[p].cred}
    /\ Leave(p)
    /\ UNCHANGED <<redis, clock, counts, home, parent, stillborn>>

\* A token of a direct login has no consent to read: it is never found here.
RefreshFind(p) ==
    /\ pc[p] = "find"
    /\ \E r \in LiveWith(loc[p].cred) :
          /\ tok[r].consent # NoConsent
          /\ loc' = [loc EXCEPT ![p].family = tok[r].family]
    /\ loc[p].cred \notin expired
    /\ Goto(p, "flag")
    /\ UNCHANGED <<db, redis, clock, counts, held, history>>

\* mutant: the token is not marked
RefreshUnflagged(p) ==
    /\ pc[p] = "flag"
    /\ Goto(p, "reread")
    /\ UNCHANGED <<db, redis, clock, counts, loc, held, history>>

\* The token is marked as used before it is rotated, for the whole seconds it
\* has left; Redis rejects a lifetime of 0.
RefreshFlag(p) ==
    /\ pc[p] = "flag"
    /\ loc[p].cred \notin ending
    /\ used' = [used EXCEPT ![loc[p].cred] = loc[p].family]
    /\ Goto(p, "reread")
    /\ UNCHANGED <<db, blocklist, clock, counts, loc, held, history>>

\* TokenService.refreshToken finds the row again and signs a new access token.
RefreshReread(p) ==
    /\ pc[p] = "reread"
    /\ \E r \in LiveWith(loc[p].cred) : loc' = [loc EXCEPT ![p].row = r]
    /\ Goto(p, "rotate")
    /\ UNCHANGED <<db, redis, clock, counts, held, history>>

\* UPDATE token WHERE id, UPDATE sessions WHERE jti = the old one; either
\* touching no row rolls both back.
RefreshRotate(p) ==
    LET r == loc[p].row
        old == loc[p].cred
        new == lastCred + 1
    IN
    /\ pc[p] = "rotate"
    /\ lastCred < MaxCred
    /\ r \notin HeldByOthers(p)
    /\ Affected({x \in {r} : Stored(tok, x)})
    /\ Affected(SessionsWith(old))
    /\ tok'  = [tok EXCEPT ![r].cred = new]
    /\ sess' = [s \in Row |-> IF s \in SessionsWith(old)
                                THEN [sess[s] EXCEPT !.cred = new] ELSE sess[s]]
    /\ home'   = [home EXCEPT ![new] = r]
    /\ parent' = [parent EXCEPT ![new] = old]
    /\ stillborn' = IF Live(tok, r) THEN stillborn ELSE stillborn \cup {new}
    /\ lastCred' = new
    /\ Leave(p)
    /\ UNCHANGED <<redis, clock, lastRow, reported>>

-----------------------------------------------------------------------------
(* POST /oauth/revoke-token. *)

RevokeFind(p, c) ==
    /\ pc[p] = "idle"
    /\ \E r \in LiveWith(c) : tok[r].consent # NoConsent
    /\ c \notin expired
    /\ loc' = [loc EXCEPT ![p].cred = c]
    /\ Goto(p, "revokeRead")
    /\ UNCHANGED <<db, redis, clock, counts, held, history>>

RevokeRead(p) ==
    /\ pc[p] = "revokeRead"
    /\ LiveWith(loc[p].cred) # {}
    /\ Goto(p, "revokeDelete")
    /\ UNCHANGED <<db, redis, clock, counts, loc, held, history>>

\* DELETE token WHERE refresh_token, DELETE sessions WHERE jti; either touching
\* no row rolls both back.
RevokeDelete(p) ==
    LET T == {r \in Row : Stored(tok, r) /\ tok[r].cred = loc[p].cred} IN
    /\ pc[p] = "revokeDelete"
    /\ Affected(T)
    /\ T \cap HeldByOthers(p) = {}
    /\ Affected(SessionsWith(loc[p].cred))
    /\ tok'  = [r \in Row |-> IF r \in T THEN NoRow ELSE tok[r]]
    /\ sess' = [r \in Row |-> IF r \in SessionsWith(loc[p].cred) THEN NoRow ELSE sess[r]]
    /\ Goto(p, "block")
    /\ UNCHANGED <<redis, clock, counts, loc, held, history>>

RevokeBlock(p) ==
    /\ pc[p] = "block"
    /\ blocklist' = blocklist \cup {loc[p].cred}
    /\ Leave(p)
    /\ UNCHANGED <<db, used, clock, counts, history>>

-----------------------------------------------------------------------------
(* TokenService.generate: the code exchange, and the direct login.           *)

\* A consent's login joins the family of any live token of that consent.
LoginRead(p, k) ==
    /\ pc[p] = "idle"
    /\ \E f \in IF k = NoConsent \/ Families(k) = {} THEN {0} ELSE Families(k) :
          loc' = [loc EXCEPT ![p].family = f, ![p].consent = k]
    /\ Goto(p, "count")
    /\ UNCHANGED <<db, redis, clock, counts, held, history>>

LoginCount(p) ==
    /\ pc[p] = "count"
    /\ lastRow < MaxLogin
    /\ lastRow' = lastRow + 1
    /\ loc' = [loc EXCEPT ![p].row = lastRow + 1]
    /\ Goto(p, IF AtCap(loc[p].consent) THEN "evict" ELSE "insert")
    /\ UNCHANGED <<db, redis, clock, lastCred, held, history>>

LoginEvict(p) ==
    LET E == EvictableSessions(loc[p].consent) IN
    /\ pc[p] = "evict"
    /\ \E oldest \in E :
          /\ \A r \in E : oldest <= r
          /\ loc' = [loc EXCEPT ![p].victim = oldest]
    /\ Goto(p, "insert")
    /\ UNCHANGED <<db, redis, clock, counts, held, history>>

\* The commit: the victim, deleted by id, must still be there.
LoginInsert(p) ==
    LET l == loc[p]
        c == lastCred + 1
        new == [st |-> "live", cred |-> c,
                family |-> FamilyJoined(p, c),
                consent |-> l.consent]
    IN
    /\ pc[p] = "insert"
    /\ lastCred < MaxCred
    /\ l.victim # 0 => Stored(sess, l.victim)
    /\ tok'  = [tok EXCEPT ![l.row] = new]
    /\ sess' = [r \in Row |-> IF r = l.row THEN new
                              ELSE IF r = l.victim THEN NoRow ELSE sess[r]]
    /\ home' = [home EXCEPT ![c] = l.row]
    /\ lastCred' = c
    /\ Leave(p)
    /\ UNCHANGED <<redis, clock, lastRow, parent, stillborn, reported>>

-----------------------------------------------------------------------------
(* A guard of a handler throws, a database, Redis or signing call rejects, or *)
(* the process dies: an open transaction rolls back, earlier awaits stand.    *)
Abort(p) ==
    /\ pc[p] # "idle"
    /\ Leave(p)
    /\ UNCHANGED <<db, redis, clock, counts, history>>

\* The last second before expires_at begins: no mark can be set any more.
LastSecond(c) ==
    /\ home[c] # 0
    /\ c \notin ending
    /\ ending' = ending \cup {c}
    /\ UNCHANGED <<db, redis, expired, counts, pc, loc, held, history>>

\* A mark lapses somewhere in that second, or a little later when Redis got it late.
Lapse(c) ==
    /\ c \in ending
    /\ used[c] # 0
    /\ used' = [used EXCEPT ![c] = 0]
    /\ UNCHANGED <<db, blocklist, clock, counts, pc, loc, held, history>>

Expire(c) ==
    /\ c \in ending \ expired
    /\ expired' = expired \cup {c}
    /\ UNCHANGED <<db, redis, ending, counts, pc, loc, held, history>>

Next ==
    \/ \E p \in Req :
          \/ \E c \in Cred : RefreshConsult(p, c) \/ RevokeFind(p, c)
          \/ \E k \in Grant : LoginRead(p, k)
          \/ KillTokens(p) \/ KillSessions(p)
          \/ RefreshFind(p) \/ RefreshFlag(p) \/ RefreshReread(p) \/ RefreshRotate(p)
          \/ RevokeRead(p) \/ RevokeDelete(p) \/ RevokeBlock(p)
          \/ LoginCount(p) \/ LoginEvict(p) \/ LoginInsert(p)
          \/ Abort(p)
    \/ \E c \in Cred : LastSecond(c) \/ Lapse(c) \/ Expire(c)

Spec == Init /\ [][Next]_vars

-----------------------------------------------------------------------------
(* Properties. *)

TypeOK ==
    /\ tok  \in [Row -> RowRec]
    /\ sess \in [Row -> RowRec]
    /\ used \in [Cred -> 0..MaxCred]
    /\ blocklist \subseteq Cred
    /\ ending \subseteq Cred /\ expired \subseteq ending
    /\ lastRow \in 0..MaxLogin
    /\ lastCred \in 0..MaxCred
    /\ pc  \in [Req -> Step]
    /\ loc \in [Req -> Local]
    /\ held \in [Req -> SUBSET Row]
    /\ home   \in [Cred -> 0..MaxLogin]
    /\ parent \in [Cred -> 0..MaxCred]
    /\ stillborn \subseteq Cred
    /\ reported \subseteq Cred

Spent(c) == \E d \in Cred : parent[d] = c

\* A refresh token is redeemed at most once, however many requests present it
\* at the same time: the loser's UPDATE of the session finds no old jti.
RedeemedOnce ==
    \A c, d \in Cred : parent[c] # 0 /\ parent[c] = parent[d] => c = d

\* A session's jti, family and consent are those of its token, which exists:
\* rotation and revocation, which find the session by the token's jti, hit the
\* session that was created with the token.
SessionPairsToken ==
    \A r \in Row : Stored(sess, r) =>
        /\ Stored(tok, r)
        /\ sess[r].cred = tok[r].cred
        /\ sess[r].family = tok[r].family
        /\ sess[r].consent = tok[r].consent

\* A redeemed token stays marked in Redis until its last second, and the mark names
\* the family its row belongs to: a replay is noticed and hits the right family.
SpentIsMarked ==
    \A c \in Cred : Spent(c) /\ c \notin ending =>
        /\ used[c] # 0
        /\ Stored(tok, home[c]) => used[c] = tok[home[c]].family

\* Once a reuse is reported, nothing obtained from the reused token, by
\* rotations before, after or during the report, can be redeemed again.
ReportedLineageDead ==
    \A c \in reported : ~ Live(tok, home[c])

\* Revoking and refreshing the same token exclude each other: a token whose jti
\* is on the blocklist was never redeemed and is in no row.
RevokedNotRedeemed ==
    \A c \in blocklist :
        /\ ~ Spent(c)
        /\ \A r \in Row : Stored(tok, r) => tok[r].cred # c

\* The cap on sessions is checked in READ COMMITTED transactions that do not
\* see each other: it can be exceeded, by less than the logins in progress.
SessionBound ==
    \A k \in Grant :
        Cardinality(EvictableSessions(k)) <= SessionCap - 1 + Cardinality(Req)

\* Every credential's life is the one the module Rotation allows.
Status(c) ==
    IF home[c] = 0 THEN "unborn"
    ELSE IF c \in stillborn THEN "stillborn"
    ELSE IF LiveWith(c) # {} THEN "current" ELSE "closed"

Lives == INSTANCE Rotation WITH status <- [c \in Cred |-> Status(c)]

\* A credential is redeemed while it is current, for one successor, and is never
\* current again; a redemption overtaken by a family deletion answers a
\* credential that never works.  (refinement)
ImplementsRotation == Lives!Spec

(* What the repository says and the code does not do. *)

\* "Token family reused, token has already been used!" (the error of a reuse)
ReportsAreReuse == \A c \in reported : Spent(c)

\* "should generate a token without consent" (a test): a login that has to make
\* room finds a session to delete.
EvictionFindsVictim ==
    \A p \in Req : pc[p] = "evict" => EvictableSessions(loc[p].consent) # {}
=============================================================================
