----------------------------- MODULE AccessToken -----------------------------
(***************************************************************************)
(* The access tokens of one user: signed by a login or a refresh, ended by *)
(* their own lifetime or by the jti blocklist, judged by an introspection. *)
(* TokenSession has the tables in full; here a row of the token table is   *)
(* its jti, and what else ends a session is one step each.  Here the clock *)
(* counts, in seconds of some size: a JWT ends AccessLife after it was     *)
(* signed, a blocklist entry BlockTTL after it was written.                *)
(*                                                                         *)
(* A jti names its access token and its refresh token.  A refresh token    *)
(* outlives all of this; presented to the introspection it is no JWT.      *)
(***************************************************************************)
EXTENDS Naturals

CONSTANTS
    Req,         \* the requests that may be in progress at once
    AccessLife,  \* ACCESS_TOKEN_EXPIRES_IN, 15min by default
    BlockTTL,    \* 900 in redis-service.adapter.ts
    MaxRow,      \* bound: logins
    MaxJti,      \* bound: tokens signed
    MaxTime      \* bound: the clock

ASSUME ClockAssumption == {AccessLife, BlockTTL, MaxRow, MaxJti, MaxTime} \subseteq Nat

Row == 1..MaxRow
Jti == 1..MaxJti

VARIABLES
    now,
    row,       \* the token table: the jti of each row, 0 when there is none
    session,   \* the rows whose session is stored
    gone,      \* rows soft-deleted, with the session if it is stored: only an
               \* UPDATE or a DELETE reaches them
    direct,    \* the rows of direct logins, which have no consent
    signed,    \* when each access token was signed; MaxTime + 1: not yet
    answered,  \* the tokens some client was given
    blocked,   \* Redis revoke-token-blocklist:<jti>: when the entry ends, or 0
    pc, loc,   \* where each request stands, and what it remembers
    revoked,   \* history: revocations that committed
    confirmed  \* history: revocations that were answered with success

tables  == <<row, session, gone, direct>>
tokens  == <<signed, answered>>
history == <<revoked, confirmed>>
vars    == <<now, tables, tokens, blocked, pc, loc, history>>

NotSigned == MaxTime + 1
Drawn == {c \in Jti : signed[c] # NotSigned}
Step == {"idle", "sign", "write", "revoke", "block", "confirm", "verify", "lookup", "told"}
NoLocal == [row |-> 0, jti |-> 0, old |-> 0, direct |-> FALSE, knew |-> {},
            active |-> FALSE, at |-> 0]

TypeOK ==
    /\ now \in 0..MaxTime
    /\ row \in [Row -> 0..MaxJti] /\ {session, gone, direct} \subseteq SUBSET Row
    /\ signed \in [Jti -> 0..NotSigned] /\ answered \subseteq Drawn
    /\ blocked \in [Jti -> 0..MaxTime + BlockTTL]
    /\ pc \in [Req -> Step]
    /\ loc \in [Req -> [row: 0..MaxRow, jti: 0..MaxJti, old: 0..MaxJti, direct: BOOLEAN,
                        knew: SUBSET Jti, active: BOOLEAN, at: 0..MaxTime]]
    /\ revoked \subseteq Jti /\ confirmed \subseteq revoked
    /\ \A r, s \in Row : row[r] = row[s] /\ row[r] # 0 => r = s
    /\ \A r \in session : row[r] # 0 /\ row[r] \in answered

Init ==
    /\ now = 0
    /\ row = [r \in Row |-> 0] /\ session = {} /\ gone = {} /\ direct = {}
    /\ signed = [c \in Jti |-> NotSigned] /\ answered = {}
    /\ blocked = [c \in Jti |-> 0]
    /\ pc = [p \in Req |-> "idle"] /\ loc = [p \in Req |-> NoLocal]
    /\ revoked = {} /\ confirmed = {}

At(p, step)   == pc[p] = step
Goto(p, step) == pc' = [pc EXCEPT ![p] = step]
Leave(p)      == Goto(p, "idle") /\ loc' = [loc EXCEPT ![p] = NoLocal]

Expired(c) == now >= signed[c] + AccessLife

EntryForHalf == BlockTTL \div 2         \* mutant: the wrong number of seconds
EntryFor == BlockTTL

OnBlockList(c) == now < blocked[c]

-----------------------------------------------------------------------------
(* Login and refresh: the access token is signed before it is stored. *)

LoginStart(p, isDirect) ==
    /\ At(p, "idle")
    /\ Goto(p, "sign")
    /\ loc' = [loc EXCEPT ![p].direct = isDirect]
    /\ UNCHANGED <<now, tables, tokens, blocked, history>>

\* What a look-up by refresh token finds; the oauth package finds no token of
\* a direct login.
Found(r) == row[r] # 0 /\ r \notin gone \cup direct

RefreshRead(p, r) ==
    /\ At(p, "idle")
    /\ Found(r)
    /\ Goto(p, "sign")
    /\ loc' = [loc EXCEPT ![p].row = r, ![p].old = row[r]]
    /\ UNCHANGED <<now, tables, tokens, blocked, history>>

JtiReused(p) == IF loc[p].old # 0 THEN {loc[p].old} ELSE Jti \ Drawn  \* mutant: same jti
NewJti(p) == Jti \ Drawn

Sign(p) ==
    /\ At(p, "sign")
    /\ \E c \in NewJti(p) :
          /\ \A d \in Jti \ Drawn : c <= d
          /\ signed' = [signed EXCEPT ![c] = now]
          /\ loc' = [loc EXCEPT ![p].jti = c]
    /\ Goto(p, "write")
    /\ UNCHANGED <<now, tables, answered, blocked, history>>

LoginInsert(p) ==
    /\ At(p, "write") /\ loc[p].old = 0
    /\ \E r \in Row :
          /\ row[r] = 0 /\ \A s \in Row : row[s] = 0 => r <= s
          /\ row' = [row EXCEPT ![r] = loc[p].jti]
          /\ session' = session \cup {r}
          /\ direct' = IF loc[p].direct THEN direct \cup {r} ELSE direct
    /\ answered' = answered \cup {loc[p].jti}
    /\ Leave(p)
    /\ UNCHANGED <<now, gone, signed, blocked, history>>

\* Both tables must still have the old jti; soft-deleted rows count, and the
\* client is answered a token of a session that is over.
RefreshWrite(p) ==
    LET r == loc[p].row IN
    /\ At(p, "write") /\ loc[p].old # 0
    /\ row[r] = loc[p].old /\ r \in session
    /\ row' = [row EXCEPT ![r] = loc[p].jti]
    /\ answered' = answered \cup {loc[p].jti}
    /\ Leave(p)
    /\ UNCHANGED <<now, session, gone, direct, signed, blocked, history>>

-----------------------------------------------------------------------------
(* What else ends a session; none of it touches the blocklist. *)

\* The oldest session makes room: its token row stays.
Evict(r) ==
    /\ r \in session \ gone
    /\ session' = session \ {r}
    /\ UNCHANGED <<now, row, gone, direct, tokens, blocked, pc, loc, history>>

\* A reuse was reported: the token rows of the family are deleted, those whose
\* session was evicted included, and its sessions, of which there must be one.
FamilyDeleted(F) ==
    /\ F \cap direct = {} /\ \A r \in F : row[r] # 0
    /\ F \cap session # {}
    /\ gone' = gone \cup F
    /\ UNCHANGED <<now, row, session, direct, tokens, blocked, pc, loc, history>>

-----------------------------------------------------------------------------
(* POST /oauth/revoke-token, with a refresh token. *)

\* mutant: the jti is blocked although nothing has been revoked
RevokeFindOnly(p, r) ==
    /\ At(p, "idle")
    /\ Found(r)
    /\ Goto(p, "block")
    /\ loc' = [loc EXCEPT ![p].row = r, ![p].jti = row[r]]
    /\ UNCHANGED <<now, tables, tokens, blocked, history>>
RevokeFind(p, r) ==
    /\ At(p, "idle")
    /\ Found(r)
    /\ Goto(p, "revoke")
    /\ loc' = [loc EXCEPT ![p].row = r, ![p].jti = row[r]]
    /\ UNCHANGED <<now, tables, tokens, blocked, history>>

\* The token is looked up by its hash again, and its session must be there.
\* mutant: the token row is deleted and the session forgotten
RevokeTokenOnly(p) ==
    LET r == loc[p].row IN
    /\ At(p, "revoke")
    /\ Found(r) /\ row[r] = loc[p].jti /\ r \in session
    /\ row' = [row EXCEPT ![r] = 0]
    /\ revoked' = revoked \cup {loc[p].jti}
    /\ Goto(p, "block")
    /\ UNCHANGED <<now, session, gone, direct, tokens, blocked, loc, confirmed>>
Revoke(p) ==
    LET r == loc[p].row IN
    /\ At(p, "revoke")
    /\ Found(r) /\ row[r] = loc[p].jti /\ r \in session
    /\ row' = [row EXCEPT ![r] = 0]
    /\ session' = session \ {r}
    /\ revoked' = revoked \cup {loc[p].jti}
    /\ Goto(p, "block")
    /\ UNCHANGED <<now, gone, direct, tokens, blocked, loc, confirmed>>

Block(p) ==
    /\ At(p, "block")
    /\ blocked' = [blocked EXCEPT ![loc[p].jti] = now + EntryFor]
    /\ Goto(p, "confirm")
    /\ UNCHANGED <<now, tables, tokens, loc, history>>

Confirm(p) ==
    /\ At(p, "confirm")
    /\ confirmed' = confirmed \cup {loc[p].jti}
    /\ Leave(p)
    /\ UNCHANGED <<now, tables, tokens, blocked, revoked>>

-----------------------------------------------------------------------------
(* POST /oauth/token-introspect, with an access token. *)

Present(p, c) ==
    /\ At(p, "idle")
    /\ c \in answered
    /\ Goto(p, "verify")
    /\ loc' = [loc EXCEPT ![p].jti = c, ![p].knew = confirmed]
    /\ UNCHANGED <<now, tables, tokens, blocked, history>>

Tell(p, verdict) ==
    /\ Goto(p, "told")
    /\ loc' = [loc EXCEPT ![p].active = verdict, ![p].at = now]
    /\ UNCHANGED <<now, tables, tokens, blocked, history>>

\* An expired JWT is inactive; the blocklist is not asked.
Verify(p) ==
    /\ At(p, "verify")
    /\ IF Expired(loc[p].jti)
       THEN Tell(p, FALSE)
       ELSE Goto(p, "lookup")
            /\ UNCHANGED <<now, tables, tokens, blocked, loc, history>>

LookUp(p) == At(p, "lookup") /\ Tell(p, ~ OnBlockList(loc[p].jti))

Told(p) == At(p, "told") /\ Leave(p)
           /\ UNCHANGED <<now, tables, tokens, blocked, history>>

-----------------------------------------------------------------------------
\* A guard throws, a call rejects or the process dies; what was done stays done.
Abort(p) ==
    /\ ~ At(p, "idle")
    /\ Leave(p)
    /\ UNCHANGED <<now, tables, tokens, blocked, history>>

Tick ==
    /\ now < MaxTime
    /\ now' = now + 1
    /\ UNCHANGED <<tables, tokens, blocked, pc, loc, history>>

Next ==
    \/ Tick
    \/ \E r \in Row : Evict(r)
    \/ \E F \in SUBSET Row : FamilyDeleted(F)
    \/ \E p \in Req :
          \/ \E d \in BOOLEAN : LoginStart(p, d)
          \/ \E r \in Row : RefreshRead(p, r) \/ RevokeFind(p, r)
          \/ Sign(p) \/ LoginInsert(p) \/ RefreshWrite(p)
          \/ Revoke(p) \/ Block(p) \/ Confirm(p)
          \/ \E c \in Jti : Present(p, c)
          \/ Verify(p) \/ LookUp(p) \/ Told(p)
          \/ Abort(p)

Spec == Init /\ [][Next]_vars

-----------------------------------------------------------------------------
(* Properties. *)

\* Once a revocation has been confirmed, no introspection that starts later
\* calls the token active while it would otherwise live, however long the
\* introspection takes between verifying the JWT and asking the blocklist.
\* The entry must not end before the token: AccessLife may not be above 900 s.
RevokedInactive ==
    AccessLife <= BlockTTL =>
        \A p \in Req : /\ At(p, "told") /\ loc[p].active
                       /\ loc[p].jti \in loc[p].knew
                       => loc[p].at >= signed[loc[p].jti] + AccessLife

\* A token that is called inactive within its lifetime belongs to a session
\* whose revocation committed: a revocation that lost against a rotation, an
\* eviction or a family deletion leaves the blocklist alone.
InactiveWasRevoked ==
    \A p \in Req : At(p, "told") /\ ~ loc[p].active =>
        \/ loc[p].at >= signed[loc[p].jti] + AccessLife
        \/ loc[p].jti \in revoked

\* A revoked jti works no more: no refresh stores it again, and nothing is
\* signed for it a second time.
RevokedStaysOut ==
    [][\A c \in revoked : /\ \A r \in Row : row'[r] # c
                          /\ signed'[c] = signed[c]]_vars
=============================================================================
