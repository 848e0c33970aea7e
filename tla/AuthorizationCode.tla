------------------------- MODULE AuthorizationCode -------------------------
(***************************************************************************)
(* The authorization-code flow of ONE user: an authorization request is    *)
(* stored in Redis, the OAuth login consumes it and leaves a code there    *)
(* and a consent in the database, and the exchange consumes the code.      *)
(* "Consume" is a GET followed by a DEL: two requests may both read.       *)
(*                                                                         *)
(* Request ids and codes are random, numbered here as they are drawn; a    *)
(* code can be presented once it was delivered.  Redirect URI, state and   *)
(* scope travel with the client id and are compared like it.  A verifier   *)
(* is represented by the challenge it hashes to.                           *)
(***************************************************************************)
EXTENDS Naturals, Sequences, FiniteSets

CONSTANTS
    Req,          \* the HTTP requests that may be in progress at once
    Client,       \* the registered clients
    NoClient,     \* the client of an idle request
    Public,       \* those that are not confidential
    Challenge,    \* PKCE code challenges
    NoChallenge,  \* the flow without PKCE
    MaxRequest,   \* bound: authorization requests stored
    MaxCode,      \* bound: codes minted
    MaxConsent    \* bound: consent rows

ASSUME ConstantsAssumption ==
    /\ Public \subseteq Client
    /\ NoClient \notin Client
    /\ NoChallenge \notin Challenge
    /\ {MaxRequest, MaxCode, MaxConsent} \subseteq Nat
    /\ IsFiniteSet(Req)

Id     == 1..MaxRequest
Code   == 1..MaxCode
Method == {"sha256", "S256"}

VARIABLES
    requests,   \* ids under Redis oauth:authorize:request:<id>
    asked,      \* what each authorization request says
    codes,      \* codes under Redis oauth-code-<code>
    minted,     \* what each code stands for
    consents,   \* the consent table: how many rows each client has
    lastId, lastCode,
    pc, loc,    \* where each HTTP request stands, and what it remembers
    delivered,  \* history: codes sent to the client's redirect URI
    grants      \* history: answered exchanges

redis   == <<requests, asked, codes, minted>>
drawn   == <<lastId, lastCode>>
history == <<delivered, grants>>
vars    == <<redis, consents, drawn, pc, loc, history>>

MaybeChallenge == Challenge \cup {NoChallenge}
Asked  == [client: Client, challenge: MaybeChallenge]
Minted == [id: Id, client: Client, challenge: MaybeChallenge]
Local  == [id: 0..MaxRequest, code: 0..MaxCode, client: Client \cup {NoClient},
           verifier: MaybeChallenge]
NoLocal == [id |-> 0, code |-> 0, client |-> NoClient, verifier |-> NoChallenge]
Step   == {"idle", "delRequest", "saveCode", "findConsent", "createConsent",
           "delCode", "readConsent", "generate"}

Init ==
    /\ requests = {} /\ asked = <<>>
    /\ codes = {} /\ minted = <<>>
    /\ consents = [c \in Client |-> 0]
    /\ lastId = 0 /\ lastCode = 0
    /\ pc = [p \in Req |-> "idle"] /\ loc = [p \in Req |-> NoLocal]
    /\ delivered = {} /\ grants = {}

At(p, step)   == pc[p] = step
Goto(p, step) == pc' = [pc EXCEPT ![p] = step]
Leave(p)      == Goto(p, "idle") /\ loc' = [loc EXCEPT ![p] = NoLocal]

FlowUnchecked(client, challenge) == TRUE  \* mutant: no PKCE rule

\* startAuthorizationCodeFlow: a public client must use PKCE.
FlowAllowed(client, challenge) == client \in Public => challenge # NoChallenge

\* PkceChallengeValueObject.create accepts one method name.
MethodAccepted(m) == m = "sha256"

NewCode == lastCode + 1

KeyKept(keys, k) == keys                   \* mutant: the DEL is missing
Del(keys, k) == keys \ {k}

QueryUnchecked(p) == TRUE                  \* mutant: requestMatch is not called
QueryMatches(p) == loc[p].client = asked[loc[p].id].client

NeverFound(p) == FALSE                     \* mutant: the look-up misses
HasConsent(p) == consents[loc[p].client] > 0

-----------------------------------------------------------------------------
(* GET /oauth/authorize. *)

\* The only effect is the last await: the request is stored.
Authorize(client, challenge, m) ==
    /\ challenge # NoChallenge => MethodAccepted(m)
    /\ FlowAllowed(client, challenge)
    /\ lastId < MaxRequest
    /\ lastId' = lastId + 1
    /\ requests' = requests \cup {lastId + 1}
    /\ asked' = Append(asked, [client |-> client, challenge |-> challenge])
    /\ UNCHANGED <<codes, minted, consents, lastCode, pc, loc, history>>

-----------------------------------------------------------------------------
(* POST /oauth/login. *)

\* GET of the request; the query names a client of the caller's choice.
LoginGet(p, id, client) ==
    /\ At(p, "idle")
    /\ id \in requests
    /\ loc' = [loc EXCEPT ![p] = [id |-> id, code |-> 0, client |-> client,
                                  verifier |-> NoChallenge]]
    /\ Goto(p, "delRequest")
    /\ UNCHANGED <<redis, consents, drawn, history>>

\* DEL, whether or not the query then matches the request.
LoginDelete(p) ==
    /\ At(p, "delRequest")
    /\ requests' = Del(requests, loc[p].id)
    /\ IF QueryMatches(p)
         THEN Goto(p, "saveCode") /\ UNCHANGED loc
         ELSE Leave(p)
    /\ UNCHANGED <<asked, codes, minted, consents, drawn, history>>

\* The credentials were right (see Account): the code is drawn and stored.
LoginSaveCode(p) ==
    LET request == asked[loc[p].id] IN
    /\ At(p, "saveCode")
    /\ lastCode < MaxCode
    /\ lastCode' = NewCode
    /\ codes' = codes \cup {NewCode}
    /\ minted' = Append(minted, [id |-> loc[p].id, client |-> request.client,
                                 challenge |-> request.challenge])
    /\ loc' = [loc EXCEPT ![p].code = NewCode]
    /\ Goto(p, "findConsent")
    /\ UNCHANGED <<requests, asked, consents, lastId, history>>

\* findOrCreateConsent: a client the user has consented to is answered now.
LoginFindConsent(p) ==
    /\ At(p, "findConsent")
    /\ IF HasConsent(p)
         THEN delivered' = delivered \cup {loc[p].code} /\ Leave(p)
         ELSE Goto(p, "createConsent") /\ UNCHANGED <<delivered, loc>>
    /\ UNCHANGED <<redis, consents, drawn, grants>>

\* No unique key: a row is added even if another request has just added one.
LoginCreateConsent(p) ==
    /\ At(p, "createConsent")
    /\ consents[loc[p].client] < MaxConsent
    /\ consents' = [consents EXCEPT ![loc[p].client] = @ + 1]
    /\ delivered' = delivered \cup {loc[p].code}
    /\ Leave(p)
    /\ UNCHANGED <<redis, drawn, grants>>

-----------------------------------------------------------------------------
(* POST /oauth/token. *)

\* The client is authenticated, then the code is read.
ExchangeGet(p, code, client, verifier) ==
    /\ At(p, "idle")
    /\ code \in delivered \cap codes
    /\ FlowAllowed(client, verifier)
    /\ loc' = [loc EXCEPT ![p] = [id |-> 0, code |-> code, client |-> client,
                                  verifier |-> verifier]]
    /\ Goto(p, "delCode")
    /\ UNCHANGED <<redis, consents, drawn, history>>

\* DEL, whether or not the verifier then fits the challenge; a verifier for a
\* code without a challenge is a TypeError.
ExchangeDelete(p) ==
    /\ At(p, "delCode")
    /\ codes' = Del(codes, loc[p].code)
    /\ IF loc[p].verifier \in {NoChallenge, minted[loc[p].code].challenge}
         THEN Goto(p, "readConsent") /\ UNCHANGED loc
         ELSE Leave(p)
    /\ UNCHANGED <<requests, asked, minted, consents, drawn, history>>

ExchangeReadConsent(p) ==
    /\ At(p, "readConsent")
    /\ HasConsent(p)
    /\ Goto(p, "generate")
    /\ UNCHANGED <<redis, consents, drawn, loc, history>>

\* TokenService.generate (LoginRead to LoginInsert of TokenSession) succeeds.
ExchangeGenerate(p) ==
    /\ At(p, "generate")
    /\ grants' = grants \cup {[code |-> loc[p].code, client |-> loc[p].client,
                               verifier |-> loc[p].verifier]}
    /\ Leave(p)
    /\ UNCHANGED <<redis, consents, drawn, delivered>>

-----------------------------------------------------------------------------
\* A guard throws, a call rejects or the process dies; what was done stays done.
Abort(p) ==
    /\ ~ At(p, "idle")
    /\ Leave(p)
    /\ UNCHANGED <<redis, consents, drawn, history>>

\* The 300 s of a stored request or of a code pass.
RequestLapse(id) ==
    /\ id \in requests
    /\ requests' = Del(requests, id)
    /\ UNCHANGED <<asked, codes, minted, consents, drawn, pc, loc, history>>

CodeLapse(code) ==
    /\ code \in codes
    /\ codes' = Del(codes, code)
    /\ UNCHANGED <<requests, asked, minted, consents, drawn, pc, loc, history>>

Next ==
    \/ \E client \in Client, ch \in MaybeChallenge, m \in Method : Authorize(client, ch, m)
    \/ \E id \in Id : RequestLapse(id)
    \/ \E code \in Code : CodeLapse(code)
    \/ \E p \in Req :
          \/ \E id \in Id, client \in Client : LoginGet(p, id, client)
          \/ LoginDelete(p) \/ LoginSaveCode(p)
          \/ LoginFindConsent(p) \/ LoginCreateConsent(p)
          \/ \E code \in Code, client \in Client, v \in MaybeChallenge :
                ExchangeGet(p, code, client, v)
          \/ ExchangeDelete(p) \/ ExchangeReadConsent(p) \/ ExchangeGenerate(p)
          \/ Abort(p)

Spec == Init /\ [][Next]_vars

-----------------------------------------------------------------------------
(* Properties. *)

TypeOK ==
    /\ asked \in Seq(Asked) /\ Len(asked) = lastId
    /\ minted \in Seq(Minted) /\ Len(minted) = lastCode
    /\ lastId \in 0..MaxRequest /\ lastCode \in 0..MaxCode
    /\ requests \subseteq 1..lastId /\ codes \subseteq 1..lastCode
    /\ consents \in [Client -> 0..MaxConsent]
    /\ pc \in [Req -> Step] /\ loc \in [Req -> Local]
    /\ delivered \subseteq 1..lastCode
    /\ grants \subseteq [code: 1..lastCode, client: Client, verifier: MaybeChallenge]

\* A code reaches its client only after the user's consent to that very client
\* is stored: the exchange, which never creates one, finds it.
DeliveredHasConsent == \A code \in delivered : consents[minted[code].client] > 0

\* Concurrent first logins to a client may each add a consent, but no more rows
\* than requests in progress: later logins find one of them.
ConsentBound == \A client \in Client : consents[client] <= Cardinality(Req)

\* What has been answered cannot be used again by a request that starts later:
\* the authorization request of a delivered code is gone, so is an exchanged code.
ConsumedIsGone ==
    /\ \A code \in delivered : minted[code].id \notin requests
    /\ \A g \in grants : g.code \notin codes

\* A public client gets tokens only with the verifier of the challenge that the
\* authorization request of that very code carried.
PublicGrantProved ==
    \A g \in grants : g.client \in Public =>
        g.verifier # NoChallenge /\ g.verifier = minted[g.code].challenge
=============================================================================
