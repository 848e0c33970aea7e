------------------------------- MODULE Clients -------------------------------
(***************************************************************************)
(* The clients of the service: POST /client registers one and answers its  *)
(* secret once, GET /client/client-id/:id shows it without, and what       *)
(* /oauth/authorize and /oauth/token ask of a stored client.  Nothing      *)
(* changes or deletes a client; isActive is TRUE and nobody reads it.      *)
(*                                                                         *)
(* Ids and secrets are random, numbered here as they are drawn.  bcrypt    *)
(* reads 72 bytes, the secret has 128: a hash stands for its secret, and   *)
(* the pepper appended to it does not matter.                              *)
(***************************************************************************)
EXTENDS Naturals, Sequences, FiniteSets, SequencesExt

CONSTANTS
    Req,         \* the registrations: each is sent once
    Name,        \* the names a client may have
    Uri,         \* redirect URIs as they are written
    Malformed,   \* those of them that new URL() rejects
    Slashed,     \* those that differ from Plain in writing only
    Plain,       \* the URI they stand for
    UriList,     \* the lists of URIs that are registered
    Scope,       \* scopes a client may register
    Blank,       \* the empty scope, which splitting at blanks produces
    NoSecret,    \* the client_secret of a public client
    Stars        \* a secret that is shown as asterisks

ASSUME UriAssumption ==
    /\ Malformed \subseteq Uri /\ Slashed \subseteq Uri \ Malformed
    /\ Plain \in Uri \ (Malformed \cup Slashed)
    /\ UriList \subseteq Seq(Uri)
    /\ Blank \notin Scope
    /\ {NoSecret, Stars} \cap Nat = {} /\ NoSecret # Stars

ASSUME RegistrationsAssumption == IsFiniteSet(Req) /\ Name # {} /\ UriList # {}

VARIABLES
    clients,     \* the client table
    drawn,       \* ids drawn so far
    pc, loc,     \* where each registration stands, and the client it builds
    answer,      \* what each registration was told
    shown        \* history: the secret each answered registration was given

vars == <<clients, drawn, pc, loc, answer, shown>>

Payload == [name: Name, redirectUris: UriList, scopes: SUBSET Scope, isConfidential: BOOLEAN]
Number  == 0..Cardinality(Req)
Secret  == Number \cup {NoSecret, Stars}
Client  == [clientId: Number, secret: Secret, props: Payload]
Step    == {"idle", "hash", "save", "answer", "over"}

NoPayload == [name |-> CHOOSE n \in Name : TRUE, redirectUris |-> CHOOSE l \in UriList : TRUE,
              scopes |-> {}, isConfidential |-> FALSE]
NoClient == [clientId |-> 0, secret |-> NoSecret, props |-> NoPayload]

TypeOK ==
    /\ clients \subseteq Client /\ drawn \in Number
    /\ pc \in [Req -> Step] /\ loc \in [Req -> Client]
    /\ answer \in [Req -> {"none", "created", "conflict", "failed"}]
    /\ shown \in [Req -> Secret]
    /\ \A c, d \in clients : c # d =>
          /\ c.clientId # d.clientId /\ c.props.name # d.props.name
          /\ c.props.redirectUris # d.props.redirectUris
    /\ \A c \in clients : c.secret = NoSecret <=> ~ c.props.isConfidential

Init ==
    /\ clients = {} /\ drawn = 0
    /\ pc = [p \in Req |-> "idle"] /\ loc = [p \in Req |-> NoClient]
    /\ answer = [p \in Req |-> "none"]
    /\ shown = [p \in Req |-> NoSecret]

At(p, step)   == pc[p] = step
Goto(p, step) == pc' = [pc EXCEPT ![p] = step]
Leave(p)      == Goto(p, "over") /\ loc' = [loc EXCEPT ![p] = NoClient]

-----------------------------------------------------------------------------
(* POST /client. *)

\* generateClientId, and a secret for a confidential client.
Create(p, payload) ==
    /\ At(p, "idle")
    /\ drawn' = drawn + 1
    /\ loc' = [loc EXCEPT ![p] = [clientId |-> drawn', secret |-> NoSecret, props |-> payload]]
    /\ Goto(p, IF payload.isConfidential THEN "hash" ELSE "save")
    /\ UNCHANGED <<clients, answer, shown>>

GenerateClientSecret(p) ==
    /\ At(p, "hash")
    /\ loc' = [loc EXCEPT ![p].secret = loc[p].clientId]
    /\ Goto(p, "save")
    /\ UNCHANGED <<clients, drawn, answer, shown>>

SameId(c, d) == c.clientId = d.clientId \* mutant: the other keys are missing

\* The unique keys of the table; the list of URIs is one value.
SameKey(c, d) ==
    \/ c.clientId = d.clientId \/ c.props.name = d.props.name
    \/ c.secret # NoSecret /\ c.secret = d.secret
    \/ c.props.redirectUris = d.props.redirectUris

Conflicts(p) == \E c \in clients : SameKey(c, loc[p])

\* Error 23505 becomes a conflict, any other an internal error.
Save(p) ==
    /\ At(p, "save")
    /\ IF Conflicts(p)
       THEN /\ answer' = [answer EXCEPT ![p] = "conflict"]
            /\ Leave(p)
            /\ UNCHANGED clients
       ELSE /\ clients' = clients \cup {loc[p]}
            /\ Goto(p, "answer")
            /\ UNCHANGED <<loc, answer>>
    /\ UNCHANGED <<drawn, shown>>

\* The row as JSON, its hash replaced by the plain secret.
Answer(p) ==
    /\ At(p, "answer")
    /\ answer' = [answer EXCEPT ![p] = "created"]
    /\ shown' = [shown EXCEPT ![p] = loc[p].secret]
    /\ Goto(p, "over")
    /\ UNCHANGED <<clients, drawn, loc>>

\* The database rejects the statement for another reason, or the process dies.
Abort(p) ==
    /\ pc[p] \in {"hash", "save", "answer"}
    /\ answer' \in {answer, [answer EXCEPT ![p] = "failed"]}
    /\ Leave(p)
    /\ UNCHANGED <<clients, drawn, shown>>

-----------------------------------------------------------------------------
(* GET /client/client-id/:id *)

Hidden(c) == IF c.secret = NoSecret THEN c ELSE [c EXCEPT !.secret = Stars]

\* mutant: the asterisks go back into the table
FindAndStore(c) ==
    /\ clients' = (clients \ {c}) \cup {Hidden(c)}
    /\ UNCHANGED <<drawn, pc, loc, answer, shown>>

\* The secret is replaced in the answer alone.
FindByClientId(c) == UNCHANGED vars

-----------------------------------------------------------------------------
(* What the OAuth endpoints ask of a client. *)

\* RedirectUriValueObject: URIs are compared as URL writes them.
Normal(u) == IF u \in Slashed THEN Plain ELSE u

EqualsVerbatim(u, v) == u = v           \* mutant: compared as they are written
Equals(u, v) == Normal(u) = Normal(v)

\* isValidRedirectUri: some() stops at the first URI that is equal, or that
\* cannot be parsed: then it throws.
RedirectVerdict(c, u) ==
    LET list == c.props.redirectUris
        ends == {i \in DOMAIN list : list[i] \in Malformed \/ Equals(u, list[i])}
    IN  IF u \in Malformed THEN "error"
        ELSE IF ends = {} THEN "refused"
        ELSE IF list[Min(ends)] \in Malformed THEN "error" ELSE "allowed"

\* isValidScopes: a client that registered no scope may ask for any.
ScopesAllowed(c, asked) == c.props.scopes = {} \/ asked \subseteq c.props.scopes

\* The part of AuthorizeUseCase that looks at the client.
Authorized(c, u, asked) == RedirectVerdict(c, u) = "allowed" /\ ScopesAllowed(c, asked)

\* compareHashClientSecret, for a confidential client and a secret that was sent.
Authenticates(c, secret) ==
    c.props.isConfidential /\ secret # NoSecret /\ secret = c.secret

-----------------------------------------------------------------------------
Next ==
    \/ \E p \in Req :
          \/ \E payload \in Payload : Create(p, payload)
          \/ GenerateClientSecret(p) \/ Save(p) \/ Answer(p) \/ Abort(p)
    \/ \E c \in clients : FindByClientId(c)

Spec == Init /\ [][Next]_vars

-----------------------------------------------------------------------------
(* Properties. *)

\* The secret a registration was answered authenticates its client from then on,
\* whoever looks the client up, and no other; nobody holds the secret of a client
\* whose answer was lost.
ShownSecretWorks ==
    \A p \in Req : answer[p] = "created" =>
        /\ \A c \in clients : Authenticates(c, shown[p]) <=>
              c.clientId = loc[p].clientId /\ c.props.isConfidential
        /\ loc[p] \in clients

\* An authorization is granted only for a URI that the client registered, up to
\* the way it is written, and for scopes it registered; and always then, unless a
\* URI that cannot be parsed was registered before the one that matches.
GrantedIsRegistered ==
    \A c \in clients, u \in Uri, asked \in SUBSET (Scope \cup {Blank}) :
        LET list == c.props.redirectUris
            same == {i \in DOMAIN list : list[i] = u \/ {list[i], u} \subseteq Slashed \cup {Plain}}
            fits == c.props.scopes = {} \/ \A s \in asked : s \in c.props.scopes
        IN  /\ Authorized(c, u, asked) => same # {} /\ fits
            /\ /\ same # {} /\ fits /\ u \notin Malformed
               /\ \A i \in DOMAIN list : list[i] \in Malformed => \E j \in same : j < i
               => Authorized(c, u, asked)
=============================================================================
