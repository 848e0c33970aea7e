----------------------------- MODULE Catalogue -----------------------------
(***************************************************************************)
(* The schemas that runs and reverts of the migrations can reach, table by *)
(* table: the inductive invariant behind RefusedOnlyByRows and             *)
(* LatestFitsEntities, which DeploymentProofs proves.  A table is named    *)
(* after the first migration that leaves it so.  With 11 and 12 migrations *)
(* executed there is more than one schema; with every other number of them *)
(* there is one, whatever detour led to it.                                *)
(***************************************************************************)
EXTENDS Deployment

LaterLabels == FirstLabels \union {"INVALID_OAUTH_LOGIN_ATTEMPT"}
Dated == Column("timestamptz", FALSE, TRUE, {})        \* nullable, DEFAULT now()
Bare(labels) == Column("enum", TRUE, FALSE, labels)    \* NOT NULL, its default dropped

-----------------------------------------------------------------------------
(* The tables. *)

\* Users, as migrations 1, 4, 8 and 20 leave them.
User1 == [id |-> Def("uuid"), name |-> Req("varchar"), email |-> Req("varchar"),
    password |-> Req("varchar"), isVerified |-> Def("boolean"),
    createdAt |-> Def("timetz"), tokenId |-> Opt("uuid"), UQ_e12875 |-> Unique("email"),
    REL_633016 |-> Unique("tokenId"),
    FK_633016 |-> References("tokenId", "token", "id", "noAction")]
User4 == [id |-> Def("uuid"), name |-> Req("varchar"), email |-> Req("varchar"),
    password |-> Req("varchar"), isVerified |-> Def("boolean"),
    createdAt |-> Def("timetz"), UQ_e12875 |-> Unique("email")]
User8 == [id |-> Def("uuid"), name |-> Req("varchar"), email |-> Req("varchar"),
    password |-> Req("varchar"), isVerified |-> Def("boolean"),
    UQ_e12875 |-> Unique("email"), createdAt |-> Def("timestamptz")]
User20 == [id |-> Def("uuid"), name |-> Req("varchar"), email |-> Req("varchar"),
    password |-> Req("varchar"), isVerified |-> Def("boolean"),
    UQ_e12875 |-> Unique("email"), createdAt |-> Def("timestamptz"),
    deleted_at |-> Opt("timestamptz")]

\* Clients, as migrations 1, 6 and 9 leave them.
Client1 == [id |-> Def("uuid"), clientId |-> Req("varchar"), clientSecret |-> Opt("varchar"),
    isConfidential |-> Def("boolean"), name |-> Req("varchar"),
    redirectUris |-> Req("text[]"), grantTypes |-> Req("text[]"), scopes |-> Req("text[]"),
    isActive |-> Def("boolean"), createdAt |-> Def("timestamptz"),
    UQ_6ed906 |-> Unique("clientId"), UQ_43cd26 |-> Unique("clientSecret"),
    UQ_8d877a |-> Unique("redirectUris")]
Client6 == [id |-> Def("uuid"), clientSecret |-> Opt("varchar"), isConfidential |-> Def("boolean"),
    name |-> Req("varchar"), redirectUris |-> Req("text[]"), grantTypes |-> Req("text[]"),
    scopes |-> Req("text[]"), isActive |-> Def("boolean"),
    createdAt |-> Def("timestamptz"), UQ_43cd26 |-> Unique("clientSecret"),
    UQ_8d877a |-> Unique("redirectUris"), client_id |-> Req("varchar"),
    UQ_7510ce |-> Unique("client_id")]
Client9 == [id |-> Def("uuid"), clientSecret |-> Opt("varchar"), isConfidential |-> Def("boolean"),
    name |-> Req("varchar"), redirectUris |-> Req("text[]"), grantTypes |-> Req("text[]"),
    scopes |-> Req("text[]"), isActive |-> Def("boolean"),
    createdAt |-> Def("timestamptz"), UQ_43cd26 |-> Unique("clientSecret"),
    UQ_8d877a |-> Unique("redirectUris"), client_id |-> Req("varchar"),
    UQ_7510ce |-> Unique("client_id"), UQ_480f88 |-> Unique("name")]

\* The table of consents before migration 10, which nothing drops.
Grant1 == [id |-> Def("uuid"), userId |-> Req("varchar"), clientId |-> Req("varchar"),
    scopes |-> Req("text[]"), createAt |-> Def("timestamptz")]
Grant2 == [id |-> Def("uuid"), userId |-> Req("varchar"), clientId |-> Req("varchar"),
    scopes |-> Req("text[]"), createAt |-> Def("timestamptz"), user_id |-> Opt("uuid"),
    client_id |-> Opt("varchar"), FK_5085f9 |-> Cascade("user_id", "user"),
    FK_bd9e36 |-> References("client_id", "client", "clientId", "cascade")]
Grant5 == [id |-> Def("uuid"), userId |-> Req("varchar"), clientId |-> Req("varchar"),
    scopes |-> Req("text[]"), user_id |-> Opt("uuid"), client_id |-> Opt("varchar"),
    FK_5085f9 |-> Cascade("user_id", "user"),
    FK_bd9e36 |-> References("client_id", "client", "clientId", "cascade"),
    grantedAt |-> Def("timestamptz"), expires_at |-> Opt("timestamp"),
    revoke_at |-> Opt("timestamp")]
Grant6 == [id |-> Def("uuid"), userId |-> Req("varchar"), clientId |-> Req("varchar"),
    scopes |-> Req("text[]"), user_id |-> Opt("uuid"), client_id |-> Opt("varchar"),
    FK_5085f9 |-> Cascade("user_id", "user"),
    FK_bd9e36 |-> References("client_id", "client", "client_id", "cascade"),
    grantedAt |-> Def("timestamptz"), expires_at |-> Opt("timestamp"),
    revoke_at |-> Opt("timestamp")]

\* Consents, since migration 10.
Consent10 == [id |-> Def("uuid"), scopes |-> Req("text[]"), user_id |-> Req("uuid"),
    client_id |-> Req("varchar"), grantedAt |-> Def("timestamptz"),
    expires_at |-> Opt("timestamp"), revoke_at |-> Opt("timestamp"),
    FK_a5cfa7 |-> Cascade("user_id", "user"),
    FK_0e984f |-> References("client_id", "client", "client_id", "cascade")]

\* Refresh tokens, as migrations 1, 3, 4, 7, 10, 11, 12 and 14 leave them.
Token1 == [id |-> Def("uuid"), token |-> Req("varchar"), refresh_token |-> Req("varchar"),
    expiresAt |-> Req("timestamp"), userId |-> Opt("uuid"),
    REL_94f168 |-> Unique("userId"), FK_94f168 |-> Cascade("userId", "user")]
Token3 == [id |-> Def("uuid"), refresh_token |-> Req("varchar"), expiresAt |-> Req("timestamp"),
    userId |-> Opt("uuid"), REL_94f168 |-> Unique("userId"),
    FK_94f168 |-> Cascade("userId", "user"), consent_id |-> Opt("varchar")]
Token4 == [id |-> Def("uuid"), refresh_token |-> Req("varchar"), expiresAt |-> Req("timestamp"),
    userId |-> Opt("uuid"), consent_id |-> Opt("uuid"),
    FK_94f168 |-> Cascade("userId", "user"),
    FK_05a103 |-> Cascade("consent_id", "user_client_consent")]
Token7 == [id |-> Def("uuid"), refresh_token |-> Req("varchar"), expiresAt |-> Req("timestamp"),
    userId |-> Opt("uuid"), consent_id |-> Opt("uuid"),
    FK_94f168 |-> Cascade("userId", "user"),
    FK_05a103 |-> Cascade("consent_id", "user_client_consent"), jti |-> Req("uuid"),
    UQ_7e0bb4 |-> Unique("jti")]
Token10 == [id |-> Def("uuid"), refresh_token |-> Req("varchar"), expiresAt |-> Req("timestamp"),
    userId |-> Opt("uuid"), consent_id |-> Opt("uuid"),
    FK_94f168 |-> Cascade("userId", "user"), jti |-> Req("uuid"),
    UQ_7e0bb4 |-> Unique("jti"), FK_05a103 |-> Cascade("consent_id", "consent")]
Token11 == [id |-> Def("uuid"), refresh_token |-> Req("varchar"), expiresAt |-> Req("timestamp"),
    consent_id |-> Opt("uuid"), jti |-> Req("uuid"), UQ_7e0bb4 |-> Unique("jti"),
    FK_05a103 |-> Cascade("consent_id", "consent"), token_family_id |-> Req("uuid"),
    user_id |-> Opt("uuid"), FK_e50ca8 |-> Cascade("user_id", "user")]
Token12 == [id |-> Def("uuid"), refresh_token |-> Req("varchar"), expiresAt |-> Req("timestamp"),
    consent_id |-> Opt("uuid"), jti |-> Req("uuid"), UQ_7e0bb4 |-> Unique("jti"),
    FK_05a103 |-> Cascade("consent_id", "consent"), token_family_id |-> Req("uuid"),
    user_id |-> Req("uuid"), FK_e50ca8 |-> Cascade("user_id", "user")]
Token14 == [id |-> Def("uuid"), refresh_token |-> Req("varchar"), consent_id |-> Opt("uuid"),
    jti |-> Req("uuid"), UQ_7e0bb4 |-> Unique("jti"),
    FK_05a103 |-> Cascade("consent_id", "consent"), token_family_id |-> Req("uuid"),
    user_id |-> Req("uuid"), FK_e50ca8 |-> Cascade("user_id", "user"),
    expires_at |-> Req("timestamptz"), deleted_at |-> Opt("timestamptz")]

\* Sessions, as migrations 12 and 14 leave them.
Sessions12 == [id |-> Def("uuid"), jti |-> Req("varchar"), user_id |-> Req("uuid"),
    consent_id |-> Opt("uuid"), token_family_id |-> Req("varchar"),
    expires_at |-> Req("timestamp"), created_at |-> Dated, updated_at |-> Dated,
    FK_085d54 |-> Cascade("user_id", "user"), FK_3b579c |-> Cascade("consent_id", "consent")]
Sessions14 == [id |-> Def("uuid"), jti |-> Req("varchar"), user_id |-> Req("uuid"),
    consent_id |-> Opt("uuid"), token_family_id |-> Req("varchar"),
    expires_at |-> Req("timestamp"), created_at |-> Dated, updated_at |-> Dated,
    FK_085d54 |-> Cascade("user_id", "user"),
    FK_3b579c |-> Cascade("consent_id", "consent"), deleted_at |-> Opt("timestamptz")]

\* Security events, as migrations 15 to 19 leave them.
SecurityEvent15 == [id |-> Req("uuid"), type |-> Enum(FirstLabels), ip |-> Req("varchar"),
    userAgent |-> Req("varchar"), email |-> Req("varchar"), severity |-> Enum(Severities),
    occurred_at |-> Def("timestamptz")]
SecurityEvent16 == [id |-> Def("uuid"), type |-> Enum(FirstLabels), ip |-> Req("varchar"),
    userAgent |-> Req("varchar"), email |-> Req("varchar"), severity |-> Enum(Severities),
    occurred_at |-> Def("timestamptz")]
SecurityEvent17 == [id |-> Def("uuid"), type |-> Enum(FirstLabels), ip |-> Req("varchar"),
    userAgent |-> Req("varchar"), email |-> Opt("varchar"), severity |-> Enum(Severities),
    occurred_at |-> Def("timestamptz")]
SecurityEvent18 == [id |-> Def("uuid"), type |-> Enum(LaterLabels), ip |-> Req("varchar"),
    userAgent |-> Req("varchar"), email |-> Opt("varchar"), severity |-> Enum(Severities),
    occurred_at |-> Def("timestamptz")]
SecurityEvent19 == [id |-> Def("uuid"), type |-> Enum(LaterLabels), ip |-> Req("varchar"),
    userAgent |-> Req("varchar"), email |-> Opt("varchar"), severity |-> Enum(Severities),
    occurred_at |-> Def("timestamptz"), reason |-> Opt("varchar")]

\* The revert of migration 13 does not undo what its `up` did: it gives the
\* tokens a unique key, and the sessions required columns and a key to the tokens,
\* that no other migration knows.  The key of the tokens stays until the column it
\* is on is dropped, or 13 runs again.
TokenKeyed12 == [id |-> Def("uuid"), refresh_token |-> Req("varchar"), expiresAt |-> Req("timestamp"),
    consent_id |-> Opt("uuid"), jti |-> Req("uuid"), UQ_7e0bb4 |-> Unique("jti"),
    FK_05a103 |-> Cascade("consent_id", "consent"), token_family_id |-> Req("uuid"),
    user_id |-> Req("uuid"), FK_e50ca8 |-> Cascade("user_id", "user"),
    UQ_eb1888 |-> Unique("token_family_id")]
TokenKeyed11 == [id |-> Def("uuid"), refresh_token |-> Req("varchar"), expiresAt |-> Req("timestamp"),
    consent_id |-> Opt("uuid"), jti |-> Req("uuid"), UQ_7e0bb4 |-> Unique("jti"),
    FK_05a103 |-> Cascade("consent_id", "consent"), token_family_id |-> Req("uuid"),
    user_id |-> Opt("uuid"), UQ_eb1888 |-> Unique("token_family_id"),
    FK_e50ca8 |-> Cascade("user_id", "user")]
SessionsUndone == [id |-> Def("uuid"), jti |-> Req("varchar"), user_id |-> Req("uuid"),
    consent_id |-> Req("uuid"), token_family_id |-> Req("uuid"),
    expires_at |-> Req("timestamp"), created_at |-> Dated, updated_at |-> Dated,
    UQ_b99aa5 |-> Unique("token_family_id"),
    FK_b99aa5 |-> References("token_family_id", "token", "token_family_id", "cascade"),
    FK_085d54 |-> References("user_id", "user", "id", "noAction"),
    FK_3b579c |-> References("consent_id", "consent", "id", "noAction")]

\* Between two statements of a migration: a table that was just created, or of
\* which one name was changed.
NewToken == [id |-> Def("uuid"), token |-> Req("varchar"), refresh_token |-> Req("varchar"),
    expiresAt |-> Req("timestamp"), userId |-> Opt("uuid"), REL_94f168 |-> Unique("userId")]
NewUser == [id |-> Def("uuid"), name |-> Req("varchar"), email |-> Req("varchar"),
    password |-> Req("varchar"), isVerified |-> Def("boolean"),
    createdAt |-> Def("timetz"), tokenId |-> Opt("uuid"), UQ_e12875 |-> Unique("email"),
    REL_633016 |-> Unique("tokenId")]
NewConsent == [id |-> Def("uuid"), scopes |-> Req("text[]"), user_id |-> Req("uuid"),
    client_id |-> Req("varchar"), grantedAt |-> Def("timestamptz"),
    expires_at |-> Opt("timestamp"), revoke_at |-> Opt("timestamp")]
NewSessions == [id |-> Def("uuid"), jti |-> Req("varchar"), user_id |-> Req("uuid"),
    consent_id |-> Opt("uuid"), token_family_id |-> Req("varchar"),
    expires_at |-> Req("timestamp"), created_at |-> Dated, updated_at |-> Dated]
TokenRenamed == [id |-> Def("uuid"), refresh_token |-> Req("varchar"), expiresAt |-> Req("timestamp"),
    userId |-> Opt("uuid"), REL_94f168 |-> Unique("userId"),
    FK_94f168 |-> Cascade("userId", "user"), consent_id |-> Req("varchar")]
ClientRenamed == [id |-> Def("uuid"), clientSecret |-> Opt("varchar"), isConfidential |-> Def("boolean"),
    name |-> Req("varchar"), redirectUris |-> Req("text[]"), grantTypes |-> Req("text[]"),
    scopes |-> Req("text[]"), isActive |-> Def("boolean"),
    createdAt |-> Def("timestamptz"), UQ_6ed906 |-> Unique("client_id"),
    UQ_43cd26 |-> Unique("clientSecret"), UQ_8d877a |-> Unique("redirectUris"),
    client_id |-> Req("varchar")]

-----------------------------------------------------------------------------
(* The schemas, by the number of executed migrations. *)

\* The tables there are.
Core(u, c, g, t) == [user |-> u, client |-> c, user_client_consent |-> g, token |-> t]
Consented(u, c, g, n, t) ==
    [user |-> u, client |-> c, user_client_consent |-> g, consent |-> n, token |-> t]
Sessioned(u, c, g, n, t, s) ==
    [user |-> u, client |-> c, user_client_consent |-> g, consent |-> n, token |-> t,
     sessions |-> s]
Recorded(u, c, g, n, t, s, e) ==
    [user |-> u, client |-> c, user_client_consent |-> g, consent |-> n, token |-> t,
     sessions |-> s, security_event |-> e,
     security_event_type_enum |-> <<>>, security_event_severity_enum |-> <<>>]

Level1 == Core(User1, Client1, Grant1, Token1)
Level2 == Core(User1, Client1, Grant2, Token1)
Level3 == Core(User1, Client1, Grant2, Token3)
Level4 == Core(User4, Client1, Grant2, Token4)
Level5 == Core(User4, Client1, Grant5, Token4)
Level6 == Core(User4, Client6, Grant6, Token4)
Level7 == Core(User4, Client6, Grant6, Token7)
Level8 == Core(User8, Client6, Grant6, Token7)
Level9 == Core(User8, Client9, Grant6, Token7)
Level10 == Consented(User8, Client9, Grant6, Consent10, Token10)
Level11 == Consented(User8, Client9, Grant6, Consent10, Token11)
Level11Keyed == Consented(User8, Client9, Grant6, Consent10, TokenKeyed11)
Level12 == Sessioned(User8, Client9, Grant6, Consent10, Token12, Sessions12)
Level12Undone == Sessioned(User8, Client9, Grant6, Consent10, TokenKeyed12, SessionsUndone)
Level12Keyed == Sessioned(User8, Client9, Grant6, Consent10, TokenKeyed12, Sessions12)
Level13 == Sessioned(User8, Client9, Grant6, Consent10, Token12, Sessions12)
Level14 == Sessioned(User8, Client9, Grant6, Consent10, Token14, Sessions14)
Level15 == Recorded(User8, Client9, Grant6, Consent10, Token14, Sessions14, SecurityEvent15)
Level16 == Recorded(User8, Client9, Grant6, Consent10, Token14, Sessions14, SecurityEvent16)
Level17 == Recorded(User8, Client9, Grant6, Consent10, Token14, Sessions14, SecurityEvent17)
Level18 == Recorded(User8, Client9, Grant6, Consent10, Token14, Sessions14, SecurityEvent18)
Level19 == Recorded(User8, Client9, Grant6, Consent10, Token14, Sessions14, SecurityEvent19)
Level20 == Recorded(User20, Client9, Grant6, Consent10, Token14, Sessions14, SecurityEvent19)

Schemas == <<{Level1}, {Level2}, {Level3}, {Level4}, {Level5}, {Level6}, {Level7}, {Level8},
    {Level9}, {Level10}, {Level11, Level11Keyed}, {Level12, Level12Undone, Level12Keyed},
    {Level13}, {Level14}, {Level15}, {Level16}, {Level17}, {Level18}, {Level19}, {Level20}>>

\* A schema that there can be when l migrations are executed.
Known(l, s) == IF l = 0 THEN DOMAIN s = {} ELSE s \in Schemas[l]

\* The schema is one of those, and no statement met another.
Catalogued ==
    /\ release \in Releases /\ level \in 0..Latest
    /\ Known(level, schema)
    /\ outcome # "schema"
=============================================================================
