----------------------------- MODULE Migrations -----------------------------
(***************************************************************************)
(* The PostgreSQL catalogue and the twenty migrations that change it.      *)
(* A migration is a record of two sequences of statements; `migration:run` *)
(* executes all pending ones in one transaction, `migration:revert` undoes *)
(* the last one.  A row stands for a used table: what is kept of it is the *)
(* number of migrations in place when the oldest row of it was written.    *)
(*                                                                         *)
(* A table is a function from the names of its columns and constraints to  *)
(* what they are.  Constraint names are cut to the prefix that identifies  *)
(* them.  An enumerated type is an entry of the catalogue (it shares its   *)
(* names with the tables), and a column carries the labels it admits.      *)
(***************************************************************************)
EXTENDS Naturals, Sequences

CONSTANTS
    Releases,  \* sizes the list of migrations had when a release was deployed
    Watched    \* bound: the tables whose rows are followed

VARIABLES
    schema,   \* table or type |-> (column or constraint |-> item)
    level,    \* rows of the `migrations` table: how many were executed
    release,  \* migrations in the code that is deployed
    born,     \* used table |-> the level at which its oldest row was written
    outcome   \* of the last run or revert: "ok", "rows" or "schema"

schemaVars == <<schema, level, release, born, outcome>>

-----------------------------------------------------------------------------
(* Items of a table. *)

Column(ty, req, def, labels) ==
    [kind |-> "column", ty |-> ty, req |-> req, def |-> def, labels |-> labels]
Req(ty) == Column(ty, TRUE, FALSE, {})    \* NOT NULL
Opt(ty) == Column(ty, FALSE, FALSE, {})   \* nullable
Def(ty) == Column(ty, TRUE, TRUE, {})     \* NOT NULL DEFAULT ...
Enum(labels) == Column("enum", TRUE, TRUE, labels)
Unique(c) == [kind |-> "unique", on |-> c]
References(c, t, rc, del) == [kind |-> "fk", on |-> c, table |-> t, ref |-> rc, del |-> del]
Cascade(c, t) == References(c, t, "id", "cascade")

(* Statements. *)

Create(t, items)  == [op |-> "create", t |-> t, items |-> items]
DropTable(t)      == [op |-> "dropTable", t |-> t]
RenameType(t, u)  == [op |-> "renameType", t |-> t, n |-> u]
Add(t, n, item)   == [op |-> "add", t |-> t, n |-> n, item |-> item, lax |-> FALSE]
AddIf(t, n, item) == [op |-> "add", t |-> t, n |-> n, item |-> item, lax |-> TRUE]
Drop(t, n)        == [op |-> "drop", t |-> t, n |-> n, lax |-> FALSE]
DropIf(t, n)      == [op |-> "drop", t |-> t, n |-> n, lax |-> TRUE]
Rename(t, n, m)   == [op |-> "rename", t |-> t, n |-> n, to |-> m]
Alter(t, n, f, v) == [op |-> "alter", t |-> t, n |-> n, f |-> f, v |-> v]
NotNull(t, n)     == Alter(t, n, "req", TRUE)
Nullable(t, n)    == Alter(t, n, "req", FALSE)
Rekey(t, name, item) == <<Drop(t, name), Add(t, name, item)>>

-----------------------------------------------------------------------------
(* The migrations, in the order of their timestamps. *)

InitDown == <<Drop("user", "FK_633016"), Drop("token", "FK_94f168"), DropTable("user"),
    DropTable("user_client_consent"), DropTable("client"), DropTable("token")>>
Init19032026 == [
  up |-> <<
    Create("token", [id |-> Def("uuid"), token |-> Req("varchar"),
      refresh_token |-> Req("varchar"), expiresAt |-> Req("timestamp"),
      userId |-> Opt("uuid"), REL_94f168 |-> Unique("userId")]),
    Create("client", [id |-> Def("uuid"), clientId |-> Req("varchar"),
      clientSecret |-> Opt("varchar"), isConfidential |-> Def("boolean"),
      name |-> Req("varchar"), redirectUris |-> Req("text[]"),
      grantTypes |-> Req("text[]"), scopes |-> Req("text[]"),
      isActive |-> Def("boolean"), createdAt |-> Def("timestamptz"),
      UQ_6ed906 |-> Unique("clientId"), UQ_43cd26 |-> Unique("clientSecret"),
      UQ_8d877a |-> Unique("redirectUris")]),
    Create("user_client_consent", [id |-> Def("uuid"), userId |-> Req("varchar"),
      clientId |-> Req("varchar"), scopes |-> Req("text[]"), createAt |-> Def("timestamptz")]),
    Create("user", [id |-> Def("uuid"), name |-> Req("varchar"),
      email |-> Req("varchar"), password |-> Req("varchar"),
      isVerified |-> Def("boolean"), createdAt |-> Def("timetz"),
      tokenId |-> Opt("uuid"), UQ_e12875 |-> Unique("email"), REL_633016 |-> Unique("tokenId")]),
    Add("token", "FK_94f168", Cascade("userId", "user")),
    Add("user", "FK_633016", References("tokenId", "token", "id", "noAction"))>>,
  down |-> InitDown]

ConsentRelation == [
  up |-> <<Add("user_client_consent", "user_id", Opt("uuid")),
    Add("user_client_consent", "client_id", Opt("varchar")),
    Add("user_client_consent", "FK_5085f9", Cascade("user_id", "user")),
    Add("user_client_consent", "FK_bd9e36",
        References("client_id", "client", "clientId", "cascade"))>>,
  down |-> <<Drop("user_client_consent", "FK_bd9e36"), Drop("user_client_consent", "FK_5085f9"),
    Drop("user_client_consent", "client_id"), Drop("user_client_consent", "user_id")>>]

TokenBecomesConsentId == [
  up |-> <<Rename("token", "token", "consent_id"), Nullable("token", "consent_id")>>,
  down |-> <<NotNull("token", "consent_id"), Rename("token", "consent_id", "token")>>]

NewRelations == [
  up |-> <<Drop("user", "FK_633016"), Drop("user", "REL_633016"), Drop("user", "tokenId"),
    Drop("token", "FK_94f168"), Drop("token", "consent_id"), Add("token", "consent_id", Opt("uuid")),
    Drop("token", "REL_94f168"), Add("token", "FK_94f168", Cascade("userId", "user")),
    Add("token", "FK_05a103", Cascade("consent_id", "user_client_consent"))>>,
  down |-> <<Drop("token", "FK_05a103"), Drop("token", "FK_94f168"),
    Add("token", "REL_94f168", Unique("userId")),
    Drop("token", "consent_id"), Add("token", "consent_id", Opt("varchar")),
    Add("token", "FK_94f168", Cascade("userId", "user")),
    Add("user", "tokenId", Opt("uuid")), Add("user", "REL_633016", Unique("tokenId")),
    Add("user", "FK_633016", References("tokenId", "token", "id", "noAction"))>>]

ConsentDates == [
  up |-> <<Drop("user_client_consent", "createAt"),
    Add("user_client_consent", "grantedAt", Def("timestamptz")),
    Add("user_client_consent", "expires_at", Opt("timestamp")),
    Add("user_client_consent", "revoke_at", Opt("timestamp"))>>,
  down |-> <<Drop("user_client_consent", "revoke_at"), Drop("user_client_consent", "expires_at"),
    Drop("user_client_consent", "grantedAt"),
    Add("user_client_consent", "createAt", Def("timestamptz"))>>]

\* mutant: the revert renames the column only
ColumnRenamedBack == [
  up |-> <<Rename("client", "clientId", "client_id"), Rename("client", "UQ_6ed906", "UQ_7510ce")>>,
  down |-> <<Rename("client", "client_id", "clientId")>>]
ClientIdRenamed == [
  up |-> <<Rename("client", "clientId", "client_id"), Rename("client", "UQ_6ed906", "UQ_7510ce")>>,
  down |-> <<Rename("client", "UQ_7510ce", "UQ_6ed906"), Rename("client", "client_id", "clientId")>>]

\* hasColumn and the look-up among the uniques guard the two statements.
\* mutant: the column gets a default, so that rows do not refuse it
JtiDefaulted == [
  up |-> <<AddIf("token", "jti", Def("uuid")), AddIf("token", "UQ_7e0bb4", Unique("jti"))>>,
  down |-> <<Drop("token", "UQ_7e0bb4"), Drop("token", "jti")>>]
Jti == [
  up |-> <<AddIf("token", "jti", Req("uuid")), AddIf("token", "UQ_7e0bb4", Unique("jti"))>>,
  down |-> <<Drop("token", "UQ_7e0bb4"), Drop("token", "jti")>>]

UserCreatedAt == [
  up |-> Rekey("user", "createdAt", Def("timestamptz")),
  down |-> Rekey("user", "createdAt", Def("timetz"))]

ClientNameUnique == [
  up |-> <<Add("client", "UQ_480f88", Unique("name"))>>,
  down |-> <<Drop("client", "UQ_480f88")>>]

\* The rows of user_client_consent are not copied, and the table stays.
ConsentTable == [
  up |-> <<Drop("token", "FK_05a103"),
    Create("consent", [id |-> Def("uuid"), scopes |-> Req("text[]"),
      user_id |-> Req("uuid"), client_id |-> Req("varchar"),
      grantedAt |-> Def("timestamptz"), expires_at |-> Opt("timestamp"),
      revoke_at |-> Opt("timestamp")]),
    Add("consent", "FK_a5cfa7", Cascade("user_id", "user")),
    Add("consent", "FK_0e984f", References("client_id", "client", "client_id", "cascade")),
    Add("token", "FK_05a103", Cascade("consent_id", "consent"))>>,
  down |-> <<Drop("token", "FK_05a103"), Drop("consent", "FK_0e984f"),
    Drop("consent", "FK_a5cfa7"), DropTable("consent"),
    Add("token", "FK_05a103", Cascade("consent_id", "user_client_consent"))>>]

TokenFamily == [
  up |-> <<Drop("token", "FK_94f168"), Drop("token", "userId"),
    Add("token", "token_family_id", Req("uuid")), Add("token", "user_id", Opt("uuid")),
    Add("token", "FK_e50ca8", Cascade("user_id", "user"))>>,
  down |-> <<Drop("token", "FK_e50ca8"), Drop("token", "user_id"),
    Drop("token", "token_family_id"), Add("token", "userId", Opt("uuid")),
    Add("token", "FK_94f168", Cascade("userId", "user"))>>]

SessionTable == [
  up |-> <<
    Create("sessions", [id |-> Def("uuid"), jti |-> Req("varchar"),
      user_id |-> Req("uuid"), consent_id |-> Opt("uuid"),
      token_family_id |-> Req("varchar"), expires_at |-> Req("timestamp"),
      created_at |-> Column("timestamptz", FALSE, TRUE, {}),
      updated_at |-> Column("timestamptz", FALSE, TRUE, {})]),
    Drop("token", "FK_e50ca8"), NotNull("token", "user_id"),
    Add("token", "FK_e50ca8", Cascade("user_id", "user")),
    Add("sessions", "FK_085d54", Cascade("user_id", "user")),
    Add("sessions", "FK_3b579c", Cascade("consent_id", "consent"))>>,
  down |-> <<Drop("sessions", "FK_3b579c"), Drop("sessions", "FK_085d54"),
    Drop("token", "FK_e50ca8"), Nullable("token", "user_id"),
    Add("token", "FK_e50ca8", Cascade("user_id", "user")), DropTable("sessions")>>]

\* The two UPDATEs fill columns that are added only where they are missing.
SessionWithoutToken == [
  up |-> <<DropIf("sessions", "FK_085d54"), DropIf("sessions", "FK_3b579c"),
    DropIf("sessions", "FK_b99aa5"), DropIf("sessions", "UQ_b99aa5"), DropIf("token", "UQ_eb1888"),
    AddIf("sessions", "token_family_id", Opt("varchar")),
    AddIf("sessions", "expires_at", Opt("timestamp")),
    Nullable("sessions", "consent_id"), Alter("sessions", "token_family_id", "ty", "varchar"),
    NotNull("sessions", "token_family_id"), NotNull("sessions", "expires_at"),
    DropIf("sessions", "session_count"), DropIf("sessions", "token_id"),
    Add("sessions", "FK_085d54", Cascade("user_id", "user")),
    Add("sessions", "FK_3b579c", Cascade("consent_id", "consent"))>>,
  down |-> <<DropIf("sessions", "FK_3b579c"), DropIf("sessions", "FK_085d54"),
    Alter("sessions", "token_family_id", "ty", "uuid"), NotNull("sessions", "consent_id"),
    Add("token", "UQ_eb1888", Unique("token_family_id")),
    Add("sessions", "UQ_b99aa5", Unique("token_family_id")),
    Add("sessions", "FK_b99aa5", References("token_family_id", "token", "token_family_id", "cascade")),
    Add("sessions", "FK_085d54", References("user_id", "user", "id", "noAction")),
    Add("sessions", "FK_3b579c", References("consent_id", "consent", "id", "noAction"))>>]

DeletedAt == [
  up |-> <<Drop("token", "expiresAt"), Add("sessions", "deleted_at", Opt("timestamptz")),
    Add("token", "expires_at", Req("timestamptz")), Add("token", "deleted_at", Opt("timestamptz"))>>,
  down |-> <<Drop("token", "deleted_at"), Drop("token", "expires_at"),
    Drop("sessions", "deleted_at"), Add("token", "expiresAt", Req("timestamp"))>>]

FirstLabels == {"INVALID_LOGIN_ATTEMPT", "MULTIPLE_IPS_DETECTED", "SIMULTANEOUS_SESSIONS",
    "MANUAL_TOKEN_REVOCATION", "PASSWORD_RESET_REQUESTED", "REFRESH_TOKEN_REUSED", "OTHER"}
Severities == {"INFORMATIONAL", "LOW", "MEDIUM", "HIGH", "CRITICAL"}

SecurityEventTable == [
  up |-> <<Create("security_event_type_enum", <<>>), Create("security_event_severity_enum", <<>>),
    Create("security_event", [id |-> Req("uuid"), type |-> Enum(FirstLabels),
      ip |-> Req("varchar"), userAgent |-> Req("varchar"), email |-> Req("varchar"),
      severity |-> Enum(Severities), occurred_at |-> Def("timestamptz")])>>,
  down |-> <<DropTable("security_event"), DropTable("security_event_severity_enum"),
    DropTable("security_event_type_enum")>>]

NoDefault == [up |-> <<>>, down |-> <<>>]   \* mutant: the default was forgotten
SecurityEventId == [
  up |-> <<Alter("security_event", "id", "def", TRUE)>>,
  down |-> <<Alter("security_event", "id", "def", FALSE)>>]

SecurityEventEmail == [
  up |-> <<Nullable("security_event", "email")>>,
  down |-> <<NotNull("security_event", "email")>>]

SecurityEventLabels == [
  up |-> <<RenameType("security_event_type_enum", "security_event_type_enum_old"),
    Create("security_event_type_enum", <<>>),
    Alter("security_event", "type", "def", FALSE),
    Alter("security_event", "type", "labels", FirstLabels \union {"INVALID_OAUTH_LOGIN_ATTEMPT"}),
    Alter("security_event", "type", "def", TRUE), DropTable("security_event_type_enum_old")>>,
  down |-> <<Create("security_event_type_enum_old", <<>>),
    Alter("security_event", "type", "def", FALSE),
    Alter("security_event", "type", "labels", FirstLabels),
    Alter("security_event", "type", "def", TRUE), DropTable("security_event_type_enum"),
    RenameType("security_event_type_enum_old", "security_event_type_enum")>>]

SecurityEventReason == [
  up |-> <<Add("security_event", "reason", Opt("varchar"))>>,
  down |-> <<Drop("security_event", "reason")>>]

UserDeletedAt == [
  up |-> <<Add("user", "deleted_at", Opt("timestamptz"))>>,
  down |-> <<Drop("user", "deleted_at")>>]

Migration == <<Init19032026, ConsentRelation, TokenBecomesConsentId, NewRelations, ConsentDates,
    ClientIdRenamed, Jti, UserCreatedAt, ClientNameUnique, ConsentTable, TokenFamily,
    SessionTable, SessionWithoutToken, DeletedAt, SecurityEventTable, SecurityEventId,
    SecurityEventEmail, SecurityEventLabels, SecurityEventReason, UserDeletedAt>>
Latest == Len(Migration)

ASSUME ReleasesAssumption == Releases \subseteq 0..Latest

-----------------------------------------------------------------------------
(* What PostgreSQL does with a statement. *)

Without(f, x) == [y \in DOMAIN f \ {x} |-> f[y]]
With(f, x, v) == [y \in DOMAIN f \union {x} |-> IF y = x THEN v ELSE f[y]]

\* Foreign keys of other items that need the unique column c of table t.
PointsAt(s, t, c) ==
    \E u \in DOMAIN s : \E n \in DOMAIN s[u] :
        LET i == s[u][n] IN i.kind = "fk" /\ i.table = t /\ i.ref = c

IsUnique(s, t, c) ==
    c = "id" \/ \E n \in DOMAIN s[t] : s[t][n] = Unique(c)

MayDropTable(s, t) ==
    \A u \in DOMAIN s \ {t} : \A n \in DOMAIN s[u] : s[u][n].kind = "fk" => s[u][n].table # t
MayReference(s, t, i) ==
    /\ i.table \in DOMAIN s /\ i.ref \in DOMAIN s[i.table]
    /\ IsUnique(s, i.table, i.ref) /\ s[i.table][i.ref].ty = s[t][i.on].ty
MayAdd(s, st) ==
    /\ st.lax \/ st.n \notin DOMAIN s[st.t]
    /\ st.item.kind # "column" => st.item.on \in DOMAIN s[st.t]
    /\ st.item.kind = "fk" => MayReference(s, st.t, st.item)
\* (A column that a foreign key references cannot be dropped either; no migration
\* does, and that refusal is left out.)
MayDrop(s, st) ==
    IF st.n \in DOMAIN s[st.t]
    THEN s[st.t][st.n].kind = "unique" => ~ PointsAt(s, st.t, s[st.t][st.n].on)
    ELSE st.lax

\* The statement is one the catalogue allows.
Legal(s, st) ==
    IF st.op = "create" THEN st.t \notin DOMAIN s
    ELSE /\ st.t \in DOMAIN s
         /\ CASE st.op = "dropTable"  -> MayDropTable(s, st.t)
              [] st.op = "renameType" -> st.n \notin DOMAIN s
              [] st.op = "add"        -> MayAdd(s, st)
              [] st.op = "drop"       -> MayDrop(s, st)
              [] st.op = "rename"     -> st.n \in DOMAIN s[st.t] /\ st.to \notin DOMAIN s[st.t]
              [] st.op = "alter"      -> st.n \in DOMAIN s[st.t]

\* The rows of the table stand in the way: always when a column they have no
\* value for is required; when a constraint, a narrower type or NOT NULL is
\* put on what is there, that depends on the rows (picky).
Refused(s, st, used, picky) ==
    /\ st.t \in used
    /\ \/ /\ st.op = "add" /\ st.n \notin DOMAIN s[st.t]
          /\ IF st.item.kind = "column" THEN st.item.req /\ ~ st.item.def ELSE picky
       \/ /\ st.op = "alter" /\ picky
          /\ \/ st.f = "req" /\ st.v /\ ~ s[st.t][st.n].req
             \/ st.f = "labels" /\ ~ (s[st.t][st.n].labels \subseteq st.v)
             \/ st.f = "ty" /\ st.v = "uuid" /\ s[st.t][st.n].ty # "uuid"

\* A dropped column takes its constraints with it; a renamed one does not.
DropItem(tab, n) ==
    [m \in {m \in DOMAIN tab \ {n} : tab[n].kind = "column" /\ tab[m].kind # "column" => tab[m].on # n}
        |-> tab[m]]
Renamed(item, t, st) ==
    CASE item.kind = "column" -> item
      [] item.kind = "unique" -> IF t = st.t /\ item.on = st.n THEN [item EXCEPT !.on = st.to] ELSE item
      [] item.kind = "fk"     ->
            [item EXCEPT !.on  = IF t = st.t /\ @ = st.n THEN st.to ELSE @,
                         !.ref = IF item.table = st.t /\ @ = st.n THEN st.to ELSE @]
Do(s, st) ==
    CASE st.op = "create"     -> With(s, st.t, st.items)
      [] st.op = "dropTable"  -> Without(s, st.t)
      [] st.op = "renameType" -> With(Without(s, st.t), st.n, s[st.t])
      [] st.op = "add"        -> [s EXCEPT ![st.t] =
                                      IF st.n \in DOMAIN @ THEN @ ELSE With(@, st.n, st.item)]
      [] st.op = "drop"       -> [s EXCEPT ![st.t] = IF st.n \in DOMAIN @ THEN DropItem(@, st.n) ELSE @]
      [] st.op = "alter"      -> [s EXCEPT ![st.t][st.n][st.f] = st.v]
      [] st.op = "rename"     ->
            LET moved == [s EXCEPT ![st.t] = With(Without(@, st.n), st.to, @[st.n])]
            IN  [t \in DOMAIN s |-> [n \in DOMAIN moved[t] |-> Renamed(moved[t][n], t, st)]]

\* One statement of a transaction that has got as far as x.
Executed(x, st, used, picky) ==
    IF x.outcome # "ok" THEN x
    ELSE IF ~ Legal(x.schema, st) THEN [schema |-> x.schema, outcome |-> "schema"]
    ELSE IF Refused(x.schema, st, used, picky) THEN [schema |-> x.schema, outcome |-> "rows"]
    ELSE [schema |-> Do(x.schema, st), outcome |-> "ok"]

\* The statements of a migration in turn, up to the first that fails.
Execute(x, statements, used, picky) ==
    LET after[i \in 0..Len(statements)] ==
            IF i = 0 THEN x ELSE Executed(after[i - 1], statements[i], used, picky)
    IN  after[Len(statements)]

\* The pending migrations in turn.
ExecutePending(x, from, to, used, picky) ==
    LET after[n \in 0..to - from] ==
            IF n = 0 THEN x ELSE Execute(after[n - 1], Migration[from + n].up, used, picky)
    IN  after[to - from]

-----------------------------------------------------------------------------
(* The deployment. *)

SchemaInit ==
    /\ schema = <<>> /\ level = 0 /\ born = <<>>
    /\ release \in Releases
    /\ outcome = "ok"

\* One transaction, which ended in x: the schema and the executed migrations
\* change together, or not at all.
Transaction(x, to) ==
    /\ outcome' = x.outcome
    /\ IF x.outcome = "ok"
       THEN /\ schema' = x.schema /\ level' = to
            /\ born' = [t \in DOMAIN born \intersect DOMAIN x.schema |-> born[t]]
       ELSE UNCHANGED <<schema, level, born>>
    /\ UNCHANGED release

Begun == [schema |-> schema, outcome |-> "ok"]

MigrationRun ==
    /\ level < release
    /\ \E picky \in BOOLEAN :
          Transaction(ExecutePending(Begun, level, release, DOMAIN born, picky), release)

MigrationRevert ==
    /\ level > 0
    /\ \E picky \in BOOLEAN :
          Transaction(Execute(Begun, Migration[level].down, DOMAIN born, picky), level - 1)

\* The images of a later release; who runs the service is Bootstrap's.
Deploy ==
    /\ \E r \in Releases : r > release /\ release' = r
    /\ UNCHANGED <<schema, level, born, outcome>>

\* A row is written, by a service whose release fits the schema; all rows go.
Write(t) ==
    /\ level = release
    /\ t \in DOMAIN schema \ DOMAIN born
    /\ born' = With(born, t, level)
    /\ UNCHANGED <<schema, level, release, outcome>>

Empty(t) ==
    /\ t \in DOMAIN born
    /\ born' = Without(born, t)
    /\ UNCHANGED <<schema, level, release, outcome>>

-----------------------------------------------------------------------------
(* The entities of the code: what each repository reads and writes. *)

UserEntity == [id |-> Def("uuid"), name |-> Req("varchar"), email |-> Req("varchar"),
      password |-> Req("varchar"), isVerified |-> Def("boolean"),
      createdAt |-> Def("timestamptz"), deleted_at |-> Opt("timestamptz"),
      email_unique |-> Unique("email")]

ClientEntity == [id |-> Def("uuid"), client_id |-> Req("varchar"),
      clientSecret |-> Opt("varchar"), isConfidential |-> Def("boolean"),
      name |-> Req("varchar"), redirectUris |-> Req("text[]"),
      grantTypes |-> Req("text[]"), scopes |-> Req("text[]"),
      isActive |-> Def("boolean"), createdAt |-> Def("timestamptz"),
      unique_1 |-> Unique("client_id"), unique_2 |-> Unique("clientSecret"),
      unique_3 |-> Unique("name"), unique_4 |-> Unique("redirectUris")]

ConsentEntity == [id |-> Def("uuid"), scopes |-> Req("text[]"),
      user_id |-> Req("uuid"), client_id |-> Req("varchar"),
      grantedAt |-> Def("timestamptz"), expires_at |-> Opt("timestamp"),
      revoke_at |-> Opt("timestamp"), user |-> Cascade("user_id", "user"),
      client |-> References("client_id", "client", "client_id", "cascade")]

TokenEntity == [id |-> Def("uuid"), token_family_id |-> Req("uuid"),
      jti |-> Req("uuid"), user_id |-> Req("uuid"), consent_id |-> Opt("uuid"),
      refresh_token |-> Req("varchar"), expires_at |-> Req("timestamptz"),
      deleted_at |-> Opt("timestamptz"), jti_unique |-> Unique("jti"),
      user |-> Cascade("user_id", "user"), consent |-> Cascade("consent_id", "consent")]

SessionEntity == [id |-> Def("uuid"), jti |-> Req("varchar"),
      user_id |-> Req("uuid"), consent_id |-> Opt("uuid"),
      token_family_id |-> Req("varchar"), expires_at |-> Req("timestamp"),
      created_at |-> Column("timestamptz", FALSE, TRUE, {}),
      updated_at |-> Column("timestamptz", FALSE, TRUE, {}),
      deleted_at |-> Opt("timestamptz"), user |-> Cascade("user_id", "user"),
      consent |-> Cascade("consent_id", "consent")]

SecurityEventType == {"INVALID_LOGIN_ATTEMPT", "INVALID_OAUTH_LOGIN_ATTEMPT",
    "MULTIPLE_IPS_DETECTED", "SIMULTANEOUS_SESSIONS", "MANUAL_TOKEN_REVOCATION",
    "PASSWORD_RESET_REQUESTED", "REFRESH_TOKEN_REUSED", "OTHER"}

SecurityEventEntity == [id |-> Def("uuid"), type |-> Enum(SecurityEventType),
      ip |-> Req("varchar"), userAgent |-> Req("varchar"), email |-> Opt("varchar"),
      severity |-> Enum(Severities), reason |-> Opt("varchar"), occurred_at |-> Def("timestamptz")]

Entities == [user |-> UserEntity, client |-> ClientEntity, consent |-> ConsentEntity,
      token |-> TokenEntity, sessions |-> SessionEntity, security_event |-> SecurityEventEntity]

-----------------------------------------------------------------------------
(* Properties. *)

\* Table tab is what entity e declares; constraints may have any name.
Fits(tab, e) ==
    LET Columns(f) == {<<n, f[n]>> : n \in {m \in DOMAIN f : f[m].kind = "column"}}
        Constraints(f) == {f[n] : n \in {m \in DOMAIN f : f[m].kind # "column"}}
    IN  Columns(tab) = Columns(e) /\ Constraints(tab) = Constraints(e)

\* Type invariant; the executed migrations are a prefix of those the code
\* has, rows are in tables that exist, and a full revert leaves nothing.
TypeOK ==
    /\ level \in 0..Latest /\ (level = 0 => DOMAIN schema = {}) /\ release \in Releases
    /\ outcome \in {"ok", "rows", "schema"}
    /\ DOMAIN born \subseteq DOMAIN schema
    /\ \A t \in DOMAIN born : born[t] \in 0..Latest

\* Whatever runs and reverts came before, a statement is refused because of
\* the rows it meets, never because the catalogue is not the one the
\* migration was generated against: each `down` leaves what the `up` of its
\* migration, and the `down` of the one before, can start from.
RefusedOnlyByRows == outcome # "schema"

\* With all migrations executed, after any detour of reverts and runs, every
\* table is exactly what the entity of the code maps, constraints and the
\* cascades of the deletes included: nothing is left behind by a revert.
LatestFitsEntities ==
    level = Latest => \A t \in DOMAIN Entities : t \in DOMAIN schema /\ Fits(schema[t], Entities[t])

\* A refresh token of the database has a jti, a family and an expiry that a
\* release chose: no run carried a row across one of the migrations (7, 11
\* and 14) that add these columns, so a used token table stops the run there.
TokenRowsComplete ==
    "token" \in DOMAIN born =>
        \A added \in {7, 11, 14} : level >= added => born["token"] >= added

=============================================================================
