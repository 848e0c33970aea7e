------------------------------ MODULE Bootstrap ------------------------------
(***************************************************************************)
(* How the process starts: NestFactory.create reads the settings and fills *)
(* the container, app.listen runs the hooks and opens the port.  A process *)
(* that ends is started again (compose.yaml: restart: unless-stopped), with *)
(* the settings it had; the database and Redis come and go.                *)
(***************************************************************************)
EXTENDS Wiring

CONSTANT Varied    \* bound: the settings that may be missing

VARIABLES
    phase,    \* "stopped", "down", "building", "connecting" or "serving"
    unset,    \* the settings that are missing
    dbUp, redisUp

bootVars == <<phase, unset, dbUp, redisUp>>

\* The settings that are validated before anything else.
Required == {"DB_HOST", "DB_USER", "DB_PASSWORD", "DB_NAME", "SECRET", "SERVICE_URL",
    "GMAIL_CLIENT_ID", "GMAIL_CLIENT_SECRET", "GMAIL_REDIRECT_URI", "GMAIL_REFRESH_TOKEN",
    "GMAIL_SENDER_EMAIL", "OAUTH_LOGIN_URL", "REDIS_URI", "SERVICE_RESET_PASSWORD_URL",
    "SERVICE_VERIFY_EMAIL_URL", "REDIRECT_URI", "CLIENT_SECRET_PEPPER"}

\* Those a factory reads by getOrThrow while the container is filled, but are
\* not validated before; the image sets NODE_ENV.
Unvalidated == {"SERVICE_UNBLOCK_ACCOUNT_URL", "NODE_ENV"}
ReadAtBuild == {"REDIS_URI"} \union Unvalidated

\* And a hook, once it is filled.
ReadAtConnect == {"GMAIL_CLIENT_ID", "GMAIL_CLIENT_SECRET", "GMAIL_REDIRECT_URI",
    "GMAIL_REFRESH_TOKEN"}

BootInit ==
    /\ phase = "stopped" /\ unset \in SUBSET Varied
    /\ dbUp = FALSE /\ redisUp = FALSE

Step(from, to) == phase = from /\ phase' = to /\ UNCHANGED <<unset, dbUp, redisUp>>

\* The operator: settings are edited while nothing runs.
Up == Step("stopped", "down")
Down == phase # "stopped" /\ Step(phase, "stopped")
Configure ==
    /\ phase = "stopped"
    /\ unset' \in SUBSET Varied
    /\ UNCHANGED <<phase, dbUp, redisUp>>

\* ConfigModule.forRoot; when a setting is missing the process ends, and the
\* next one is where this one was.
Load == unset \intersect Required = {} /\ Step("down", "building")

\* Every provider is made.  The data source waits for the database.
Buildable == Complete /\ unset \intersect ReadAtBuild = {}
Build      == Buildable /\ dbUp /\ Step("building", "connecting")
BuildFails == ~ (Buildable /\ dbUp) /\ Step("building", "down")

\* onModuleInit: Redis answers a ping, the workers begin; then the listeners
\* are subscribed and the port is opened.
Connectable == unset \intersect ReadAtConnect = {} /\ redisUp
Connect      == Connectable /\ Step("connecting", "serving")
ConnectFails == ~ Connectable /\ Step("connecting", "down")

Crash == Step("serving", "down")

Database == dbUp' = ~ dbUp /\ UNCHANGED <<phase, unset, redisUp>>
Redis    == redisUp' = ~ redisUp /\ UNCHANGED <<phase, unset, dbUp>>

BootNext ==
    \/ Up \/ Down \/ Configure \/ Load \/ Build \/ BuildFails \/ Connect \/ ConnectFails
    \/ Crash \/ Database \/ Redis

-----------------------------------------------------------------------------
(* Properties. *)

\* The operator wants the service and gives it what the template of the
\* settings asks for, and database and Redis are there.
Healthy ==
    /\ phase # "stopped" /\ dbUp /\ redisUp
    /\ unset \intersect (Required \union Unvalidated) = {}

\* When that is so for good the service serves, and serves again after every
\* crash: no module misses a provider that another was to export, and no
\* setting is read that the operator was not asked for.
Serves == <>[]Healthy => []<>(phase = "serving")

\* What serves is wired as the code was written: each use case has its ports in
\* their places, although nothing checks the order, and each queue and the
\* security events have exactly one consumer.
Whole == phase = "serving" => WellTyped /\ Consumed
=============================================================================
