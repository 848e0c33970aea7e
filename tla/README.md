# A verification project for Authenticator-back

Authenticator-back is an authentication and OAuth2 server (NestJS, PostgreSQL
through TypeORM, Redis, BullMQ). These modules model the parts of it whose
correctness depends on the order in which concurrent requests, transactions,
expiries, crashes and deployments fall. TLC checks them on small instances; TLAPS
proves the safety properties of every component that serves requests or runs a
queue, and of the migrations under every history of runs and reverts, for every
instance.

Paths below are relative to the repository; the code is in `src/`.

## 1. Inventory

| Component | State | Operations | Hard behaviour | Correct when |
|---|---|---|---|---|
| Refresh-token rotation (`oauth`, `token`) | `token` table, Redis `token-family-used:<hash>` | refresh | concurrent refreshes; reuse reports during a rotation; mark set before the transaction; expiry | a token is redeemed once, and a reuse condemns its lineage |
| Sessions (`session`) | `sessions` table, linked to `token` by the jti only | create, count, evict, update, delete | READ COMMITTED counts, two tables in step | the tables stay paired, the cap is exceeded by a bounded number |
| Revocation (`oauth`, `token`) | both tables, Redis `revoke-token-blocklist:<jti>` | revoke | races with refresh, crash before the blocklist write | a credential is revoked or redeemed, never both |
| Introspection and JWTs (`token`, `oauth`) | none of its own | sign, verify, look up the blocklist | two clocks: the JWT's and the blocklist entry's; a slow introspection | a confirmed revocation is inactive, and nothing else is before it expires |
| Login failures and blocking (`auth`, `oauth`, `user`) | Redis counter, `user` row, Redis unblock codes | login, block, unblock | read-increment-write, two UPDATEs without a transaction, crashes | no early block, every block can be undone |
| Activation (`auth`) | `user.isVerified` | activate, resend | any JWT, stale reads | an address is proved before its account is used |
| Password reset (`auth`) | Redis reset codes, `user.password` | request, set | read long before delete | a used code is gone |
| Authorization code (`oauth`) | Redis requests and codes | authorize, login, exchange | GET then DEL, everything consumed before it is checked | a code is backed by a consent, bound to its challenge, used up |
| Consents (`consent`) | `consent` table | find or create | no unique key | few duplicates, one always found |
| Registration (`user`) | `user` row | register | check then insert, only a unique key behind it; a blocked account is invisible | one account per address, answers that are true |
| Clients (`client`) | `client` table | register, find, redirect-URI and scope checks | a secret shown once; URIs compared after parsing, in order | a shown secret works, only registered URIs are redirected to |
| Mail (`email`) | BullMQ queue `send-email` | add, process | calls nobody awaits, stalled and repeated jobs | every accepted job is settled, a completed one was delivered |
| Security events (`security-event`) | event emitter, BullMQ queue, table | emit, add, store | the emitter is asynchronous, no retries | every event is of a committed act, and is recorded unless something failed |
| Migrations (`config/database`) | the PostgreSQL catalogue | run, revert | rows written by an earlier release, reverts in between | only rows refuse a migration; the last schema is what the entities map |
| Wiring and start-up (`main.ts`, the `*.module.ts`) | the container, the process | build, connect, serve, crash | nothing checks `inject` against the factories; settings read late; servers that are down | what serves is wired as written; a healthy process serves again |
| HTTP layer, logging, health | none of their own | - | - | - |

How they interact. Controllers call use cases, which call other packages through
ports and adapters; all state is in PostgreSQL and Redis. The direct login and
the code exchange both end in `TokenService.generate`, which writes `token` and
`sessions` in one transaction. The OAuth login and the direct login share the
failure counter and the unblock codes. Rotation, revocation and reuse detection
meet in the two tables and in Redis. Mails and security events leave through two
BullMQ queues, whose workers run in the same process.

Concurrency. One Node process runs one handler's code at a time and switches at
every `await`; several processes may share the database. So each request is a
process of the model, and one step is what it does from one await that matters
to the next. A transaction takes effect when it commits, and rolls back when one
of its "affected rows" checks fails. A process may die at any await: the models
of requests have an `Abort` at every step, which also stands for every check that
throws and every call that rejects; the models of the pipelines and of the
start-up have the death of the whole process.

## 2. Modules

| Module | What it is |
|---|---|
| `Rotation` | abstract specification: the life of a credential |
| `TokenSession` | rotation, reuse detection, revocation, sessions and logins of one user, over both tables and Redis |
| `TokenSessionInv` | its inductive invariant `IInv`, in named parts |
| `TokenSessionProofs` | its theorems, and that it implements `Rotation` |
| `AccessToken` | access tokens against a clock: signing, expiry, blocklist, introspection |
| `Account` | one account: failed logins, blocking, unblocking, activation, password reset |
| `Registration` | how accounts come to be: registrations and resent links of several addresses |
| `AuthorizationCode` | authorization requests, codes, PKCE and consents of one user |
| `Clients` | registration of clients, and what an authorization asks of one |
| `JobQueue` | abstract specification: what a queue promises |
| `BullQueue` | a BullMQ queue, its worker and the process they live in, as the code configures them (external); that it implements `JobQueue` |
| `Mail` | the mail pipeline over `BullQueue` |
| `SecurityEvents` | the security-event pipeline over `BullQueue` |
| `Migrations` | the twenty migrations on the catalogue, and the entities |
| `Wiring` | what every module provides, imports and exports, and how Nest resolves it |
| `Bootstrap` | the start of a process, over `Wiring` |
| `Deployment` | `Bootstrap` and `Migrations` composed |
| `Catalogue` | the schemas that runs and reverts can reach, one by one: the inductive invariant of the migrations |
| `AccountProofs`, `RegistrationProofs`, `AuthorizationCodeProofs`, `ClientsProofs`, `AccessTokenProofs`, `DeploymentProofs` | the inductive invariant and the theorems of the module they are named after |
| `PipelineProofs` | the theorems of `Mail` and `SecurityEvents`, over lemmas about `BullQueue` that both share |
| `MC...` | values, symmetry and state constraints for TLC |

### TokenSession

* `tok` and `sess` are the two tables. A row has a state (`none`, `live`, or
  `soft`, when `deleted_at` is set), the credential that is written in it, its
  family and its consent. A SELECT sees only `live` rows; TypeORM's UPDATE and
  DELETE reach `soft` ones too, and the model keeps the difference (`LiveWith`
  against `SessionsWith`).
* A credential is the pair of refresh token and jti, which are always drawn
  together. Credentials are numbered in the order in which they are committed, a
  family is named by its first credential, and rows follow the start of their
  transactions, which is the order of `created_at` that the eviction uses.
* `used` and `blocklist` are the Redis keys. `ending` and `expired` are the
  clock: a credential enters its last second (`LastSecond`), in which no mark can
  be set (a lifetime of 0 is an error in Redis) and one that was set lapses
  (`Lapse`), and then expires (`Expire`). Expiry is looked at before the
  transaction of a refresh, not in it: a rotation may commit after it.
* A refresh is `RefreshConsult`, `RefreshFind`, `RefreshFlag`, `RefreshReread`,
  `RefreshRotate`; a reuse is `RefreshConsult`, `KillTokens`, `KillSessions`; a
  revocation is `RevokeFind`, `RevokeRead`, `RevokeDelete`, `RevokeBlock`; a
  login is `LoginRead`, `LoginCount`, `LoginEvict`, `LoginInsert`.
* The family deletion is the one transaction whose two statements see different
  snapshots, so it has two steps; the rows of the first are locked (`held`) until
  it commits.
* `home`, `parent`, `stillborn` and `reported` are history variables.

`Rotation` says what this promises: a credential becomes current once, is
redeemed for at most one successor and only while current, and never becomes
current again. The one exception is a redemption overtaken by a family deletion,
which answers a credential that never works. `ImplementsRotation` is the
refinement.

### AccessToken

The same logins, refreshes and revocations with the tables reduced to the jti of
each row, and time made explicit: `now` counts, a JWT ends `AccessLife` after it
was signed and a blocklist entry `BlockTTL` after it was written. An introspection
is `Present`, `Verify`, `LookUp`, `Told`: the clock may move between the check of
the JWT and that of the blocklist. Evictions and family deletions end sessions
and, as in the code, leave the blocklist alone. There are no families here: a family
deletion strikes any set of rows that has a session among it (`FamilyDeleted`), rows
whose own session was evicted before included. The run has one row; more than one
is left to the proofs.

### Account and Registration

`Account` is one user row, the counter of failed logins, and the two kinds of codes
in Redis. There is no transaction anywhere: each UPDATE and each Redis call is a
step. The failure handling is that of both logins. A mail is "handed" to the queue
where the code calls the queue without awaiting it: a code is stored (`SaveCode`)
before it is mailed (`MailCode`), and a temporary password is mailed (`MailTemp`)
before the code (`ClearCode`) and the counter (`ClearAttempts`) are deleted. Only a
code that was handed over is presented; guessed codes are not modelled.

`Registration` has many addresses and the requests that race for them. A SELECT
does not see the soft-deleted row of a blocked account (`Found`), the unique key
does (`Taken`). What `Account` has in full, activation, block and unblock, is one
step here for each UPDATE.

### AuthorizationCode

Requests and codes are keys in Redis, consumed by a GET and a DEL in two steps.
Redirect URI, state and scope are compared wherever the client id is, and travel
with it; a verifier is represented by the challenge it hashes to. The client is
authenticated before a code is read, so for a confidential client only its own
requests get that far. `ExchangeGenerate` is where `LoginRead` to `LoginInsert`
of `TokenSession` happen.

### Clients

`Create`, `GenerateClientSecret`, `Save`, `Answer` are the registration; the table
has four unique keys, of which one is the whole list of redirect URIs. A URI is a
value with a way of being written: two of them name the same URI (`Slashed`,
`Plain`), one cannot be parsed (`Malformed`). `RedirectVerdict` and
`ScopesAllowed` are what `AuthorizeUseCase` asks of a client;
`GrantedIsRegistered` compares them with a definition that knows nothing of
parsing or order.

### JobQueue, BullQueue, Mail, SecurityEvents

`JobQueue` is what a caller may rely on: an accepted job is settled some day, its
effect is had at most twice, and never after it was settled. `BullQueue` is the
library as it is used here (default options: one attempt, one job at a time,
`maxStalledCount` 1), with the process (`up`, `crashes`) whose death stalls a job.
`Mail` adds the six places that hand a mail over and the four templates; a refused
`add` that nobody awaits is an unhandled rejection, which ends the process.
`SecurityEvents` adds the handlers that punish first and raise the event
afterwards, the emitter, and the listener. An act whose commit succeeds but whose
answer is lost raises no event, and counts as a fault of that event, as a failed one
does (`Punishes`, `Fails`). Its initial predicate, actions and
specification are `EventInit`, `EventNext`, `EventSpec`, and the worker's steps
begin with `Recorder`, so that both pipelines can be proved about in one module.
Both are shown to implement `JobQueue`, its liveness included, under `Status` and
`effects` (`ImplementsJobQueue` of `BullQueue`).

### Migrations, Wiring, Bootstrap, Deployment

A migration is a pair of sequences of statements on `schema`, a function from
tables to columns and constraints; `Execute` runs them as PostgreSQL would, one
transaction per run (`migrationsTransactionMode` is left at its default), and stops
at the first that the catalogue refuses or that rows refuse (`picky`: whether the
rows happen to violate it). `born` keeps, for each used table, the migration level
of its oldest row. `Entities` is what the entity classes map.

`Wiring` writes the modules' decorators down as data: for every provider the types
its factory takes and the tokens `inject` lists. `Suppliers` is Nest's rule (own
providers, exports of imports, exports of global modules), `Instances` builds what
can be built, `WellTyped` compares positions.

`Bootstrap` goes from "down" over "building" and "connecting" to "serving", and
back to "down" when a setting is missing or a server is away. `Deployment` lets an
operator migrate and revert at any time, a later release be installed while
nothing runs, and requests write rows.

## 3. Runs

| Run | Instance | Shows | Distinct states |
|---|---|---|---|
| `token_rotation` | 2 requests, 1 consent and the direct login, cap 1, 2 rows, 3 credentials, the first credential nearing its end, one reuse reported or one revocation confirmed | `SpentIsMarked`, `ReportedLineageDead`, `IInv`, refinement of `Rotation` | 673 thousand |
| `session_cap` | 2 requests, cap 1, 3 rows, 3 credentials, no expiry, one reuse reported, one revocation confirmed | `SessionBound`, `SessionPairsToken`, `RedeemedOnce`, `RevokedNotRedeemed` | 1.9 million |
| `access_token` | 2 requests, 1 row, 2 jtis, both lifetimes 2, 4 ticks | `RevokedInactive`, `InactiveWasRevoked`, `RevokedStaysOut` | 866 thousand |
| `account_lockout` | 2 requests, `MaxAttempts` 1, 3 failures, 2 codes, 2 passwords | `BlockNeedsFailures`, `BlockedHasCode`, `PasswordRecoverable`, `AnsweredCodeGone`, `AddressProved` | 2.3 million |
| `registration` | 3 requests, 2 addresses | `AnswerIsTrue`, `VerifiedHasMail`, `OwnerKept` | 13 thousand |
| `code_exchange` | 2 requests, a public and a confidential client, 2 authorization requests, 3 codes, 3 consents | `DeliveredHasConsent`, `ConsentBound`, `ConsumedIsGone`, `PublicGrantProved` | 2.0 million |
| `clients` | 2 registrations, 2 names, 3 lists of 4 URIs, 2 scopes and the empty one | `ShownSecretWorks`, `GrantedIsRegistered` | 46 thousand |
| `mail_delivery` | 2 mails of any of the six kinds, 2 crashes | `CompletedWasSent`, `SuccessIsQueued`, `EveryRequestEnds`, refinement of `JobQueue` | 197 thousand |
| `event_pipeline` | 2 events, 2 crashes | `EventOfCommittedAct`, `PunishedIsRecorded`, refinement of `JobQueue` | 30 thousand |
| `deployment` | any of the 20 releases after any other, rows in the token and session tables, 2 settings that may be missing | `RefusedOnlyByRows`, `LatestFitsEntities`, `TokenRowsComplete`, `Whole`, `Serves` | 260 thousand |

Two more runs end in a counterexample to something the repository says:
`reuse_report` and `direct_login_cap` (section 5). A type invariant is checked
where it says more than types: that jtis, addresses and client keys are unique
(`AccessToken`, `Registration`, `Clients`); that of `TokenSession` is part of
`IInv`, and the others are only proved, as part of the inductive invariants.

Bounds. `MaxLogin`, `MaxRow`, `MaxCred`, `MaxJti`, `MaxFailures`, `MaxCode`,
`MaxPass`, `MaxRequest` and `MaxConsent` bound the data, `MaxTime` the clock,
`MaxCrash` the deaths of the process; in most modules `Req` bounds the requests in
progress, not their number (in `Registration` and `Clients` each is sent once). Two
requests at a time are enough for the races named in the properties, each of which
is between two handlers; registration has a third for a resent link. Three rows
and a cap of one let the cap be reached, evicted from and exceeded; three
credentials let a token be redeemed and its successor be redeemed too.
`session_cap` leaves the clock out (`NoExpiry`) and stops after one reuse report and
one confirmed revocation (`FewEnds`), since what it is about, logins that overlap,
needs no more; `token_rotation` lets the first credential near its end (`OneExpiry`;
the last one has no successor): expiry only disables steps, except for the mark,
which `token_rotation` is about. It stops after one report or one confirmed
revocation (`OneEnd`); that the two do not disturb each other is `session_cap`'s. In `access_token` four ticks let a token be
signed, revoked, expire and its entry end in every order; one row is one session,
and sessions do not meet there. Two crashes are what it takes to stall a job twice.
The migrations are all there, and any release may follow any other, so that every
list of releases is covered; the rows of the two tables that most migrations change
are followed. Of the settings two may be missing, one that is validated and one that
is not: within each of these kinds they all act alike (`NODE_ENV` as
`SERVICE_UNBLOCK_ACCOUNT_URL` does). What the bounds and the state constraints cut off is covered by the
proofs (section 4), but for the start-up and liveness.

Symmetry. Requests are interchangeable, and so are addresses; runs with liveness
properties (`mail_delivery`, `event_pipeline`, `deployment`) use none.

Deadlock is checked in `deployment` only. Elsewhere requests are optional, and when
the bounded supplies of rows, credentials or codes are used up everything may
rightly be at rest.

Fairness. The specifications of requests have none: a request may stop at any step
for good, and their properties are safety. The pipelines and the start-up assume
only what the code and its deployment provide, as weak fairness. A dead process is
started again (`restart: unless-stopped` in `compose.yaml`). In a live process a
request that has handed a mail over, a listener and the worker go on, since Node
runs every continuation that is ready. BullMQ checks for stalled jobs
periodically. A start that has begun gets to its next phase or fails.
Which outcome a step has is never part of the fairness (success and refusal are
one disjunction), nobody has to send a request, and nothing makes an operator, the
database or Redis act: `Serves` speaks of behaviours in which the operator wants
the service, gives it the settings of `.env.template`, and the servers stay up.

## 4. What is proved

Each `...Proofs` module proves `Invariance` (`Spec => []IInv`) for the inductive
invariant it defines, and from it the theorems below, for every value of the
constants. `IInv` of `TokenSession` is an invariant of the run `token_rotation`; the
others were checked with TLC on the instances of section 3 before they were proved.

| Module | Theorems, and the property each states |
|---|---|
| `TokenSession` | `TypeCorrect`, `RedeemedOnceHolds`, `SessionPairsTokenHolds`, `RevokedNotRedeemedHolds`; `MarksArePlaced` (`SpentIsMarked`), `ReportedLineagesAreDead` (`ReportedLineageDead`), `SessionsAreBounded` (`SessionBound`), `RotationIsImplemented` (`ImplementsRotation`) |
| `Account` | `TypeCorrect`, `BlocksAreEarned` (`BlockNeedsFailures`), `BlocksCanBeUndone` (`BlockedHasCode`), `OwnerGetsIn` (`PasswordRecoverable`), `AnsweredCodesAreGone` (`AnsweredCodeGone`), `ActivationIsProved` (`AddressProved`) |
| `Registration` | `TypeCorrect`, `AnswersAreTrue` (`AnswerIsTrue`), `VerificationIsProved` (`VerifiedHasMail`), `OwnersAreKept` (the action property `OwnerKept`) |
| `AuthorizationCode` | `TypeCorrect`, `CodesHaveConsent` (`DeliveredHasConsent`), `ConsentsAreBounded` (`ConsentBound`), `ConsumptionIsFinal` (`ConsumedIsGone`), `PublicGrantsAreProved` (`PublicGrantProved`) |
| `Clients` | `TypeCorrect`, `ShownSecretsWork` (`ShownSecretWorks`), `GrantsAreRegistered` (`GrantedIsRegistered`) |
| `AccessToken` | `TypeCorrect`, `RevocationIsSeen` (`RevokedInactive`), `InactivityIsEarned` (`InactiveWasRevoked`), `RevocationIsFinal` (the action property `RevokedStaysOut`) |
| `Mail` | `CompletionIsTrue` (`CompletedWasSent`), `SuccessIsTrue` (`SuccessIsQueued`), `MailPromiseKept` (the safety half of `ImplementsJobQueue`) |
| `SecurityEvents` | `EventsAreTrue` (`EventOfCommittedAct`), `EventPromiseKept` (the safety half of `ImplementsJobQueue`) |
| `Deployment` | `TypeCorrect`, `NeverMisled` (`RefusedOnlyByRows`), `EntitiesFit` (`LatestFitsEntities`), `RowsComplete` (`TokenRowsComplete`) |

Assumptions. Every module assumes that its bounds, caps and lifetimes are natural
numbers, that the session cap is not 0 (in the code it is the literal 5), and that NULL values
are not among the values. `TokenSession`,
`AuthorizationCode` and `Clients` assume that finitely many requests are in
progress, since they count them; `Account` needs no such assumption, because in it
the requests that are counted have each had a failure. `Clients` also assumes that
there is a name and a list of URIs to register, and `Migrations` that a release has
between none and all of the twenty migrations. Nothing is assumed about how many
requests there are, nor that a token lives no longer than a blocklist entry: that is
a hypothesis inside `RevokedInactive`.

None of the properties is inductive. What each invariant adds, and why:

**TokenSession**, in three parts.

* `TableInv`. That a token is redeemed once needs to know that a rotation whose
  session UPDATE finds the old jti found the session of the very row it read
  (`SessionPairsToken`), that this row is where the credential was first written
  (`AtHome`, `RotateAtHome`), and that a jti which is still in a session has not been
  redeemed (`StoredUnspent`). That in turn needs every credential in a row to be an
  old one (`DrawnOnly`), and rows under a family deletion to stay in the table
  (`HeldStored`). A revocation is safe because after its transaction the credential
  is in no row and can never return to one (`RevokedDead`), and a rotation that read
  it earlier finds no row to update.
* `LineageInv`. A row is written by one login and from then on only dies
  (`WrittenToRows`, `RowsFresh`), so that what is reported stays dead
  (`DeadStayDead`). A mark names the family of the credential's row, and so does
  every request that has read one (`FamilyKnown`): the family deletion of a reuse
  strikes the row its token is in. Whoever will redeem has marked (`MarkedFirst`).
* `CapInv`. Logins that count at the same time all find room, so what is bounded is
  not the sessions alone but the evictable ones, those about to be deleted as
  victims, and the logins about to add one: together at most the cap, minus one,
  plus the number of requests (`PlacesBound`). A victim that a family deletion
  overtakes frees no place, but it had one.

The proof has one lemma per kind of step: those that write a table, the one that
writes the blocklist, and all others, which keep what an invariant is about.

**Refinement of Rotation.** Under the mapping of `TokenSession` a step of the tables
either only closes credentials (evictions, deletions, revocations: `OnlyCloses`), or
is the login of a new credential, or the redemption of a current one for a new
one. A rotation that a family deletion overtook writes its credential to a row that
is already `soft`; it maps to the abstract redemption that comes too late, whose
successor never is current. `IInv` supplies that a rotation that goes through finds
its credential current, and that a credential once closed is not written again.

**Account.** The counter is read, incremented and written back without a lock, so
an increment can be lost: it, and every value about to be written to it, leave room
for all failures that it has yet to learn of (`CounterBehind`), and a block under
way has seen it full (`BlockEarned`). The code of a block is handed to the mail
queue before the row is touched (`BlockHanded`). Every code of an unblock under way
can still be used, has run out, or has set a password its owner knows, and the same
holds of the code the password of the row was set under (`CodesAccounted`), wherever
the unblock stops. A password change that is past its deletion has left no code
behind (`ClearedIsGone`), because codes are drawn anew (`CodesDrawn`,
`LocalsDrawn`). What an access token takes, a verified account or a login, is only
there once the owner has been seen (`AccessEarned`).

**Registration.** The table keeps one row for an address (`OneRowEach`), and whoever
was told or is about to be told something has its row or its mail
(`RowsBehindRequests`). That holds because no step removes a row or changes whose it
is (`RowsKept`), which is also the action property.

**AuthorizationCode.** Past the match, a login is about its own client's request,
which is gone (`LoginMatched`); a code whose verifier was accepted is gone, and the
verifier is that of its challenge, or there is none and the client is confidential
(`ExchangeProved`). Ids and codes are drawn before they are used and what was drawn
never changes (`AllDrawn`). The consents of a client together with the requests that
are about to add one are no more than the requests (`CreatorsFit`): there are such
requests only until a row is there to be found.

**Clients.** Exactly the confidential clients have a secret, in the table and in
every registration under way (`SecretsFit`), and a registration that is answered
has its client in the table (`AnsweredIsStored`), where the keys are unique, so that
its id finds no other. `GrantedIsRegistered` follows from the type of the table and
one lemma about the scan of the list, which stops at the first URI that is equal or
cannot be parsed (`MinIsLeast`, `VerdictIsRegistered`).

**AccessToken.** A jti is stored in one row, after it was drawn for it
(`StoredOnce`, `FreshWhenWritten`), so that a revocation ends it for good; a
revocation that is confirmed, or about to be, has an entry that lasts as long as
the token (`EntriesLast`), and an introspection that knew of it judges a token that
some client was given (`RequestsKnow`). Only committed revocations make entries.

**Mail and SecurityEvents.** What both rest on is proved once, about the steps of
`BullQueue` (`Moved`): a job has had at most one effect for the run before it
stalled and one for the run it is in (`QueueKept`, the invariant `QueueInv`), and
therefore each of these steps is one of `JobQueue` or changes nothing that it
promises (`MovesArePromised`). Each pipeline then shows that all its steps are such
(`MailMoves`, `EventMoves`), and adds its own: a mail is in the queue exactly when
its add was accepted (`HandedOver`), its effect shows what its producer handed over
(`Sent`), an add nobody awaits is lost only with the process (`Unawaited`); an event
has its stages in order, the first being that its act has committed (`Stages`), and
the recorder works on a job of the queue (`QueueFits`).

**Deployment.** That a migration never meets a schema it was not generated against
needs to know which schemas there are. `Catalogue` lists them: the tables as each
migration leaves them, and for each number of executed migrations the schemas that
any history of runs and reverts can have led to, which is one for every level but 11
and 12 (section 5). `Catalogued` says that the schema is one of those of its level.

* A statement has a lemma for each form the migrations use (`AddsColumn`,
  `DropsUnique`, `Requires`, `Renames`, ...): when the catalogue allows it, and what it
  makes of the table (`Does`). A migration has one for its `up` and one for its `down`,
  from each schema it may start from (`JtiRuns`, `SessionTableRevertsKeyed`, ...): each
  statement in turn is allowed where it is met, and the last leads to a schema of the
  catalogue (`Leads`). `KnownUp` and `KnownDown` collect them.
* A transaction is a sequence of statements, and a run a sequence of migrations, each
  of unknown outcome. The recursive functions `Execute` and `ExecutePending` are
  unrolled into the sequence of their intermediate results (`ExecuteSteps`,
  `PendingSteps`). The prover has no induction over an operator; `SetInduction` and
  `RangeInduction` take a set in its place and follow from the well-foundedness of the
  naturals. By them a transaction ends with rows that refused a statement, or with a
  schema of the level it aimed at (`LeadsEnds`, `RunArrives`, `RevertArrives`).
* `LatestFitsEntities` is then a comparison of six tables with six entities
  (`UsersFit`, ..., `EventsFit`).
* `TokenRowsComplete` says that a run stops where it would carry a token without a
  jti, a family or an expiry over the migrations that require them. A failure stays
  one to the end of the transaction (`FailedStays`), and a required column that a
  used table lacks is such a failure (`RowsStop`). The table lacks it because the
  migrations that add it do so without looking, or, in migration 7, which looks first
  (`hasColumn`), because the catalogue has no jti below level 7 (`SixthHasNoJti`).

`Catalogued` was checked with TLC on the instance of `deployment` before it was proved.

Only model-checked. Liveness under fairness is out of the prover's reach: `Serves`,
`EveryRequestEnds`, `PunishedIsRecorded`, and the half of `ImplementsJobQueue` that
says an accepted job is settled. `Whole` is a statement about the wiring, one finite
object without parameters, which TLC computes: its run is the whole statement.

## 5. Where code and documents disagree

Two runs end in a counterexample:

* `reuse_report`: the error of a reuse says "token has already been used", but a
  refresh that fails between the mark and the rotation makes the next, honest
  refresh with the same token a reuse, and costs the user the family.
* `direct_login_cap`: a direct login counts all sessions against the cap and looks
  for a victim among those without a consent only; there may be none, and the
  login fails.

Smaller disagreements, seen while modelling and visible in the modules:

* a reset code is read first and deleted last, where `README.md:146` says `getdel`;
  two requests can use it (`AnsweredCodeGone` is what holds);
* `README.md:128` has the activation check the type of the JWT; it does not
  (`AddressProved` is why no address goes unproved all the same);
* the PKCE method is named `sha256` in the code and `S256` in `README.md:37`;
* `migrationsRun: true` (`src/module/app.module.ts:33`) runs nothing, since that
  data source is given no migrations: only the operator's command changes the schema,
  and a process serves over any of them;
* `README.md:182` and `:183` let both kinds of token be revoked and introspected; the
  revocation finds refresh tokens only, the introspection verifies access tokens only;
* `SERVICE_UNBLOCK_ACCOUNT_URL` is in the template but not among the validated
  settings: without it the process passes validation, ends while the container is
  built, and does so at every restart. `NODE_ENV` is read in the same way
  (`src/email/infrastructure/module/email.module.ts:77`), but the image sets it (`Dockerfile:20`).

Worth knowing, from the models:

* The session cap may be exceeded, by less than the number of logins in progress
  (`SessionBound`); a client may have several consents, no more than requests in
  progress (`ConsentBound`).
* A rotation leaves the older access tokens of its session valid until they expire;
  a family deletion or an eviction adds nothing to the blocklist, and the token of an
  evicted session cannot be revoked. The tokens of a direct login are not found by
  the refresh and the revocation of `oauth`.
* A blocklist entry lives 900 s: `RevokedInactive` needs `AccessLife` to be no longer.
* Both logins look the account up by `findByEmail`, which throws for one that is
  missing or already blocked: no security event is raised for those.
* A job has one attempt. A failed INSERT loses the security event, a failed delivery
  the mail; a job that stalled once may insert a second row or send a second mail.
* A client whose registration was not answered has a secret nobody knows, and keeps
  its name and its list of URIs. `isActive` of a client is never read.
* The revert of migration 13 does not restore what level 12 was: `sessions.consent_id`
  is left NOT NULL, `token_family_id` a uuid, and `token.token_family_id` with a unique
  key, which survives the revert of migration 12 as well. Level 12 has three possible
  schemas and level 11 two; migration 13, which looks before it drops or adds, starts
  from all of them, and from there on every level has one.
* A registered URI that cannot be parsed makes every authorization for a URI behind
  it in the list an internal error. A blank scope is one scope, the empty one, so the
  check that scopes are given never fails; a client without scopes may ask for any.

## 6. Not modelled, and the plan

Left out for good: the HTTP layer (routing, DTO validation, rate limits, error
rendering), logging and health: stateless, or kept by the framework. The mail
templates count as one fact each: which field they show.

Left out of modelled parts: two users whose six-digit codes collide; scopes in
`AuthorizationCode` and in tokens; methods that have no caller (`EmailQueue.remove`,
`findAll` and `remove` of the security events, two deletions of sessions). A
process that already serves does not notice that the schema is changed under it:
`Deployment` lets rows be written at the schema of the release only. That PostgreSQL
refuses to drop a column which a foreign key of another table references is left
out of `Legal`: no migration tries it.

Some hazards of the code have no property, and their notes in `PROJECT.json` say why:
among them that a reuse report fails once no session of its family is left,
that two logins may pick the same victim, and that a process dies between deleting
a session and writing the blocklist, or between generating a client's secret and
answering with it. The models have these steps; what there is to say of them is that
the outcome is a poor one, not that it is excluded.

Next, in this order:

1. Scopes: what a refresh signs when a user has two consents for a client.
2. A blocked account whose unblock code has run out, beside the login that no longer
   finds it; two users who draw the same code.
