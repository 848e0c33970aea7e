------------------------------- MODULE Wiring -------------------------------
(***************************************************************************)
(* The modules of the service as the container of Nest sees them.  A       *)
(* provider is built from the instances that are injected for a list of    *)
(* tokens; its factory declares the types of the parameters they become.   *)
(* The compiler checks the factory, and nothing checks the list against    *)
(* it: a token in the wrong place gives an object of another type, and a   *)
(* token that no module in sight provides ends the process.                *)
(*                                                                         *)
(* A class that is a token is its own type, and the interface it           *)
(* implements is the same type.  Tokens of Nest's own modules (TypeORM,    *)
(* BullMQ, the emitter, JWT, terminus) are external.                       *)
(***************************************************************************)
EXTENDS Naturals, Sequences, Functions, TLC

Provide(type, takes, inject) == [type |-> type, takes |-> takes, inject |-> inject]
Plain(type)         == Provide(type, <<>>, <<>>)
Wrap(type, from)    == Provide(type, <<from>>, <<from>>)  \* an adapter around one class
Takes(takes, inject) == Provide("class", takes, inject)   \* provided under its own name
Class(takes)        == Takes(takes, takes)                \* and injected by type

\* Use cases, services and controllers: the type is the token.
Typed(provides) ==
    [t \in DOMAIN provides |-> IF provides[t].type = "class" THEN [provides[t] EXCEPT !.type = t]
                               ELSE provides[t]]

-----------------------------------------------------------------------------
(* auth *)

AuthAdapters ==
       "AppConfigEnvService" :> Wrap("AppConfigEnvService", "ConfigService")
    @@ "RedisService" :> Wrap("RedisService", "AppConfigEnvService")
    @@ "USER_VALIDATE_CREDENTIALS_SERVICE_PORT" :> Plain("UserValidateCredentialsServicePort")
    @@ "CONFIG_SERVICE_PORT" :> Wrap("ConfigServicePort", "AppConfigEnvService")
    @@ "TOKEN_SERVICE_PORT" :> Wrap("TokenServicePort", "TokenService")
    @@ "USER_REPOSITORY_PORT" :> Wrap("UserRepositoryPort", "UserRepository")
    @@ "EMAIL_SERVICE_PORT" :> Wrap("EmailServicePort", "EmailQueue")
    @@ "REDIS_SERVICE_PORT" :> Wrap("RedisServicePort", "RedisService")
    @@ "GENERATE_OTP_SERVICE_PORT" :> Plain("GenerateOtpServicePort")
    @@ "SECURITY_EVENT_PORT" :> Wrap("SecurityEventPort", "EventEmitter2")
    @@ "TEMP_PASSWORD_SERVICE_PORT" :> Plain("TempPasswordServicePort")

\* mutant: two ports change places, and the code still compiles
NewPasswordSwapped == <<"USER_REPOSITORY_PORT", "REDIS_SERVICE_PORT",
    "USER_VALIDATE_CREDENTIALS_SERVICE_PORT">>
NewPasswordInject  == <<"REDIS_SERVICE_PORT", "USER_REPOSITORY_PORT",
    "USER_VALIDATE_CREDENTIALS_SERVICE_PORT">>

AuthUseCases ==
       "LoginUseCase" :> Takes(
         <<"UserRepositoryPort", "UserValidateCredentialsServicePort", "TokenServicePort",
           "ConfigServicePort", "SecurityEventPort", "RedisServicePort", "EmailServicePort",
           "GenerateOtpServicePort">>,
         <<"USER_REPOSITORY_PORT", "USER_VALIDATE_CREDENTIALS_SERVICE_PORT", "TOKEN_SERVICE_PORT",
           "CONFIG_SERVICE_PORT", "SECURITY_EVENT_PORT", "REDIS_SERVICE_PORT", "EMAIL_SERVICE_PORT",
           "GENERATE_OTP_SERVICE_PORT">>)
    @@ "ActiveAccountUseCase" :> Takes(
         <<"TokenServicePort", "UserRepositoryPort">>,
         <<"TOKEN_SERVICE_PORT", "USER_REPOSITORY_PORT">>)
    @@ "ResetPasswordUseCase" :> Takes(
         <<"UserRepositoryPort", "EmailServicePort", "RedisServicePort", "GenerateOtpServicePort">>,
         <<"USER_REPOSITORY_PORT", "EMAIL_SERVICE_PORT", "REDIS_SERVICE_PORT",
           "GENERATE_OTP_SERVICE_PORT">>)
    @@ "NewPasswordUseCase" :> Takes(
         <<"RedisServicePort", "UserRepositoryPort", "UserValidateCredentialsServicePort">>,
         NewPasswordInject)
    @@ "SendNewTokenToEmailActiveUseCase" :> Takes(
         <<"TokenServicePort", "UserRepositoryPort", "EmailServicePort">>,
         <<"TOKEN_SERVICE_PORT", "USER_REPOSITORY_PORT", "EMAIL_SERVICE_PORT">>)
    @@ "UnblockAccountUseCase" :> Takes(
         <<"RedisServicePort", "UserRepositoryPort", "EmailServicePort", "TempPasswordServicePort">>,
         <<"REDIS_SERVICE_PORT", "USER_REPOSITORY_PORT", "EMAIL_SERVICE_PORT",
           "TEMP_PASSWORD_SERVICE_PORT">>)

AuthController == "AuthController" :> Class(
    <<"LoginUseCase", "ActiveAccountUseCase", "ResetPasswordUseCase", "NewPasswordUseCase",
      "SendNewTokenToEmailActiveUseCase", "UnblockAccountUseCase">>)

-----------------------------------------------------------------------------
(* oauth *)

OauthAdapters ==
       "AppConfigEnvService" :> Wrap("AppConfigEnvService", "ConfigService")
    @@ "RedisService" :> Wrap("RedisService", "AppConfigEnvService")
    @@ "CLIENT_SERVICE_PORT" :> Wrap("ClientServicePort", "ClientRepository")
    @@ "USER_CLIENT_CONSENT_SERVICE_PORT" :> Wrap("ConsentServicePort", "ConsentService")
    @@ "TOKEN_SERVICE_PORT" :> Wrap("TokenServicePort", "TokenService")
    @@ "REDIS_SERVICE_PORT" :> Wrap("RedisServicePort", "RedisService")
    @@ "HASHED_CLIENT_SECRET_SERVICE_PORT" :> Plain("HashedClientSecretServicePort")
    @@ "USER_SERVICE_PORT" :> Wrap("UserServicePort", "UserRepository")
    @@ "CONFIG_SERVICE_PORT" :> Wrap("ConfigServicePort", "AppConfigEnvService")
    @@ "GENERATE_ID_SERVICE_PORT" :> Plain("GenerateIdServicePort")
    @@ "SECURITY_EVENT_PORT" :> Wrap("SecurityEventPort", "EventEmitter2")
    @@ "EMAIL_SERVICE_PORT" :> Wrap("EmailServicePort", "EmailQueue")
    @@ "GENERATE_OTP_SERVICE_PORT" :> Plain("GenerateOtpServicePort")

OauthUseCases ==
       "AuthorizeUseCase" :> Takes(
         <<"ClientServicePort", "GenerateIdServicePort", "RedisServicePort", "ConfigServicePort">>,
         <<"CLIENT_SERVICE_PORT", "GENERATE_ID_SERVICE_PORT", "REDIS_SERVICE_PORT",
           "CONFIG_SERVICE_PORT">>)
    @@ "ExchangeOauthCodeUseCase" :> Takes(
         <<"ClientServicePort", "TokenServicePort", "RedisServicePort",
           "HashedClientSecretServicePort", "UserServicePort", "ConsentServicePort",
           "ConfigServicePort">>,
         <<"CLIENT_SERVICE_PORT", "TOKEN_SERVICE_PORT", "REDIS_SERVICE_PORT",
           "HASHED_CLIENT_SECRET_SERVICE_PORT", "USER_SERVICE_PORT",
           "USER_CLIENT_CONSENT_SERVICE_PORT", "CONFIG_SERVICE_PORT">>)
    @@ "LoginUseCase" :> Takes(
         <<"RedisServicePort", "UserServicePort", "ConsentServicePort", "GenerateIdServicePort",
           "SecurityEventPort", "GenerateOtpServicePort", "EmailServicePort">>,
         <<"REDIS_SERVICE_PORT", "USER_SERVICE_PORT", "USER_CLIENT_CONSENT_SERVICE_PORT",
           "GENERATE_ID_SERVICE_PORT", "SECURITY_EVENT_PORT", "GENERATE_OTP_SERVICE_PORT",
           "EMAIL_SERVICE_PORT">>)
    @@ "RefreshTokenUseCase" :> Takes(
         <<"TokenServicePort", "UserServicePort", "ConsentServicePort", "ConfigServicePort",
           "RedisServicePort", "SecurityEventPort">>,
         <<"TOKEN_SERVICE_PORT", "USER_SERVICE_PORT", "USER_CLIENT_CONSENT_SERVICE_PORT",
           "CONFIG_SERVICE_PORT", "REDIS_SERVICE_PORT", "SECURITY_EVENT_PORT">>)
    @@ "RevokeTokenUseCase" :> Takes(
         <<"TokenServicePort", "RedisServicePort">>,
         <<"TOKEN_SERVICE_PORT", "REDIS_SERVICE_PORT">>)
    @@ "TokenIntrospectUseCase" :> Takes(
         <<"TokenServicePort", "RedisServicePort">>,
         <<"TOKEN_SERVICE_PORT", "REDIS_SERVICE_PORT">>)

OauthController == "OauthController" :> Class(
    <<"AuthorizeUseCase", "LoginUseCase", "RefreshTokenUseCase", "RevokeTokenUseCase",
      "TokenIntrospectUseCase", "ExchangeOauthCodeUseCase">>)

-----------------------------------------------------------------------------
(* token, session *)

TokenAdapters ==
       "CONFIG_SERVICE_PORT" :> Wrap("ConfigServicePort", "AppConfigEnvService")
    @@ "TRANSACTION_PORT" :> Wrap("TransactionPort", "DataSource")
    @@ "GENERATE_JTI_PORT" :> Plain("GenerateUUIDPort")
    @@ "REFRESH_TOKEN_SERVICE_PORT" :> Plain("RefreshTokenServicePort")
    @@ "TOKEN_REPOSITORY_PORT" :> Wrap("TokenRepositoryPort", "TokenRepository")
    @@ "JWT_SERVICE_PORT" :> Provide("JwtServicePort",
         <<"JwtService", "AppConfigEnvService">>,
         <<"JwtService", "AppConfigEnvService">>)
    @@ "TokenRepository" :> Class(<<"Repository<TokenEntity>">>)

TokenUseCases ==
       "FindByRefreshTokenUseCase" :> Takes(<<"TokenRepositoryPort">>, <<"TOKEN_REPOSITORY_PORT">>)
    @@ "GenerateEmailVerificationTokenUseCase" :> Takes(
         <<"JwtServicePort", "ConfigServicePort">>,
         <<"JWT_SERVICE_PORT", "CONFIG_SERVICE_PORT">>)
    @@ "RevokeTokenUseCase" :> Takes(<<"TransactionPort">>, <<"TRANSACTION_PORT">>)
    @@ "TokenIntrospectUseCase" :> Class(<<"VerifyTokenUseCase">>)
    @@ "VerifyTokenUseCase" :> Takes(<<"JwtServicePort">>, <<"JWT_SERVICE_PORT">>)
    @@ "GenerateTokenUseCase" :> Takes(
         <<"TokenRepositoryPort", "ConfigServicePort", "JwtServicePort", "RefreshTokenServicePort",
           "GenerateUUIDPort", "TransactionPort">>,
         <<"TOKEN_REPOSITORY_PORT", "CONFIG_SERVICE_PORT", "JWT_SERVICE_PORT",
           "REFRESH_TOKEN_SERVICE_PORT", "GENERATE_JTI_PORT", "TRANSACTION_PORT">>)
    @@ "RefreshTokenUseCase" :> Takes(
         <<"TokenRepositoryPort", "ConfigServicePort", "JwtServicePort", "RefreshTokenServicePort",
           "GenerateUUIDPort", "TransactionPort">>,
         <<"TOKEN_REPOSITORY_PORT", "CONFIG_SERVICE_PORT", "JWT_SERVICE_PORT",
           "REFRESH_TOKEN_SERVICE_PORT", "GENERATE_JTI_PORT", "TRANSACTION_PORT">>)
    @@ "FindByTokenFamilyIdUseCase" :> Takes(<<"TokenRepositoryPort">>, <<"TOKEN_REPOSITORY_PORT">>)
    @@ "DeleteByTokenFamilyIdUseCase" :> Takes(<<"TransactionPort">>, <<"TRANSACTION_PORT">>)
    @@ "TokenService" :> Class(
         <<"GenerateTokenUseCase", "RefreshTokenUseCase", "RevokeTokenUseCase",
           "TokenIntrospectUseCase", "VerifyTokenUseCase", "FindByRefreshTokenUseCase",
           "GenerateEmailVerificationTokenUseCase", "FindByTokenFamilyIdUseCase",
           "DeleteByTokenFamilyIdUseCase">>)

SessionAdapters ==
       "SESSION_REPOSITORY" :> Wrap("SessionRepository", "Repository<SessionEntity>")

-----------------------------------------------------------------------------
(* email *)

EmailAdapters ==
       "EMAIL_PROVIDE" :> Wrap("EmailProvide", "AppConfigEnvService")
    @@ "HANDLEBARS_RENDER" :> Wrap("HandlebarsRender", "ConfigService")
    @@ "MAILER_SERVICE_PORT" :> Provide("MailerServicePort",
         <<"EmailProvide", "HandlebarsRender">>,
         <<"EMAIL_PROVIDE", "HANDLEBARS_RENDER">>)
    @@ "CONFIG_SERVICE_PORT" :> Wrap("ConfigServicePort", "AppConfigEnvService")
    @@ "EMAIL_LOGGER_PORT" :> Wrap("EmailLoggerPort", "AuthenticatorLogger")

EmailUseCases ==
       "SendActivationAccountEmailUseCase" :> Takes(
         <<"MailerServicePort", "ConfigServicePort", "EmailLoggerPort">>,
         <<"MAILER_SERVICE_PORT", "CONFIG_SERVICE_PORT", "EMAIL_LOGGER_PORT">>)
    @@ "SendResetPasswordEmailUseCase" :> Takes(
         <<"MailerServicePort", "ConfigServicePort", "EmailLoggerPort">>,
         <<"MAILER_SERVICE_PORT", "CONFIG_SERVICE_PORT", "EMAIL_LOGGER_PORT">>)
    @@ "SendBlockAccountEmailUseCase" :> Takes(
         <<"MailerServicePort", "ConfigServicePort", "EmailLoggerPort">>,
         <<"MAILER_SERVICE_PORT", "CONFIG_SERVICE_PORT", "EMAIL_LOGGER_PORT">>)
    @@ "SendUnblockAccountEmailUseCase" :> Takes(
         <<"MailerServicePort", "EmailLoggerPort">>,
         <<"MAILER_SERVICE_PORT", "EMAIL_LOGGER_PORT">>)
    @@ "EmailService" :> Class(
         <<"SendActivationAccountEmailUseCase", "SendResetPasswordEmailUseCase",
           "SendBlockAccountEmailUseCase", "SendUnblockAccountEmailUseCase">>)
    @@ "EmailWorker" :> Takes(<<"EmailService", "EmailLoggerPort">>,
         <<"EmailService", "EMAIL_LOGGER_PORT">>)
    @@ "EmailQueue" :> Class(<<"Queue send-email">>)

-----------------------------------------------------------------------------
(* security-event *)

SecurityEventAdapters ==
       "SecurityEventRepository" :> Class(<<"Repository<SecurityEventEntity>">>)
    @@ "SECURITY_EVENT_LOGGER_PORT" :> Wrap("SecurityEventLoggerPort", "AuthenticatorLogger")
    @@ "SECURITY_EVENT_REPOSITORY_PORT" :> Wrap("SecurityEventRepositoryPort", "SecurityEventRepository")

SecurityEventUseCases ==
       "CreateSecurityEventUseCase" :> Takes(
         <<"SecurityEventRepositoryPort", "SecurityEventLoggerPort">>,
         <<"SECURITY_EVENT_REPOSITORY_PORT", "SECURITY_EVENT_LOGGER_PORT">>)
    @@ "SecurityEventService" :> Class(<<"CreateSecurityEventUseCase">>)
    @@ "SecurityEventWorker" :> Takes(<<"SecurityEventService", "SecurityEventLoggerPort">>,
         <<"SecurityEventService", "SECURITY_EVENT_LOGGER_PORT">>)
    @@ "SecurityEventQueue" :> Takes(<<"Queue security-event", "SecurityEventLoggerPort">>,
         <<"Queue security-event", "SECURITY_EVENT_LOGGER_PORT">>)
    @@ "SecurityEventListener" :> Takes(<<"SecurityEventQueue", "SecurityEventLoggerPort">>,
         <<"SecurityEventQueue", "SECURITY_EVENT_LOGGER_PORT">>)

-----------------------------------------------------------------------------
(* user *)

UserAdapters ==
       "EMAIL_SERVICE_PORT" :> Wrap("EmailServicePort", "EmailQueue")
    @@ "ENCRYPT_SERVICE_PORT" :> Plain("EncryptServicePort")
    @@ "TOKEN_SERVICE_PORT" :> Wrap("TokenServicePort", "TokenService")
    @@ "USER_REPOSITORY_PORT" :> Wrap("UserRepositoryPort", "UserRepository")
    @@ "UserRepository" :> Class(<<"Repository<UserEntity>">>)

UserUseCases ==
       "RegisterUserUseCase" :> Takes(
         <<"UserRepositoryPort", "EncryptServicePort", "EmailServicePort", "TokenServicePort">>,
         <<"USER_REPOSITORY_PORT", "ENCRYPT_SERVICE_PORT", "EMAIL_SERVICE_PORT",
           "TOKEN_SERVICE_PORT">>)
    @@ "FindUserByEmailUseCase" :> Takes(<<"UserRepositoryPort">>, <<"USER_REPOSITORY_PORT">>)
    @@ "UserController" :> Class(<<"RegisterUserUseCase">>)

-----------------------------------------------------------------------------
(* client *)

ClientAdapters ==
       "AppConfigEnvService" :> Wrap("AppConfigEnvService", "ConfigService")
    @@ "CLIENT_REPOSITORY_PORT" :> Wrap("ClientRepositoryPort", "ClientRepository")
    @@ "CONFIG_SERVICE_PORT" :> Wrap("ConfigServicePort", "AppConfigEnvService")
    @@ "GENERATE_CLIENTS_SERVICE_PORT" :> Plain("GenerateClientsServicePort")
    @@ "ClientRepository" :> Class(<<"Repository<ClientEntity>">>)

ClientUseCases ==
       "CreateClientUseCase" :> Takes(
         <<"ClientRepositoryPort", "GenerateClientsServicePort", "ConfigServicePort">>,
         <<"CLIENT_REPOSITORY_PORT", "GENERATE_CLIENTS_SERVICE_PORT", "CONFIG_SERVICE_PORT">>)
    @@ "FindByClientIdUseCase" :> Takes(<<"ClientRepositoryPort">>, <<"CLIENT_REPOSITORY_PORT">>)
    @@ "ClientController" :> Class(<<"CreateClientUseCase", "FindByClientIdUseCase">>)

-----------------------------------------------------------------------------
(* consent *)

ConsentAdapters ==
       "CONSENT_REPOSITORY_PORT" :> Wrap("ConsentRepositoryPort", "ConsentRepository")
    @@ "ConsentRepository" :> Class(<<"Repository<ConsentEntity>">>)

ConsentUseCases ==
       "CreateConsentUseCase" :> Takes(<<"ConsentRepositoryPort">>, <<"CONSENT_REPOSITORY_PORT">>)
    @@ "FindByConsentIdUseCase" :> Takes(<<"ConsentRepositoryPort">>, <<"CONSENT_REPOSITORY_PORT">>)
    @@ "FindByUserIdAndClientIdUseCase" :> Takes(
         <<"ConsentRepositoryPort">>,
         <<"CONSENT_REPOSITORY_PORT">>)
    @@ "FindByUserIdUseCase" :> Takes(<<"ConsentRepositoryPort">>, <<"CONSENT_REPOSITORY_PORT">>)
    @@ "ConsentService" :> Class(
         <<"CreateConsentUseCase", "FindByConsentIdUseCase", "FindByUserIdUseCase",
           "FindByUserIdAndClientIdUseCase">>)

-----------------------------------------------------------------------------
(* The modules *)

\* What a module imports of the service, what the modules of Nest that it
\* imports export to it, its providers and controllers, and its exports.
Module(imports, library, provides, exports) ==
    [imports |-> imports, library |-> library, provides |-> Typed(provides), exports |-> exports]

NoRepository == {"FindUserByEmailUseCase"}                \* mutant: an export is forgotten
UserExports  == {"FindUserByEmailUseCase", "UserRepository"}

AppModule == Module({"AppConfig", "Auth", "User", "Token", "Client", "Oauth", "Health", "Logger",
    "SecurityEvent"}, {}, <<>>, {})
AppConfigModule == Module({}, {}, "AppConfigEnvService" :> Class(<<"ConfigService">>),
    {"AppConfigEnvService"})
LoggerModule == Module({}, {}, "AuthenticatorLogger" :> Class(<<"BaseLogger">>)
    @@ "BaseLogger" :> Class(<<>>), {"AuthenticatorLogger", "BaseLogger"})
HealthModule == Module({},
    {"HealthCheckService", "TypeOrmHealthIndicator", "MicroserviceHealthIndicator"},
    "HealthController" :> Class(<<"HealthCheckService", "TypeOrmHealthIndicator",
        "MicroserviceHealthIndicator", "AppConfigEnvService">>), {})
AuthModule == Module({"Token", "User", "Email"}, {},
    AuthAdapters @@ AuthUseCases @@ AuthController, {})
OauthModule == Module({"Client", "User", "Token", "Consent", "AppConfig", "Email"}, {},
    OauthAdapters @@ OauthUseCases @@ OauthController, {})
TokenModule == Module({"Session"}, {"Repository<TokenEntity>"},
    TokenAdapters @@ TokenUseCases, {"TokenService", "TokenRepository"})
SessionModule == Module({}, {"Repository<SessionEntity>"}, SessionAdapters, {})
EmailModule == Module({"Logger"}, {"Queue send-email"},
    EmailAdapters @@ EmailUseCases, {"EmailQueue"})
SecurityEventModule == Module({}, {"Repository<SecurityEventEntity>", "Queue security-event"},
    SecurityEventAdapters @@ SecurityEventUseCases, {})
UserModule == Module({"Token", "Email"}, {"Repository<UserEntity>"},
    UserAdapters @@ UserUseCases, UserExports)
ClientModule == Module({}, {"Repository<ClientEntity>"},
    ClientAdapters @@ ClientUseCases, {"ClientRepository"})
ConsentModule == Module({}, {"Repository<ConsentEntity>"},
    ConsentAdapters @@ ConsentUseCases, {"ConsentService", "ConsentRepository"})

Modules == [App |-> AppModule, AppConfig |-> AppConfigModule, Logger |-> LoggerModule,
    Health |-> HealthModule, Auth |-> AuthModule, Oauth |-> OauthModule, Token |-> TokenModule,
    Session |-> SessionModule, Email |-> EmailModule, SecurityEvent |-> SecurityEventModule,
    User |-> UserModule, Client |-> ClientModule, Consent |-> ConsentModule]

GlobalModules == {"AppConfig", "Logger"}
\* ConfigModule, TypeOrmModule, JwtModule and EventEmitterModule are global too.
GlobalLibrary == {"ConfigService", "DataSource", "JwtService", "EventEmitter2"}

-----------------------------------------------------------------------------
(* The container. *)

\* The modules that are imported, at any distance, by the one that is created.
Loaded ==
    LET near[n \in 0..4] ==
            IF n = 0 THEN {"App"}
            ELSE LET nearer == near[n - 1] IN nearer \union UNION {Modules[m].imports : m \in nearer}
    IN  near[4]

\* Where a token of module m is looked for: its own providers, then the exports
\* of what it imports, then those of the global modules.
Suppliers(m, t) ==
    LET near == {n \in Modules[m].imports : t \in Modules[n].exports}
    IN  IF t \in DOMAIN Modules[m].provides THEN {m}
        ELSE IF near # {} THEN near
        ELSE {g \in GlobalModules \intersect Loaded : t \in Modules[g].exports}

InLibrary(m, t) == t \in Modules[m].library \union GlobalLibrary

Slots == UNION {{<<m, t>> : t \in DOMAIN Modules[m].provides} : m \in Loaded}
ProviderOf(s) == Modules[s[1]].provides[s[2]]

\* The types an injected token may come with.
TypesOf(m, t) ==
    {Modules[n].provides[t].type : n \in Suppliers(m, t)}
    \union (IF Suppliers(m, t) = {} /\ InLibrary(m, t) THEN {t} ELSE {})

Ready(s, done) ==
    \A t \in Range(ProviderOf(s).inject) :
        \/ \E n \in Suppliers(s[1], t) : <<n, t>> \in done
        \/ Suppliers(s[1], t) = {} /\ InLibrary(s[1], t)

\* Instances are made from instances, until no other can be.
Instances ==
    LET made[n \in 0..10] ==
            IF n = 0 THEN {} ELSE LET before == made[n - 1] IN {s \in Slots : Ready(s, before)}
    IN  made[10]

Complete == Instances = Slots

\* Every parameter of every factory and constructor is given its type.
WellTyped ==
    \A s \in Slots : LET p == ProviderOf(s) IN
        /\ Len(p.takes) = Len(p.inject)
        /\ \A i \in DOMAIN p.inject : TypesOf(s[1], p.inject[i]) = {p.takes[i]}

\* Every queue that is registered has one worker, and the events one listener.
Consumers(c) == {s \in Slots : s[2] = c}
Consumed ==
    \A c \in {"EmailWorker", "SecurityEventWorker", "SecurityEventListener"} :
        \E s \in Slots : Consumers(c) = {s}
=============================================================================
