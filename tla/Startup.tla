------------------------------ MODULE Startup ------------------------------
(***************************************************************************)
(* The start of the system: the resources the AppHost declares for an      *)
(* environment, what each of them waits for and the settings it is given,  *)
(* and the database migrator with its attempts, its faults and, as a job   *)
(* in the cloud, its restarts. A developer runs the AppHost several times  *)
(* over containers and secrets that outlive a run.                         *)
(*                                                                         *)
(* As in BookApi, Y_X is Y with a mistake in it.                           *)
(***************************************************************************)
EXTENDS Naturals, Sequences

CONSTANTS
  maxAttempts,        \* attempts of one run of the migrator
  ReplicaRetryLimit,  \* restarts of a failed job
  MaxOutages,         \* bound: how often a health check turns bad
  MaxRuns             \* bound: how often a developer starts the AppHost

ASSUME StartupAssumption ==
  /\ {maxAttempts, MaxRuns} \subseteq Nat \ {0}
  /\ {ReplicaRetryLimit, MaxOutages} \subseteq Nat

VARIABLES
  environment,  \* "Development" or "Production"
  useKeycloak,  \* the setting that decides which provider production wires
  useBrevo,     \* whether a key of the e-mail provider is configured
  state,        \* each resource: waiting, running or, for the migrator, finished
  waiting,      \* each resource: the ones it still waits for
  runs,         \* how often the AppHost has been started
  stored,       \* the client secret among the AppHost's user secrets, or 0
  secret,       \* the client secret of this run
  imported,     \* the one in the realm Keycloak has imported, or 0
  healthy,      \* the resources whose health check answers
  outages,      \* how often one has ceased to
  sound,        \* the data and the rights admit the migrations
  schema,       \* how many migrations are in the history table
  pc,           \* where the migrator is
  attempt,      \* its attempt
  fault,        \* history: the last exception of this run
  code,         \* its exit code, or None
  restarts      \* how often the job has been restarted

settings == <<environment, useKeycloak, useBrevo>>
realm    == <<runs, stored, secret, imported>>
database == <<healthy, outages, sound, schema>>
migrator == <<pc, attempt, fault, code, restarts>>
vars     == <<settings, state, waiting, realm, database, migrator>>

\* The migrations, oldest first.
Migrations == <<"InitialCreate", "ConstrainGenreCode", "AddUpdatedByToAuditableEntities">>

Fault == {"connection", "sql", "other"}
None  == "none"

Resource == {"postgres", "keycloak", "migrator", "api", "admin"}

\* Those the hosting packages register a health check for.
Checked == {"postgres", "keycloak"}

dbUp == "postgres" \in healthy

----------------------------------------------------------------------------
(* What waits for what.                                                    *)

Development == [postgres |-> {}, keycloak |-> {}, migrator |-> {"postgres"},
                api |-> {"postgres", "migrator", "keycloak"}, admin |-> {"api"}]

\* Mistake: the API refers to the admin and waits for it as well.
Production_Circular == [postgres |-> {}, keycloak |-> {"postgres"}, migrator |-> {"postgres"},
                        api |-> {"postgres", "admin"}, admin |-> {"api"}]

\* The migrator is a job of its own here: nothing waits for it.
Production == [postgres |-> {}, keycloak |-> {"postgres"}, migrator |-> {"postgres"},
               api |-> {"postgres"} \cup (IF useKeycloak THEN {"keycloak"} ELSE {}),
               admin |-> {"api"}]

WaitsFor == IF environment = "Development" THEN Development ELSE Production

Declared == Resource \ IF environment = "Production" /\ ~useKeycloak THEN {"keycloak"} ELSE {}

\* A wait is over once the other has run and, if it has a health check, has been seen
\* healthy. It asks for no exit code, and an outage later on does not bring it back.
WaitEnds(r, d) ==
  /\ d \in waiting[r]
  /\ state[d] # "waiting"
  /\ d \in Checked => d \in healthy
  /\ waiting' = [waiting EXCEPT ![r] = @ \ {d}]
  /\ UNCHANGED <<settings, state, realm, database, migrator>>

\* WaitFor: a resource starts when all its waits are over.
Ready(r) == waiting[r] = {}

----------------------------------------------------------------------------
(* The settings each side gets, its provider and those that are not empty. *)
(* A value is named for the parameter of the AppHost or the part of the    *)
(* realm it is made of, so equal values are those that always agree.       *)

\* The settings files and, for the admin, the .env.local the README asks for.
DevelopmentSettings ==
  [api   |-> [provider |-> "keycloak", issuer |-> "clean-api", realm |-> "clean-api",
              audience |-> {"scalar", "mrpanel"}],
   admin |-> [provider |-> "keycloak", issuer |-> "clean-api", clientId |-> "mrpanel",
              clientSecret |-> "keycloakClientSecret", apiUrl |-> "localhost", url |-> "localhost",
              secret |-> "nextAuthSecret"]]

ConfigureKeycloak ==
  [api   |-> [provider |-> "keycloak", issuer |-> "keycloakRealm", realm |-> "keycloakRealm",
              audience |-> {"keycloakClientId"}],
   admin |-> [provider |-> "keycloak", issuer |-> "keycloakRealm", clientId |-> "keycloakClientId",
              clientSecret |-> "keycloakClientSecret", apiUrl |-> "apiEndpoint", url |-> "adminEndpoint",
              secret |-> "nextAuthSecret"]]

EntraApi ==
  [provider |-> "entra", instance |-> "EntraAPIInstance", tenantId |-> "EntraTenantId",
   clientId |-> "EntraAPIClientId", audience |-> {"EntraAPIAudienceId"}]

EntraAdmin ==
  [provider |-> "entra", tenantId |-> "EntraTenantId", clientId |-> "EntraAdminClientId",
   clientSecret |-> "EntraAdminClientSecret", openIdConnect |-> "EntraAdminOpenIdURL",
   apiUrl |-> "apiEndpoint", url |-> "adminEndpoint", secret |-> "nextAuthSecret"]

\* Mistake: the API is left with the provider that is its default.
ConfigureEntra_DefaultProvider == [api |-> [EntraApi EXCEPT !.provider = "keycloak"], admin |-> EntraAdmin]

ConfigureEntra == [api |-> EntraApi, admin |-> EntraAdmin]

Settings == IF environment = "Development" THEN DevelopmentSettings
            ELSE IF useKeycloak THEN ConfigureKeycloak ELSE ConfigureEntra

\* What the API reads to validate tokens.
ApiDemands(provider) ==
  IF provider = "keycloak" THEN {"issuer", "realm", "audience"}
  ELSE {"instance", "tenantId", "clientId", "audience"}

\* envSchema, discriminated by the provider.
AdminDemands(provider) ==
  {"apiUrl", "url", "secret", "clientId", "clientSecret"}
  \cup IF provider = "keycloak" THEN {"issuer"} ELSE {"tenantId"}

\* The provider the admin registers: where the user signs in, and as which client.
buildProviders(env) ==
  IF env.provider = "entra"
  THEN [id |-> "azure-ad", authority |-> <<env.openIdConnect, env.tenantId>>, client |-> <<env.clientId, env.clientSecret>>]
  ELSE [id |-> "keycloak", authority |-> <<env.issuer>>, client |-> <<env.clientId, env.clientSecret>>]

\* The provider the sign-in page asks for.
getNextAuthProviderId(env) == IF env.provider = "entra" THEN "azure-ad" ELSE "keycloak"

\* The host of an Entra tenant appears in the address of its discovery document only,
\* which the AppHost always supplies.
resolveEntraDomain(env) == env.openIdConnect

\* Where a token is refreshed and a session ended, and as which client.
getOAuthEndpoints(env) ==
  IF env.provider = "entra" THEN <<resolveEntraDomain(env), env.tenantId>> ELSE <<env.issuer>>

getOAuthClientCredentials(env) == <<env.clientId, env.clientSecret>>

\* The API takes tokens of the realm, or of the tenant, the admin signs in to. Whom Entra
\* issues a token for is up to the scopes it is asked for, and is left to the operator.
TakesTokens(api, env) ==
  IF api.provider = "entra" THEN api.tenantId = env.tenantId
  ELSE api.issuer = env.issuer /\ env.clientId \in api.audience

\* What is not empty of the Brevo section: the development settings name a sender and the
\* key is a user secret; in production ConfigureBrevo supplies all three or none.
BrevoSection ==
  IF environment = "Development"
  THEN {"SenderName", "SenderEmail"} \cup (IF useBrevo THEN {"ApiKey"} ELSE {})
  ELSE IF useBrevo THEN {"ApiKey", "SenderName", "SenderEmail"} ELSE {}

\* Without a key the null service is registered; with one, ValidateOnStart ends the host
\* unless the section is complete.
EmailOptionsValid == "ApiKey" \in BrevoSection => {"SenderName", "SenderEmail"} \subseteq BrevoSection

----------------------------------------------------------------------------
(* Resources.                                                              *)

\* The realm import of Keycloak leaves a realm that exists as it is.
ImportRealm(r) ==
  imported' = IF r = "keycloak" /\ environment = "Development" /\ imported = 0
              THEN secret ELSE imported

Start(r) ==
  /\ r \in Declared \ {"migrator"}
  /\ state[r] = "waiting" /\ Ready(r)
  /\ r = "api" => EmailOptionsValid
  /\ state' = [state EXCEPT ![r] = "running"]
  /\ ImportRealm(r)
  /\ UNCHANGED <<settings, waiting, runs, stored, secret, database, migrator>>

\* Mistake: the generated parameter is not persisted.
AdminClientSecret_Fresh == secret' = runs + 1 /\ UNCHANGED stored

\* The generated parameter, which the AppHost keeps among its user secrets.
AdminClientSecret ==
  /\ secret' = IF stored = 0 THEN runs + 1 ELSE stored
  /\ stored' = secret'

\* `aspire run` once more: the projects start anew, the containers are persistent. The
\* developer may have removed Keycloak's volume, to have the realm imported again.
Rerun(removed) ==
  /\ environment = "Development" /\ runs < MaxRuns
  /\ runs' = runs + 1
  /\ AdminClientSecret
  /\ imported' = IF "keycloak" \in removed THEN 0 ELSE imported
  /\ state' = [r \in Resource |->
                 IF r \in {"postgres", "keycloak"} \ removed THEN state[r] ELSE "waiting"]
  /\ waiting' = [r \in Resource |-> WaitsFor[r]]
  /\ healthy' = healthy \ removed
  /\ pc' = "none" /\ attempt' = 1 /\ fault' = None /\ code' = None
  /\ UNCHANGED <<settings, outages, sound, schema, restarts>>

----------------------------------------------------------------------------
(* The migrator.                                                           *)

StartMigrator ==
  /\ state["migrator"] = "waiting" /\ Ready("migrator")
  /\ state' = [state EXCEPT !["migrator"] = "running"]
  /\ pc' = "attempt" /\ attempt' = 1
  /\ UNCHANGED <<settings, waiting, realm, database, fault, code, restarts>>

\* MigrateAsync applies the next pending migration and records it in the history table.
Apply ==
  /\ pc = "attempt" /\ dbUp /\ sound
  /\ schema < Len(Migrations)
  /\ schema' = schema + 1
  /\ UNCHANGED <<settings, state, waiting, realm, healthy, outages, sound, migrator>>

Finish(c) ==
  /\ code' = c
  /\ pc' = "exited"
  /\ state' = [state EXCEPT !["migrator"] = "finished"]

Complete ==
  /\ pc = "attempt" /\ dbUp /\ schema = Len(Migrations)
  /\ Finish("0")
  /\ UNCHANGED <<settings, waiting, realm, database, attempt, fault, restarts>>

\* Every NpgsqlException counts, and so an error in a migration's SQL does too.
IsTransient(f) == f \in {"connection", "sql"}

\* Mistake: a transient failure ends the loop as if there were nothing left to do.
Caught_BreaksLoop(f) ==
  IF IsTransient(f) THEN Finish("0") ELSE Finish("1")

\* Mistake: the filter does not look at the attempt.
Caught_Forever(f) ==
  IF IsTransient(f) THEN pc' = "delay" /\ UNCHANGED <<code, state>> ELSE Finish("1")

\* Mistake: the connection errors are not recognised.
Caught_NoRetry(f) == f \in Fault /\ Finish("1")

\* The two catch clauses.
Caught(f) ==
  IF IsTransient(f) /\ attempt < maxAttempts
  THEN pc' = "delay" /\ UNCHANGED <<code, state>>
  ELSE Finish("1")

\* A migration fails on data it cannot convert (ConstrainGenreCode narrows a column) or
\* for want of a right.
Fail(f) ==
  /\ pc = "attempt"
  /\ CASE f = "connection" -> TRUE
       [] f = "sql"        -> dbUp /\ ~sound /\ schema < Len(Migrations)
       [] f = "other"      -> ~sound
  /\ fault' = f
  /\ Caught(f)
  /\ UNCHANGED <<settings, waiting, realm, database, attempt, restarts>>

\* Task.Delay, and the loop variable (the limit is met only under a mistake).
Delay ==
  /\ pc = "delay"
  /\ pc' = "attempt"
  /\ attempt' = IF attempt < maxAttempts THEN attempt + 1 ELSE attempt
  /\ UNCHANGED <<settings, state, waiting, realm, database, fault, code, restarts>>

\* ReplicaTimeout, or a crash of the machine.
Kill ==
  /\ pc \in {"attempt", "delay"}
  /\ fault' = "killed"
  /\ Finish("137")
  /\ UNCHANGED <<settings, waiting, realm, database, attempt, restarts>>

\* Mistake: the record of the failed run is left.
Restart_KeepsCode ==
  /\ environment = "Production"
  /\ pc = "exited" /\ code # "0" /\ restarts < ReplicaRetryLimit
  /\ restarts' = restarts + 1
  /\ state' = [state EXCEPT !["migrator"] = "running"]
  /\ pc' = "attempt" /\ attempt' = 1 /\ fault' = None
  /\ UNCHANGED <<settings, waiting, realm, database, code>>

\* The job is started again after a failure; on a developer's machine nothing does that.
Restart ==
  /\ environment = "Production"
  /\ pc = "exited" /\ code # "0" /\ restarts < ReplicaRetryLimit
  /\ restarts' = restarts + 1
  /\ state' = [state EXCEPT !["migrator"] = "running"]
  /\ pc' = "attempt" /\ attempt' = 1 /\ code' = None /\ fault' = None
  /\ UNCHANGED <<settings, waiting, realm, database>>

----------------------------------------------------------------------------
(* The health checks.                                                      *)

\* A resource that runs comes up, or comes back, when it likes.
Heal(r) ==
  /\ r \in Checked \ healthy /\ state[r] = "running"
  /\ healthy' = healthy \cup {r}
  /\ UNCHANGED <<settings, state, waiting, realm, outages, sound, schema, migrator>>

GoAway(r) ==
  /\ r \in healthy /\ outages < MaxOutages
  /\ healthy' = healthy \ {r} /\ outages' = outages + 1
  /\ UNCHANGED <<settings, state, waiting, realm, sound, schema, migrator>>

----------------------------------------------------------------------------
Init ==
  /\ environment \in {"Development", "Production"}
  /\ useKeycloak \in BOOLEAN /\ useBrevo \in BOOLEAN
  /\ state = [r \in Resource |-> "waiting"]
  /\ waiting = [r \in Resource |-> WaitsFor[r]]
  /\ runs = 1 /\ stored = 1 /\ secret = 1 /\ imported = 0
  /\ healthy = {} /\ outages = 0
  /\ sound \in BOOLEAN
  /\ schema \in 0..Len(Migrations)
  /\ pc = "none" /\ attempt = 1 /\ fault = None /\ code = None
  /\ restarts = 0

Next == \/ \E r \in Resource : Start(r)
        \/ \E removed \in SUBSET {"keycloak"} : Rerun(removed)
        \/ StartMigrator \/ Apply \/ Complete \/ Delay \/ Kill \/ Restart
        \/ \E f \in Fault : Fail(f)
        \/ \E r, d \in Resource : WaitEnds(r, d)
        \/ \E r \in Checked : GoAway(r) \/ Heal(r)

Spec == Init /\ [][Next]_vars

\* The AppHost notices that a wait is over, and a resource that may start does, except for
\* the job, which someone starts by hand; a migrator under way is answered or times out. No
\* health check owes an answer.
Fairness ==
  /\ \A r, d \in Resource : WF_vars(WaitEnds(r, d))
  /\ \A r \in Resource : WF_vars(Start(r))
  /\ WF_vars(environment = "Development" /\ StartMigrator)
  /\ WF_vars(Complete \/ Apply \/ \E f \in Fault : Fail(f))
  /\ WF_vars(Delay)

FairSpec == Spec /\ Fairness

----------------------------------------------------------------------------
(* Properties.                                                             *)

\* Types; what answers its health check runs; a run of the migrator has an exit code when it
\* has ended, and only then.
TypeOK ==
  /\ environment \in {"Development", "Production"}
  /\ useKeycloak \in BOOLEAN /\ useBrevo \in BOOLEAN
  /\ state \in [Resource -> {"waiting", "running", "finished"}]
  /\ waiting \in [Resource -> SUBSET Resource] /\ healthy \subseteq Checked
  /\ \A r \in healthy : state[r] = "running"
  /\ runs \in 1..MaxRuns /\ {stored, secret, imported} \subseteq 0..MaxRuns
  /\ sound \in BOOLEAN
  /\ outages \in 0..MaxOutages /\ schema \in 0..Len(Migrations)
  /\ pc \in {"none", "attempt", "delay", "exited"} /\ attempt \in 1..maxAttempts
  /\ fault \in Fault \cup {None, "killed"}
  /\ code \in {None, "0", "1", "137"} /\ restarts \in 0..ReplicaRetryLimit
  /\ pc = "exited" <=> code # None

\* A migrator that reports success leaves no migration behind, however many attempts,
\* outages and restarts it took (DbMigrator/Program.cs).
ExitZeroIsMigrated == code = "0" => schema = Len(Migrations)

\* It reports failure only when the attempts of the run are used up or the exception was
\* none the loop retries: an outage costs attempts, never the run.
GivesUpWhenSpent == code = "1" => attempt = maxAttempts \/ fault = "other"

\* However often the AppHost is started and the realm imported anew, the admin signs in
\* with the client secret Keycloak has in its realm: the generated secret is persisted
\* because the import leaves an existing realm as it is (DevelopmentEnvironmentExtensions).
SecretsMatch ==
  environment = "Development" /\ state["admin"] = "running" => imported = secret

\* In every environment and setting the admin has what its provider demands and the API
\* what that provider demands of it, a token is refreshed where and as whom the user
\* signed in, and the API takes it (ConfigureKeycloak and ConfigureEntra against
\* AddPresentationServices, envSchema, buildProviders and getOAuthEndpoints).
ProvidersMatch ==
  LET api == Settings["api"] env == Settings["admin"] IN
  state["admin"] = "running" =>
    /\ api.provider = env.provider
    /\ ApiDemands(api.provider) \subseteq DOMAIN api
    /\ AdminDemands(env.provider) \subseteq DOMAIN env
    /\ buildProviders(env) = [id        |-> getNextAuthProviderId(env),
                              authority |-> getOAuthEndpoints(env),
                              client    |-> getOAuthClientCredentials(env)]
    /\ TakesTokens(api, env)

\* A migrator once started ends, also when the database never comes back or a migration
\* can never be applied.
MigratorEnds == state["migrator"] = "running" ~> state["migrator"] # "running"

\* The waits of the AppHost are not circular and the settings let every host start: unless
\* the health check of a declared resource fails from some moment on for good, the admin
\* comes up in every run, whatever the migrator ends with.
AdminStarts ==
  \/ \E d \in Checked : <>[](d \in Declared /\ d \notin healthy)
  \/ []<>(state["admin"] = "running")

\* README, on local runs: "the migrator runs on every `aspire run`, and the API waits for
\* it to finish."
ApiWaitsForMigrator ==
  environment = "Development" /\ state["api"] = "running" => state["migrator"] = "finished"
=============================================================================
