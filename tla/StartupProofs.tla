--------------------------- MODULE StartupProofs ---------------------------
(***************************************************************************)
(* Proofs about Startup: its types, what the exit code of the migrator     *)
(* says, and that the admin always has the client secret of the realm, for *)
(* every number of attempts, restarts, outages and runs.                   *)
(***************************************************************************)
EXTENDS Startup, TLAPS

\* Why the secrets match: in development the secret in use is the stored one, Keycloak
\* knows that one or none, it knows one before it counts as started, a wait for it or for
\* the API outlasts its start, and the admin is behind the API and the API behind Keycloak.
SecretsKept ==
  environment = "Development" =>
    /\ secret = stored /\ stored # 0
    /\ imported \in {0, stored}
    /\ state["keycloak"] # "waiting" => imported # 0
    /\ "keycloak" \notin waiting["api"] => state["keycloak"] # "waiting"
    /\ "api" \notin waiting["admin"] => state["api"] # "waiting"
    /\ state["api"] # "waiting" => "keycloak" \notin waiting["api"]
    /\ state["admin"] # "waiting" => "api" \notin waiting["admin"]

\* What the AppHost shows of the migrator and where the migrator is.
StatesAgree ==
  state["migrator"] = IF pc = "none" THEN "waiting" ELSE IF pc = "exited" THEN "finished" ELSE "running"

\* The inductive invariant.
IInv == TypeOK /\ StatesAgree /\ ExitZeroIsMigrated /\ GivesUpWhenSpent /\ SecretsKept

LEMMA ThreeMigrations == Len(Migrations) = 3
  BY DEF Migrations

\* The bounds, one by one.
LEMMA Bounds == /\ maxAttempts \in Nat /\ maxAttempts >= 1
                /\ MaxRuns \in Nat /\ MaxRuns >= 1
                /\ ReplicaRetryLimit \in Nat /\ MaxOutages \in Nat
<1>1. maxAttempts \in Nat \ {0} /\ MaxRuns \in Nat \ {0}
  BY StartupAssumption DEF StartupAssumption
<1>2. ReplicaRetryLimit \in Nat /\ MaxOutages \in Nat
  BY StartupAssumption DEF StartupAssumption
<1> QED
  BY <1>1, <1>2

LEMMA WaitsTyped == \A r \in Resource : WaitsFor[r] \subseteq Resource
  BY DEF WaitsFor, Development, Production, Resource

LEMMA InitInvariant == Init => IInv
<1> SUFFICES ASSUME Init PROVE IInv
  OBVIOUS
<1>1. TypeOK
  <2>1. /\ runs \in 1..MaxRuns /\ {stored, secret, imported} \subseteq 0..MaxRuns
        /\ outages \in 0..MaxOutages /\ attempt \in 1..maxAttempts
        /\ restarts \in 0..ReplicaRetryLimit
    BY Bounds DEF Init
  <2>2. state \in [Resource -> {"waiting", "running", "finished"}]
    BY DEF Init
  <2>3. environment \in {"Development", "Production"} /\ schema \in 0..Len(Migrations)
        /\ useKeycloak \in BOOLEAN /\ useBrevo \in BOOLEAN /\ sound \in BOOLEAN /\ healthy = {}
    BY Zenon DEF Init
  <2>4. /\ pc \in {"none", "attempt", "delay", "exited"} /\ fault \in Fault \cup {None, "killed"}
        /\ code \in {None, "0", "1", "137"} /\ (pc = "exited" <=> code # None)
    BY DEF Init, None
  <2>5. waiting \in [Resource -> SUBSET Resource]
    BY WaitsTyped DEF Init
  <2> QED
    BY <2>1, <2>2, <2>3, <2>4, <2>5, Zenon DEF TypeOK
<1>2. ExitZeroIsMigrated /\ GivesUpWhenSpent /\ StatesAgree
  BY DEF Init, ExitZeroIsMigrated, GivesUpWhenSpent, StatesAgree, None, Resource
<1>3. SecretsKept
  BY DEF Init, SecretsKept, Resource, WaitsFor, Development
<1> QED
  BY <1>1, <1>2, <1>3 DEF IInv

\* The resources other than the migrator: nothing of the migrator changes.
LEMMA StartInvariant ==
  ASSUME IInv, NEW r \in Resource, Start(r)
  PROVE  IInv'
<1>1. TypeOK'
  BY StartupAssumption, ThreeMigrations
  DEF IInv, TypeOK, Start, ImportRealm, StartupAssumption, Resource, Fault, None,
      settings, database, migrator
<1>2. ExitZeroIsMigrated' /\ GivesUpWhenSpent'
  BY DEF IInv, ExitZeroIsMigrated, GivesUpWhenSpent, Start, settings, database, migrator
<1>4. StatesAgree'
  BY DEF IInv, StatesAgree, TypeOK, Start, migrator, Resource
<1>3. SecretsKept'
  <2> SUFFICES ASSUME environment = "Development" PROVE SecretsKept'
    BY DEF Start, settings, SecretsKept
  <2>1. /\ r # "migrator" /\ waiting[r] = {} /\ state' = [state EXCEPT ![r] = "running"]
        /\ imported' = IF r = "keycloak" /\ imported = 0 THEN secret ELSE imported
        /\ UNCHANGED <<environment, waiting, stored, secret>>
    BY DEF Start, Ready, ImportRealm, settings
  <2>4. state \in [Resource -> {"waiting", "running", "finished"}]
    BY DEF IInv, TypeOK
  <2>5. \A s \in Resource : state'[s] = IF s = r THEN "running" ELSE state[s]
    BY <2>1, <2>4
  <2>6. /\ state'["keycloak"] = IF r = "keycloak" THEN "running" ELSE state["keycloak"]
        /\ state'["api"] = IF r = "api" THEN "running" ELSE state["api"]
        /\ state'["admin"] = IF r = "admin" THEN "running" ELSE state["admin"]
    BY <2>5 DEF Resource
  <2> QED
    BY <2>1, <2>6 DEF IInv, SecretsKept
<1> QED
  BY <1>1, <1>2, <1>3, <1>4 DEF IInv

\* A wait that is over is over because the other has run.
LEMMA WaitEndsInvariant ==
  ASSUME IInv, NEW r \in Resource, NEW d \in Resource, WaitEnds(r, d)
  PROVE  IInv'
<1>1. /\ state[d] # "waiting" /\ waiting' = [waiting EXCEPT ![r] = @ \ {d}]
      /\ UNCHANGED <<settings, state, realm, database, migrator>>
  BY DEF WaitEnds
<1>2. waiting \in [Resource -> SUBSET Resource]
  BY DEF IInv, TypeOK
<1>3. /\ waiting' \in [Resource -> SUBSET Resource]
      /\ \A s \in Resource : waiting'[s] = IF s = r THEN waiting[s] \ {d} ELSE waiting[s]
  BY <1>1, <1>2
<1>4. TypeOK'
  BY <1>1, <1>3 DEF IInv, TypeOK, settings, realm, database, migrator
<1>5. ExitZeroIsMigrated' /\ GivesUpWhenSpent' /\ StatesAgree'
  BY <1>1 DEF IInv, ExitZeroIsMigrated, GivesUpWhenSpent, StatesAgree, database, migrator
<1>6. /\ waiting'["api"] = IF r = "api" THEN waiting["api"] \ {d} ELSE waiting["api"]
      /\ waiting'["admin"] = IF r = "admin" THEN waiting["admin"] \ {d} ELSE waiting["admin"]
  BY <1>3 DEF Resource
<1>7. SecretsKept'
  BY <1>1, <1>6 DEF IInv, SecretsKept, settings, realm
<1> QED
  BY <1>4, <1>5, <1>7 DEF IInv

\* The AppHost once more: the secret comes from the store, and the realm is either the one
\* that knows it or gone together with the Keycloak that had it.
LEMMA RerunInvariant ==
  ASSUME IInv, NEW removed \in SUBSET {"keycloak"}, Rerun(removed)
  PROVE  IInv'
<1>1. TypeOK'
  <2>1. {stored', secret', imported'} \subseteq 0..MaxRuns
    BY StartupAssumption DEF IInv, TypeOK, Rerun, AdminClientSecret, StartupAssumption
  <2>2. state' \in [Resource -> {"waiting", "running", "finished"}]
    BY DEF IInv, TypeOK, Rerun
  <2>3. runs' \in 1..MaxRuns
    BY StartupAssumption DEF IInv, TypeOK, Rerun, StartupAssumption
  <2>4. waiting' \in [Resource -> SUBSET Resource]
    BY WaitsTyped DEF Rerun
  <2>5. healthy' \subseteq Checked /\ \A r \in healthy' : state'[r] = "running"
    BY DEF IInv, TypeOK, Rerun, Checked, Resource
  <2> QED
    BY <2>1, <2>2, <2>3, <2>4, <2>5, StartupAssumption
    DEF IInv, TypeOK, Rerun, StartupAssumption, None, settings
<1>2. ExitZeroIsMigrated' /\ GivesUpWhenSpent' /\ StatesAgree'
  BY DEF ExitZeroIsMigrated, GivesUpWhenSpent, StatesAgree, Rerun, None, Resource
<1>3. SecretsKept'
  <2>1. /\ secret' = stored /\ stored' = stored
        /\ stored # 0 /\ imported \in {0, stored}
        /\ state["keycloak"] # "waiting" => imported # 0
    BY DEF IInv, SecretsKept, Rerun, AdminClientSecret
  <2>2. /\ state'["api"] = "waiting" /\ state'["admin"] = "waiting"
        /\ state'["keycloak"] = IF "keycloak" \in removed THEN "waiting" ELSE state["keycloak"]
    BY DEF Rerun, Resource
  <2>3. imported' = IF "keycloak" \in removed THEN 0 ELSE imported
    BY DEF Rerun
  <2>4. environment = "Development" => "keycloak" \in waiting'["api"] /\ "api" \in waiting'["admin"]
    BY DEF Rerun, WaitsFor, Development, Resource
  <2>5. environment' = environment
    BY DEF Rerun, settings
  <2> QED
    BY <2>1, <2>2, <2>3, <2>4, <2>5 DEF SecretsKept
<1> QED
  BY <1>1, <1>2, <1>3 DEF IInv

\* A step of the migrator touches no other resource.
LEMMA SecretsUndisturbed ==
  ASSUME IInv, UNCHANGED <<settings, waiting, realm>>,
         \A r \in Resource \ {"migrator"} : state'[r] = state[r]
  PROVE  SecretsKept'
<1>1. /\ state'["keycloak"] = state["keycloak"]
      /\ state'["api"] = state["api"] /\ state'["admin"] = state["admin"]
  BY DEF Resource
<1> QED
  BY <1>1 DEF IInv, SecretsKept, settings, realm

LEMMA StartMigratorInvariant ==
  ASSUME IInv, StartMigrator
  PROVE  IInv'
<1>1. state' = [state EXCEPT !["migrator"] = "running"] /\ state \in [Resource -> {"waiting", "running", "finished"}]
  BY DEF StartMigrator, IInv, TypeOK
<1>2. /\ state' \in [Resource -> {"waiting", "running", "finished"}]
      /\ state'["migrator"] = "running"
      /\ \A r \in Resource \ {"migrator"} : state'[r] = state[r]
  BY <1>1 DEF Resource
<1>3. SecretsKept'
  BY <1>2, SecretsUndisturbed DEF StartMigrator
<1>4. pc # "exited" /\ code = None
  BY DEF IInv, TypeOK, StatesAgree, StartMigrator
<1>5. ExitZeroIsMigrated' /\ GivesUpWhenSpent' /\ StatesAgree'
  BY <1>2, <1>4 DEF ExitZeroIsMigrated, GivesUpWhenSpent, StatesAgree, StartMigrator, None
<1>6. attempt' \in 1..maxAttempts
  BY Bounds DEF StartMigrator
<1>7. TypeOK'
  BY <1>2, <1>4, <1>6 DEF IInv, TypeOK, StartMigrator, settings, realm, database
<1> QED
  BY <1>3, <1>5, <1>7 DEF IInv

\* MigrateAsync.
LEMMA ApplyInvariant ==
  ASSUME IInv, Apply
  PROVE  IInv'
<1>1. SecretsKept' /\ StatesAgree' /\ GivesUpWhenSpent'
  BY DEF IInv, SecretsKept, StatesAgree, GivesUpWhenSpent, Apply, settings, realm, migrator
<1>2. code = None
  BY DEF IInv, TypeOK, Apply
<1>3. ExitZeroIsMigrated'
  BY <1>2 DEF ExitZeroIsMigrated, Apply, migrator, None
<1>4. schema' \in 0..Len(Migrations)
  BY ThreeMigrations DEF IInv, TypeOK, Apply
<1>5. TypeOK'
  BY <1>4 DEF IInv, TypeOK, Apply, settings, realm, migrator
<1> QED
  BY <1>1, <1>3, <1>5 DEF IInv

\* The migrator ends, with whatever code, and nothing else changes but the fault.
LEMMA FinishInvariant ==
  ASSUME IInv, NEW c \in {"0", "1", "137"}, pc \in {"attempt", "delay"}, Finish(c),
         UNCHANGED <<settings, waiting, realm, database, attempt, restarts>>,
         fault' \in Fault \cup {None, "killed"},
         c = "0" => schema = Len(Migrations),
         c = "1" => attempt = maxAttempts \/ fault' = "other"
  PROVE  IInv'
<1>1. state' = [state EXCEPT !["migrator"] = "finished"] /\ state \in [Resource -> {"waiting", "running", "finished"}]
  BY DEF Finish, IInv, TypeOK
<1>2. /\ state' \in [Resource -> {"waiting", "running", "finished"}]
      /\ state'["migrator"] = "finished"
      /\ \A r \in Resource \ {"migrator"} : state'[r] = state[r]
  BY <1>1 DEF Resource
<1>3. SecretsKept'
  BY <1>2, SecretsUndisturbed
<1>4. ExitZeroIsMigrated' /\ GivesUpWhenSpent' /\ StatesAgree'
  BY <1>2 DEF ExitZeroIsMigrated, GivesUpWhenSpent, StatesAgree, Finish, database
<1>5. pc' = "exited" /\ code' = c /\ c # None
  BY DEF Finish, None
<1>6. \A r \in healthy' : state'[r] = "running"
  BY <1>2 DEF IInv, TypeOK, database, Checked, Resource
<1>7. TypeOK'
  BY <1>2, <1>5, <1>6 DEF IInv, TypeOK, settings, realm, database
<1> QED
  BY <1>3, <1>4, <1>7 DEF IInv

LEMMA CompleteInvariant ==
  ASSUME IInv, Complete
  PROVE  IInv'
<1>1. fault' \in Fault \cup {None, "killed"}
  BY DEF IInv, TypeOK, Complete
<1> QED
  BY <1>1, FinishInvariant DEF Complete

LEMMA KillInvariant ==
  ASSUME IInv, Kill
  PROVE  IInv'
  BY FinishInvariant DEF Kill

\* The two catch clauses: the loop goes on only while there are attempts, so a failure is
\* reported at the last of them or for an exception that is not retried.
LEMMA FailInvariant ==
  ASSUME IInv, NEW f \in Fault, Fail(f)
  PROVE  IInv'
<1>1. fault' = f /\ pc = "attempt" /\ UNCHANGED <<settings, waiting, realm, database, attempt, restarts>>
  BY DEF Fail
<1>2. CASE IsTransient(f) /\ attempt < maxAttempts
  <2>1. pc' = "delay" /\ UNCHANGED <<code, state>>
    BY <1>2 DEF Fail, Caught
  <2>2. code = None
    BY <1>1 DEF IInv, TypeOK
  <2>3. SecretsKept' /\ StatesAgree'
    BY <1>1, <2>1 DEF IInv, SecretsKept, StatesAgree, settings, realm
  <2>4. ExitZeroIsMigrated' /\ GivesUpWhenSpent'
    BY <2>1, <2>2 DEF ExitZeroIsMigrated, GivesUpWhenSpent, None
  <2>5. TypeOK'
    BY <1>1, <2>1, <2>2 DEF IInv, TypeOK, settings, realm, database
  <2> QED
    BY <2>3, <2>4, <2>5 DEF IInv
<1>3. CASE ~(IsTransient(f) /\ attempt < maxAttempts)
  <2>1. Finish("1")
    BY <1>3 DEF Fail, Caught
  <2>2. ~IsTransient(f) => f = "other"
    BY DEF IsTransient, Fault
  <2>3. ~(attempt < maxAttempts) => attempt = maxAttempts
    BY Bounds DEF IInv, TypeOK
  <2> QED
    BY <1>1, <1>3, <2>1, <2>2, <2>3, FinishInvariant
<1> QED
  BY <1>2, <1>3

LEMMA DelayInvariant ==
  ASSUME IInv, Delay
  PROVE  IInv'
<1>1. code = None
  BY DEF IInv, TypeOK, Delay
<1>2. SecretsKept' /\ StatesAgree'
  BY DEF IInv, SecretsKept, StatesAgree, Delay, settings, realm
<1>3. ExitZeroIsMigrated' /\ GivesUpWhenSpent'
  BY <1>1 DEF ExitZeroIsMigrated, GivesUpWhenSpent, Delay, None
<1>4. attempt' \in 1..maxAttempts
  BY Bounds DEF IInv, TypeOK, Delay
<1>5. TypeOK'
  BY <1>1, <1>4 DEF IInv, TypeOK, Delay, settings, realm, database
<1> QED
  BY <1>2, <1>3, <1>5 DEF IInv

\* A new run of the job begins without a code and without a fault.
LEMMA RestartInvariant ==
  ASSUME IInv, Restart
  PROVE  IInv'
<1>1. state' = [state EXCEPT !["migrator"] = "running"] /\ state \in [Resource -> {"waiting", "running", "finished"}]
  BY DEF Restart, IInv, TypeOK
<1>2. /\ state' \in [Resource -> {"waiting", "running", "finished"}]
      /\ state'["migrator"] = "running"
      /\ \A r \in Resource \ {"migrator"} : state'[r] = state[r]
  BY <1>1 DEF Resource
<1>3. SecretsKept'
  BY <1>2, SecretsUndisturbed DEF Restart
<1>4. ExitZeroIsMigrated' /\ GivesUpWhenSpent' /\ StatesAgree'
  BY <1>2 DEF ExitZeroIsMigrated, GivesUpWhenSpent, StatesAgree, Restart, None
<1>5. attempt' \in 1..maxAttempts /\ restarts' \in 0..ReplicaRetryLimit
  BY Bounds DEF IInv, TypeOK, Restart
<1>6. TypeOK'
  BY <1>2, <1>5 DEF IInv, TypeOK, Restart, settings, realm, database
<1> QED
  BY <1>3, <1>4, <1>6 DEF IInv

\* The health checks fail and answer again, those of what runs.
LEMMA OutageInvariant ==
  ASSUME IInv, NEW r \in Checked, GoAway(r) \/ Heal(r)
  PROVE  IInv'
<1>1. /\ UNCHANGED <<settings, state, waiting, realm, sound, schema, migrator>>
      /\ healthy' \subseteq healthy \cup {r} /\ (r \notin healthy => state[r] = "running")
  BY DEF GoAway, Heal
<1>2. SecretsKept' /\ StatesAgree' /\ ExitZeroIsMigrated' /\ GivesUpWhenSpent'
  BY <1>1 DEF IInv, SecretsKept, StatesAgree, ExitZeroIsMigrated, GivesUpWhenSpent, settings,
              realm, migrator
<1>3. outages' \in 0..MaxOutages
  BY Bounds DEF IInv, TypeOK, GoAway, Heal
<1>4. healthy' \subseteq Checked /\ \A s \in healthy' : state'[s] = "running"
  BY <1>1 DEF IInv, TypeOK
<1>5. TypeOK'
  BY <1>1, <1>3, <1>4 DEF IInv, TypeOK, settings, realm, migrator
<1> QED
  BY <1>2, <1>5 DEF IInv

LEMMA NextInvariant ==
  ASSUME IInv, [Next]_vars
  PROVE  IInv'
<1>1. CASE UNCHANGED vars
  BY <1>1 DEF IInv, TypeOK, SecretsKept, StatesAgree, ExitZeroIsMigrated, GivesUpWhenSpent,
              vars, settings, realm, database, migrator
<1>2. CASE Next
  BY <1>2, StartInvariant, WaitEndsInvariant, RerunInvariant, StartMigratorInvariant, ApplyInvariant,
     CompleteInvariant, DelayInvariant, KillInvariant, RestartInvariant, FailInvariant,
     OutageInvariant
  DEF Next
<1> QED
  BY <1>1, <1>2

LEMMA Invariance == Spec => []IInv
  BY InitInvariant, NextInvariant, PTL DEF Spec

----------------------------------------------------------------------------
\* Types, and that a run of the migrator has an exit code exactly when it has ended
\* (DbMigrator/Program.cs, and the job's restarts).
THEOREM TypeCorrect == Spec => []TypeOK
  BY Invariance, PTL DEF IInv

\* Exit code 0 means that every migration is in the history table, however many attempts,
\* outages, kills and restarts it took (DbMigrator/Program.cs: return 0).
THEOREM SuccessIsMigrated == Spec => []ExitZeroIsMigrated
  BY Invariance, PTL DEF IInv

\* Exit code 1 means that the attempts are used up or that the exception was none the loop
\* retries (DbMigrator/Program.cs: the catch clauses).
THEOREM FailureIsSpent == Spec => []GivesUpWhenSpent
  BY Invariance, PTL DEF IInv

\* In every run of the AppHost in development an admin that runs has the client secret the
\* realm was imported with (DevelopmentEnvironmentExtensions: persist).
THEOREM SecretsAlwaysMatch == Spec => []SecretsMatch
<1>1. IInv => SecretsMatch
  BY DEF IInv, SecretsKept, SecretsMatch
<1> QED
  BY <1>1, Invariance, PTL

\* An admin that runs has what its provider demands, refreshes tokens where and as whom the
\* user signed in, and the API has what it takes to accept them (ConfigureKeycloak,
\* ConfigureEntra, envSchema, buildProviders, getOAuthEndpoints).
THEOREM ProvidersAlwaysMatch == Spec => []ProvidersMatch
<1>1. Settings \in {DevelopmentSettings, ConfigureKeycloak, ConfigureEntra}
  BY DEF Settings
<1>2. ASSUME Settings \in {DevelopmentSettings, ConfigureKeycloak} PROVE ProvidersMatch
  BY <1>2 DEF ProvidersMatch, DevelopmentSettings, ConfigureKeycloak, ApiDemands, AdminDemands,
     buildProviders, getNextAuthProviderId, getOAuthEndpoints, getOAuthClientCredentials, TakesTokens
<1>3. ASSUME Settings = ConfigureEntra PROVE ProvidersMatch
  BY <1>3 DEF ProvidersMatch, ConfigureEntra, EntraApi, EntraAdmin, ApiDemands, AdminDemands, resolveEntraDomain,
     buildProviders, getNextAuthProviderId, getOAuthEndpoints, getOAuthClientCredentials, TakesTokens
<1>4. ProvidersMatch
  BY <1>1, <1>2, <1>3
<1> QED
  BY <1>4, PTL
=============================================================================
