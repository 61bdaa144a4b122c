------------------------------ MODULE Startup ------------------------------
(***************************************************************************)
(* The life of the process up to and including its readiness: main loads   *)
(* the configuration, application.New builds the program from it, main     *)
(* listens and serves, the scanner's goroutine begins to probe.            *)
(*                                                                         *)
(* The constructors check again what Load has checked, each with bounds of *)
(* its own.  What the SDKs accept is external: a credential they refuse is *)
(* a value class, and whether what they look up on the host by themselves  *)
(* (shared AWS configuration, default credentials of Azure and Google) is  *)
(* in order, a choice of the environment.                                  *)
(***************************************************************************)
EXTENDS Configuration, Readiness

CONSTANTS
  Environments,   \* the environments the process may be started in
  IntervalTicks,  \* the refresh interval each value class stands for, in ticks
  TimeoutTicks    \* the request timeout each value class stands for

NumberClass == {Absent, "least", "most"}

ASSUME StartupConstants ==
  /\ \A env \in Environments : /\ DOMAIN env = Variable
                                /\ \A v \in Variable : env[v] \in Values[v] \cup {Absent}
  /\ IntervalTicks \in [NumberClass -> Nat \ {0}]
  /\ TimeoutTicks \in [NumberClass -> Nat \ {0}]

VARIABLES
  pc,      \* where main is
  env,     \* the environment; forgotten once the program is built from it
  exit     \* the category main reports when it gives up

startupVars == <<pc, env, exit>>
vars == <<startupVars, readyVars>>

StartupTypeOK ==
  /\ pc \in {"loading", "building", "listening", "serving", "exited"}
  /\ env \in [Variable -> (UNION {Values[v] : v \in Variable}) \cup {Absent}]
  /\ exit \in {"none", "invalid_configuration", "runtime"}
  /\ ReadinessTypeOK

-----------------------------------------------------------------------------
Holds(cfg, v) == v \in DOMAIN cfg.credentials.from
Contents(cfg) == {cfg.credentials.from[v] : v \in DOMAIN cfg.credentials.from}

(* awsconfig.LoadDefaultConfig: the SDK reads AWS settings of the host by  *)
(* itself and, unless New hands it credentials, the web identity in the    *)
(* environment, whose role it then misses.                                 *)
LoadDefaultConfigRefuses(cfg, e, host) ==
  \/ ~host
  \/ /\ cfg.credentials.mode = "ambient"
     /\ Given(e, "AWS_WEB_IDENTITY_TOKEN_FILE") /\ ~Given(e, "AWS_ROLE_ARN")

(* s3.invalidOptions, the CA bundle New parses again, and the SDK. *)
s3Refuses(cfg, e, host) ==
  \/ cfg.destination \in {"s3-long-bucket", "s3-huge-prefix"}
  \/ cfg.timeout = "outside"
  \/ cfg.region = "invalid"
  \/ cfg.caBundle \in {"unusable", "not-PEM"}
  \/ Contents(cfg) \cap {"unusable", "absolute-and-long", "invalid"} # {}
  \/ Holds(cfg, "AWS_ACCESS_KEY_ID_FILE") # Holds(cfg, "AWS_SECRET_ACCESS_KEY_FILE")
  \/ Holds(cfg, "AWS_SESSION_TOKEN_FILE") /\ ~Holds(cfg, "AWS_ACCESS_KEY_ID_FILE")
  \/ Holds(cfg, "AWS_WEB_IDENTITY_TOKEN_FILE") # Holds(cfg, "AWS_ROLE_ARN")
  \/ Holds(cfg, "AWS_ACCESS_KEY_ID_FILE") /\ Holds(cfg, "AWS_WEB_IDENTITY_TOKEN_FILE")
  \/ cfg.endpoint = "not-an-origin"
  \/ LoadDefaultConfigRefuses(cfg, e, host)

azureRefuses(cfg, host) ==
  \/ cfg.timeout = "outside"
  \/ "refused-by-the-SDK" \in Contents(cfg)
  \/ cfg.credentials.mode # "connection-string-file" /\ ~Holds(cfg, "AZURE_STORAGE_ACCOUNT")
  \/ cfg.credentials.mode = "ambient" /\ ~host

gcsRefuses(cfg, host) ==
  \/ cfg.timeout = "outside"
  \/ "refused-by-the-SDK" \in Contents(cfg)
  \/ cfg.credentials.mode = "ambient" /\ ~host

defaultReaderFactoryRefuses(cfg, e, host) ==
  CASE cfg.provider = "s3"    -> s3Refuses(cfg, e, host)
    [] cfg.provider = "azure" -> azureRefuses(cfg, host)
    [] cfg.provider = "gcs"   -> gcsRefuses(cfg, host)
    [] OTHER                  -> TRUE

(* The fingerprint of the repository and the identity the engine publishes *)
(* with its first, empty publication.                                      *)
canonicalS3Refuses(cfg) ==
  \/ cfg.endpoint \in {"port-only", "not-an-origin"}
  \/ cfg.format # "barman-cloud"
  \/ cfg.region \in {"invalid", "not-UTF-8"}
  \/ cfg.destination \in {"s3-long-bucket", "s3-long-prefix", "s3-huge-prefix",
                          "s3-escaped-control"}
  \/ cfg.servers # "one"

identityRefuses(cfg) ==
  \E i \in DOMAIN cfg.cluster :
    cfg.cluster[i] \in {"invalid", "not-UTF-8"} \/ (i < 3 /\ cfg.cluster[i] = Absent)

newEvidenceEngineRefuses(cfg) == canonicalS3Refuses(cfg) \/ identityRefuses(cfg)

NewScannerRefuses(cfg) ==
  "outside" \in {cfg.interval, cfg.maxObjects, cfg.walPageSize}
    \/ "too-many" \in {cfg.servers, cfg.stanzas}

NewRefuses(cfg, e, host) ==
  \/ cfg.format \notin {"barman-cloud", "pgbackrest"}
  \/ cfg.sidecar /\ cfg.servers \in {Absent, "two"}
  \/ defaultReaderFactoryRefuses(cfg, e, host)
  \/ cfg.sidecar /\ newEvidenceEngineRefuses(cfg)
  \/ cfg.sidecar /\ cfg.tokenFile # "token"
  \/ NewScannerRefuses(cfg)
  \/ ~cfg.sidecar /\ cfg.walPageSize = "outside"

(* What each part of the program is built from.  With ambient credentials  *)
(* the AWS SDK reads the web-identity variables by itself.  RecentLimit is *)
(* the page size but at most 200, which is also the default page size.     *)
Wiring(e) ==
  LET cfg  == Load(e)
      s3   == cfg.provider = "s3"
  IN  [reader   |-> <<cfg.provider, cfg.destination, cfg.timeout, cfg.endpoint, cfg.caBundle,
                      cfg.region, cfg.credentials>>,
       sdk      |-> IF s3 /\ cfg.credentials.mode = "ambient"
                      THEN Restrict(e, WebIdentity) ELSE <<>>,
       ready    |-> <<cfg.interval, cfg.timeout>>,
       scanner  |-> <<cfg.format, IF cfg.format = "pgbackrest" THEN cfg.stanzas ELSE cfg.servers,
                      cfg.interval, cfg.maxObjects,
                      IF cfg.walPageSize = "least" THEN "least" ELSE "MaxRecentObjects",
                      IF cfg.format = "barman-cloud" THEN cfg.retention ELSE <<>> >>,
       evidence |-> IF cfg.sidecar
                      THEN <<cfg.endpoint, cfg.region, cfg.destination, cfg.servers,
                             cfg.cluster, cfg.tokenFile>>
                      ELSE <<>>,
       web      |-> IF cfg.sidecar THEN <<>>
                    ELSE <<cfg.listenAddr, cfg.userHeader, cfg.walPageSize>>]

-----------------------------------------------------------------------------
Init ==
  /\ pc = "loading"
  /\ env \in Environments
  /\ exit = "none"
  /\ ReadinessInit

Exit(category) == pc' = "exited" /\ exit' = category

(* config.LoadOS *)
LoadOS ==
  /\ pc = "loading"
  /\ IF Accepted(env) THEN pc' = "building" /\ UNCHANGED exit
                      ELSE Exit("invalid_configuration")
  /\ UNCHANGED <<env, readyVars>>

(* application.New *)
New ==
  /\ pc = "building"
  /\ \E host \in BOOLEAN :
       IF NewRefuses(Load(env), env, host) THEN Exit("runtime")
                                           ELSE pc' = "listening" /\ UNCHANGED exit
  /\ UNCHANGED <<env, readyVars>>

(* The address cannot be bound; the sidecar's socket is EvidenceService's. *)
ListenFails ==
  /\ pc = "listening"
  /\ ~Sidecar(env)
  /\ Exit("runtime")
  /\ UNCHANGED <<env, readyVars>>

(* The worker starts; the environment is not looked at again. *)
Serve ==
  /\ pc = "listening"
  /\ pc' = "serving"
  /\ StartWorker(IntervalTicks[env.CATALOG_REFRESH_INTERVAL],
                 TimeoutTicks[env.STORE_REQUEST_TIMEOUT])
  /\ env' = Nothing
  /\ UNCHANGED exit

Run == pc = "serving" /\ ReadinessNext /\ UNCHANGED startupVars

Next == LoadOS \/ New \/ ListenFails \/ Serve \/ Run

(* The worker is a goroutine of its own, requests have deadlines, every    *)
(* scan ends (RefreshTerminates of the scanner) and time goes on.          *)
Fairness ==
  /\ WF_readyVars(ProbeSucceeds \/ ProbeFails)
  /\ WF_readyVars(ScanEnds)
  /\ WF_readyVars(NextCycle)
  /\ WF_readyVars(Tick)

Spec == Init /\ [][Next]_vars /\ Fairness

-----------------------------------------------------------------------------
(* No credentials for the provider are configured: the SDK looks for some. *)
LeftToTheSDK(e) ==
  CASE e.PROVIDER = "s3"    -> ~Sidecar(e) /\ ~Given(e, "AWS_ACCESS_KEY_ID_FILE")
    [] e.PROVIDER = "azure" -> ~GivenAny(e, providerFiles["azure"])
    [] OTHER                -> ~GivenAny(e, providerFiles["gcs"])

(* What Load lets through and a constructor then refuses, so that main     *)
(* reports "runtime" instead of naming the variable: what only an SDK can  *)
(* judge, a token without a role that the AWS SDK would use, an Azure      *)
(* repository without an account, lengths only the S3 adapter bounds, and  *)
(* in a sidecar what the published identity cannot carry, an endpoint      *)
(* without a host or a file that holds no token.                           *)
RefusedLate(e, host) ==
  \/ ~host /\ (e.PROVIDER = "s3" \/ LeftToTheSDK(e))
  \/ \E v \in Variable : e[v] = "refused-by-the-SDK"
  \/ /\ e.PROVIDER = "s3" /\ LeftToTheSDK(e)
     /\ Given(e, "AWS_WEB_IDENTITY_TOKEN_FILE") /\ ~Given(e, "AWS_ROLE_ARN")
  \/ e.PROVIDER = "azure" /\ ~GivenAny(e, {"AZURE_STORAGE_ACCOUNT",
                                           "AZURE_STORAGE_CONNECTION_STRING_FILE"})
  \/ e.DESTINATION_PATH \in {"s3-long-bucket", "s3-huge-prefix"}
  \/ Sidecar(e) /\ \/ \E v \in Variable : e[v] = "not-UTF-8"
                   \/ e.DESTINATION_PATH \in {"s3-long-prefix", "s3-escaped-control"}
                   \/ e.ENDPOINT_URL = "port-only"
                   \/ e.EVIDENCE_TOKEN_FILE = "not-a-token"
                   \/ e.AWS_WEB_IDENTITY_TOKEN_FILE = "absolute-and-long"

(* A configuration that was accepted is one the program starts with: of    *)
(* all the bounds the constructors repeat (s3/store.go:156, azure, gcs,    *)
(* fingerprint.go, scanner.go:86), only the named ones can still refuse,   *)
(* and they do; an SDK refuses (s3/store.go:108) only what it reads of the *)
(* host by itself, a credential it cannot use or a token without its role. *)
AcceptedConfigurationStarts ==
  pc = "building" =>
    \A host \in BOOLEAN :
      NewRefuses(Load(env), env, host) <=> RefusedLate(env, host)

(* Accepted settings that change nothing.  Some no part of the program     *)
(* reads, though SCAN_CONCURRENCY is documented as a limit.                *)
Unread(e) ==
  {"SCAN_CONCURRENCY", "ALLOW_DOWNLOAD", "PGBACKREST_CIPHER_PASS_FILE"}
    \cup (IF e.REPOSITORY_FORMAT = "pgbackrest"
            THEN {"EXPECTED_RETENTION_POLICY", "EXPECTED_MINIMUM_REDUNDANCY"} ELSE {})
    \cup (IF Sidecar(e) /\ e.WAL_PAGE_SIZE = "most" THEN {"WAL_PAGE_SIZE"} ELSE {})

(* Others belong to another provider or to a sidecar and are ignored, a    *)
(* web identity in favour of the static files beside it.                   *)
Ignored(e) ==
  (IF e.PROVIDER = "s3" THEN {} ELSE {"AWS_REGION"})
    \cup (IF e.PROVIDER = "azure" THEN {} ELSE {"AZURE_STORAGE_ACCOUNT"})
    \cup (IF Given(e, "AWS_ACCESS_KEY_ID_FILE") THEN WebIdentity ELSE {})

Idle(e) == Unread(e) \cup Ignored(e)

(* The variables of another provider, format or mode.  All of them are     *)
(* "rejected, not ignored" (web/docs/operations/troubleshooting.md:44) and *)
(* "an error" (web/docs/operations/configuration.md:162).                  *)
Foreign(e) ==
  (IF e.PROVIDER = "s3" THEN {}
     ELSE providerFiles["s3"] \cup {"AWS_REGION", "ENDPOINT_URL", "ENDPOINT_CA_FILE"})
    \cup (IF e.PROVIDER = "azure" THEN {}
            ELSE providerFiles["azure"] \cup {"AZURE_STORAGE_ACCOUNT"})
    \cup (IF e.PROVIDER = "gcs" THEN {} ELSE providerFiles["gcs"])
    \cup (IF e.REPOSITORY_FORMAT = "pgbackrest" THEN {"BARMAN_SERVER_NAMES"}
            ELSE {"PGBACKREST_STANZAS", "PGBACKREST_CIPHER_PASS_FILE"})
    \cup (IF Sidecar(e) THEN {"LISTEN_ADDR", "TRUSTED_USER_HEADER"}
            ELSE {"EVIDENCE_TOKEN_FILE", "CNPG_CLUSTER_NAMESPACE", "CNPG_CLUSTER_UID",
                  "CNPG_CLUSTER_NAME", "STORE_CREDENTIAL_MODE"} \cup WebIdentity)

(* The ones that the code does not refuse all the same: the lists of       *)
(* config.go:410 and config.go:329 are without them.                       *)
PassedOver(e) ==
  (IF e.PROVIDER = "s3" THEN {} ELSE {"AWS_REGION"})
    \cup (IF e.PROVIDER = "azure" THEN {} ELSE {"AZURE_STORAGE_ACCOUNT"})
    \cup (IF e.PROVIDER = "s3" /\ ~Sidecar(e) THEN WebIdentity ELSE {})

SetBy(e) == {v \in Variable : Given(e, v)} \cup
            (IF e.TRUSTED_USER_HEADER = Empty THEN {"TRUSTED_USER_HEADER"} ELSE {})

(* loadFormatConfig, loadRuntimeConfig, loadCredentials: a setting that is *)
(* accepted takes effect, in that the program would be refused or built    *)
(* differently without it, unless it is an idle one; and what is foreign   *)
(* to the provider, the format or the mode is refused, unless it is passed *)
(* over.  Nothing is ignored but what nobody reads and what is passed      *)
(* over, where the code departs from its documentation.                    *)
SettingsTakeEffect ==
  pc = "building" =>
    \A v \in SetBy(env) :
      LET without == [env EXCEPT ![v] = Absent]
      IN  /\ (Accepted(without) /\ Wiring(without) = Wiring(env)) <=> v \in Idle(env)
          /\ v \in Foreign(env) \cup Ignored(env) => v \in PassedOver(env)
=============================================================================
