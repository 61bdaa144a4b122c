--------------------------- MODULE Configuration ---------------------------
(***************************************************************************)
(* How the environment of the process becomes a program: config.Load       *)
(* checks every variable and keeps a Config, application.New hands its     *)
(* parts to the constructors of the store, the engine and the pages.       *)
(*                                                                         *)
(* A variable's value is the class the code tells apart: what it parses    *)
(* to, or, for a variable that names a file, what that file holds.         *)
(* "unusable" is a file that cannot be opened or read, is too large or is  *)
(* blank.  A check is the variable an error names and the condition it is  *)
(* raised under; checks are listed in the order the code makes them.       *)
(***************************************************************************)
EXTENDS Functions, FiniteSetsExt, Sequences, Integers

Absent == "absent"
Empty  == "empty"     \* set to nothing, which only LookupEnv tells from Absent

Number == {"least", "most", "outside"}
File   == {"file", "unusable"}
Names  == {"one", "one-twice", "two", "too-many", "invalid", "not-UTF-8"}
Text   == {"text", "invalid", "not-UTF-8"}

(* The documented variables with the values they may be set to. *)
Values ==
  [RUNTIME_MODE                |-> {"pgconsole-sidecar", "other"},
   REPOSITORY_FORMAT           |-> {"barman-cloud", "pgbackrest", "other"},
   PROVIDER                    |-> {"s3", "azure", "gcs", "other"},
   DESTINATION_PATH            |-> {"s3", "azure", "gs", "not-a-URI", "s3-double-slash",
                                    "s3-long-bucket", "s3-long-prefix",
                                    "s3-huge-prefix", "s3-escaped-control"},
   ENDPOINT_URL                |-> {"origin", "port-only", "not-an-origin"},
   ENDPOINT_CA_FILE            |-> File \cup {"not-PEM"},
   LISTEN_ADDR                 |-> {"host-port", "invalid", Empty},
   TRUSTED_USER_HEADER         |-> {"name", "invalid", Empty},
   ALLOW_DOWNLOAD              |-> {"true", "false", "invalid"},
   CATALOG_REFRESH_INTERVAL    |-> Number,
   STORE_REQUEST_TIMEOUT       |-> Number,
   SCAN_CONCURRENCY            |-> Number,
   MAX_OBJECTS_PER_SCAN        |-> Number,
   WAL_PAGE_SIZE               |-> Number,
   EXPECTED_RETENTION_POLICY   |-> {"text", "invalid"},
   EXPECTED_MINIMUM_REDUNDANCY |-> Number,
   BARMAN_SERVER_NAMES         |-> Names,
   PGBACKREST_STANZAS          |-> Names \ {"not-UTF-8"},
   PGBACKREST_CIPHER_PASS_FILE |-> File,
   EVIDENCE_TOKEN_FILE         |-> {"token", "not-a-token", "relative"},
   CNPG_CLUSTER_NAMESPACE      |-> Text,
   CNPG_CLUSTER_UID            |-> Text,
   CNPG_CLUSTER_NAME           |-> Text,
   STORE_CREDENTIAL_MODE       |-> {"static-files", "aws-web-identity", "other"},
   AWS_ACCESS_KEY_ID           |-> {"text"},
   AWS_SECRET_ACCESS_KEY       |-> {"text"},
   AWS_SESSION_TOKEN           |-> {"text"},
   AWS_ACCESS_KEY_ID_FILE      |-> File,
   AWS_SECRET_ACCESS_KEY_FILE  |-> File,
   AWS_SESSION_TOKEN_FILE      |-> File,
   AWS_WEB_IDENTITY_TOKEN_FILE |-> {"absolute", "absolute-and-long", "relative"},
   AWS_ROLE_ARN                |-> {"role", "invalid"},
   AWS_REGION                  |-> Text,
   AZURE_STORAGE_CONNECTION_STRING_FILE |-> File \cup {"refused-by-the-SDK"},
   AZURE_STORAGE_ACCOUNT                |-> {"text", "invalid"},
   AZURE_STORAGE_ACCOUNT_KEY_FILE       |-> File \cup {"refused-by-the-SDK"},
   AZURE_STORAGE_SAS_TOKEN_FILE         |-> File,
   GOOGLE_APPLICATION_CREDENTIALS       |-> File \cup {"not-JSON", "refused-by-the-SDK"}]

Variable == DOMAIN Values

Nothing == [v \in Variable |-> Absent]

(* getenv(v) # "" *)
Given(env, v) == env[v] \notin {Absent, Empty}

GivenAny(env, V) == \E v \in V : Given(env, v)

Check(variable, refused) == [named |-> {variable}, refused |-> refused]

(* An optional variable whose parser refuses the values in bad. *)
parse(env, variable, bad) == Check(variable, env[variable] \in bad)

readBoundedFile(env, variable) == parse(env, variable, {"unusable"})

parseNames(env, variable) == parse(env, variable, {"too-many", "invalid"})

validAbsolutePath(path) == path \notin {Absent, Empty, "relative"}

invalidIdentity(value, required) ==
  value = "invalid" \/ (required /\ value \in {Absent, Empty})

Sidecar(env) == env.RUNTIME_MODE = "pgconsole-sidecar"

ParserChecks(env) ==
  << parse(env, "RUNTIME_MODE", {"other"}),
     parse(env, "REPOSITORY_FORMAT", {Absent, "other"}),
     parse(env, "PROVIDER", {Absent, "other"}) >>

(* The scheme of a destination must be the provider's; // and control      *)
(* characters are looked for in the raw text, not in the decoded path.     *)
Scheme(provider) ==
  CASE provider = "azure" -> {"azure"}
    [] provider = "gcs"   -> {"gs"}
    [] OTHER              -> Values["DESTINATION_PATH"] \ {"azure", "gs", "not-a-URI"}

parseDestination(env) ==
  << parse(env, "DESTINATION_PATH", {Absent, "not-a-URI"}),
     Check("DESTINATION_PATH", env.DESTINATION_PATH \notin Scheme(env.PROVIDER)),
     parse(env, "DESTINATION_PATH", {"s3-double-slash"}) >>

parseEndpoint(env) ==
  << Check("ENDPOINT_URL", Given(env, "ENDPOINT_URL") /\ env.PROVIDER # "s3"),
     parse(env, "ENDPOINT_URL", {"not-an-origin"}),
     Check("ENDPOINT_CA_FILE", Given(env, "ENDPOINT_CA_FILE") /\ env.PROVIDER # "s3"),
     readBoundedFile(env, "ENDPOINT_CA_FILE"),
     parse(env, "ENDPOINT_CA_FILE", {"not-PEM"}) >>

(* The web settings: refused in a sidecar even when set to nothing. *)
WebChecks(env) ==
  << Check("LISTEN_ADDR", Sidecar(env) /\ env.LISTEN_ADDR # Absent),
     Check("TRUSTED_USER_HEADER", Sidecar(env) /\ env.TRUSTED_USER_HEADER # Absent),
     parse(env, "LISTEN_ADDR", {"invalid"}),
     parse(env, "TRUSTED_USER_HEADER", {"invalid"}),
     parse(env, "ALLOW_DOWNLOAD", {"invalid"}),
     Check("ALLOW_DOWNLOAD", Sidecar(env) /\ env.ALLOW_DOWNLOAD = "true") >>

(* Mutant: the page size is not bounded. *)
PageSizeUnbounded(env) ==
  << parse(env, "CATALOG_REFRESH_INTERVAL", {"outside"}),
     parse(env, "STORE_REQUEST_TIMEOUT", {"outside"}),
     parse(env, "SCAN_CONCURRENCY", {"outside"}),
     parse(env, "MAX_OBJECTS_PER_SCAN", {"outside"}),
     parse(env, "EXPECTED_RETENTION_POLICY", {"invalid"}),
     parse(env, "EXPECTED_MINIMUM_REDUNDANCY", {"outside"}) >>

NumberChecks(env) ==
  << parse(env, "CATALOG_REFRESH_INTERVAL", {"outside"}),
     parse(env, "STORE_REQUEST_TIMEOUT", {"outside"}),
     parse(env, "SCAN_CONCURRENCY", {"outside"}),
     parse(env, "MAX_OBJECTS_PER_SCAN", {"outside"}),
     parse(env, "WAL_PAGE_SIZE", {"outside"}),
     parse(env, "EXPECTED_RETENTION_POLICY", {"invalid"}),
     parse(env, "EXPECTED_MINIMUM_REDUNDANCY", {"outside"}) >>

loadFormatConfig(env) ==
  LET barman == env.REPOSITORY_FORMAT = "barman-cloud"
  IN  << parseNames(env, "BARMAN_SERVER_NAMES"),
         parseNames(env, "PGBACKREST_STANZAS"),
         Check("PGBACKREST_STANZAS", barman /\ Given(env, "PGBACKREST_STANZAS")),
         Check("PGBACKREST_CIPHER_PASS_FILE",
               barman /\ Given(env, "PGBACKREST_CIPHER_PASS_FILE")),
         Check("BARMAN_SERVER_NAMES", ~barman /\ Given(env, "BARMAN_SERVER_NAMES")),
         readBoundedFile(env, "PGBACKREST_CIPHER_PASS_FILE") >>

SidecarOnly ==
  <<"EVIDENCE_TOKEN_FILE", "CNPG_CLUSTER_NAMESPACE", "CNPG_CLUSTER_UID",
    "CNPG_CLUSTER_NAME", "STORE_CREDENTIAL_MODE">>

loadRuntimeConfig(env) ==
  IF ~Sidecar(env)
    THEN [i \in DOMAIN SidecarOnly |-> Check(SidecarOnly[i], Given(env, SidecarOnly[i]))]
    ELSE << Check("REPOSITORY_FORMAT", env.REPOSITORY_FORMAT # "barman-cloud"),
            Check("PROVIDER", env.PROVIDER # "s3"),
            Check("BARMAN_SERVER_NAMES",
                  env.BARMAN_SERVER_NAMES \notin {"one", "one-twice", "not-UTF-8"}),
            Check("EVIDENCE_TOKEN_FILE", ~validAbsolutePath(env.EVIDENCE_TOKEN_FILE)),
            Check("CNPG_CLUSTER_NAMESPACE", invalidIdentity(env.CNPG_CLUSTER_NAMESPACE, TRUE)),
            Check("CNPG_CLUSTER_UID", invalidIdentity(env.CNPG_CLUSTER_UID, TRUE)),
            Check("CNPG_CLUSTER_NAME", invalidIdentity(env.CNPG_CLUSTER_NAME, FALSE)) >>

DirectCredentials == {"AWS_ACCESS_KEY_ID", "AWS_SECRET_ACCESS_KEY", "AWS_SESSION_TOKEN"}
StaticFiles       == {"AWS_ACCESS_KEY_ID_FILE", "AWS_SECRET_ACCESS_KEY_FILE",
                      "AWS_SESSION_TOKEN_FILE"}
WebIdentity       == {"AWS_WEB_IDENTITY_TOKEN_FILE", "AWS_ROLE_ARN"}
AccountFiles      == {"AZURE_STORAGE_ACCOUNT_KEY_FILE", "AZURE_STORAGE_SAS_TOKEN_FILE"}

providerFiles ==
  [s3    |-> StaticFiles \cup WebIdentity,
   azure |-> AccountFiles \cup {"AZURE_STORAGE_CONNECTION_STRING_FILE"},
   gcs   |-> {"GOOGLE_APPLICATION_CREDENTIALS"}]

(* The map is walked in no fixed order: with two foreign providers any of  *)
(* their variables may be the one the error names.                         *)
ForeignCredentials(env) ==
  LET foreign == {v \in UNION {providerFiles[p] : p \in DOMAIN providerFiles \ {env.PROVIDER}} :
                    Given(env, v)}
  IN  [named |-> foreign, refused |-> foreign # {}]

loadS3Credentials(env) ==
  LET access == Given(env, "AWS_ACCESS_KEY_ID_FILE")
      mode   == IF Sidecar(env) THEN env.STORE_CREDENTIAL_MODE ELSE "by-file"
      web    == mode = "aws-web-identity"
  IN  << Check("AWS_ACCESS_KEY_ID_FILE",
               access # Given(env, "AWS_SECRET_ACCESS_KEY_FILE")),
         Check("AWS_SESSION_TOKEN_FILE", Given(env, "AWS_SESSION_TOKEN_FILE") /\ ~access),
         parse(env, "AWS_REGION", {"invalid"}),
         Check("STORE_CREDENTIAL_MODE",
               mode = "static-files" /\ (~access \/ GivenAny(env, WebIdentity))),
         Check("STORE_CREDENTIAL_MODE", web /\ GivenAny(env, StaticFiles)),
         Check("AWS_WEB_IDENTITY_TOKEN_FILE",
               web /\ ~validAbsolutePath(env.AWS_WEB_IDENTITY_TOKEN_FILE)),
         Check("AWS_ROLE_ARN", web /\ env.AWS_ROLE_ARN # "role"),
         Check("AWS_REGION", web /\ ~Given(env, "AWS_REGION")),
         Check("STORE_CREDENTIAL_MODE",
               mode \notin {"by-file", "static-files", "aws-web-identity"}),
         readBoundedFile(env, "AWS_ACCESS_KEY_ID_FILE"),
         readBoundedFile(env, "AWS_SECRET_ACCESS_KEY_FILE"),
         readBoundedFile(env, "AWS_SESSION_TOKEN_FILE") >>

(* Mutant: a SAS token is ignored where an account key is given. *)
AzureKeyWins(env) ==
  LET files == {v \in AccountFiles : Given(env, v)}
  IN  << parse(env, "AZURE_STORAGE_ACCOUNT", {"invalid"}),
         Check("AZURE_STORAGE_CONNECTION_STRING_FILE",
               Given(env, "AZURE_STORAGE_CONNECTION_STRING_FILE")
                 /\ (Given(env, "AZURE_STORAGE_ACCOUNT") \/ files # {})),
         readBoundedFile(env, "AZURE_STORAGE_CONNECTION_STRING_FILE"),
         Check("AZURE_STORAGE_ACCOUNT", files # {} /\ ~Given(env, "AZURE_STORAGE_ACCOUNT")),
         readBoundedFile(env, "AZURE_STORAGE_ACCOUNT_KEY_FILE"),
         readBoundedFile(env, "AZURE_STORAGE_SAS_TOKEN_FILE") >>

loadAzureCredentials(env) ==
  LET connection == Given(env, "AZURE_STORAGE_CONNECTION_STRING_FILE")
      account    == Given(env, "AZURE_STORAGE_ACCOUNT")
      files      == {v \in AccountFiles : Given(env, v)}
  IN  << parse(env, "AZURE_STORAGE_ACCOUNT", {"invalid"}),
         Check("AZURE_STORAGE_CONNECTION_STRING_FILE",
               connection /\ (account \/ files # {})),
         readBoundedFile(env, "AZURE_STORAGE_CONNECTION_STRING_FILE"),
         Check("AZURE_STORAGE_ACCOUNT_KEY_FILE", files = AccountFiles),
         Check("AZURE_STORAGE_ACCOUNT", files # {} /\ ~account),
         readBoundedFile(env, "AZURE_STORAGE_ACCOUNT_KEY_FILE"),
         readBoundedFile(env, "AZURE_STORAGE_SAS_TOKEN_FILE") >>

loadGCSCredentials(env) ==
  << readBoundedFile(env, "GOOGLE_APPLICATION_CREDENTIALS"),
     parse(env, "GOOGLE_APPLICATION_CREDENTIALS", {"not-JSON"}) >>

loadCredentials(env) ==
  << Check("AWS_ACCESS_KEY_ID", GivenAny(env, DirectCredentials)), ForeignCredentials(env) >>
    \o CASE env.PROVIDER = "s3"    -> loadS3Credentials(env)
         [] env.PROVIDER = "azure" -> loadAzureCredentials(env)
         [] OTHER                  -> loadGCSCredentials(env)

LoadChecks(env) ==
  ParserChecks(env) \o parseDestination(env) \o parseEndpoint(env) \o WebChecks(env)
    \o NumberChecks(env) \o loadFormatConfig(env) \o loadRuntimeConfig(env)
    \o loadCredentials(env)

(* The variables the error of Load may name; none when it accepts. *)
Refusal(env) ==
  LET checks  == LoadChecks(env)
      refused == {i \in DOMAIN checks : checks[i].refused}
  IN  IF refused = {} THEN {} ELSE checks[Min(refused)].named

Accepted(env) == Refusal(env) = {}

-----------------------------------------------------------------------------
(* What Load keeps.  A variable left out has its default, which no value   *)
(* class stands for; a list of names is the set of the names in it.        *)

(* Credentials: the mode, and the variables whose contents are handed on.  *)
Credentials(env) ==
  LET using(mode, V) == [mode |-> mode, from |-> Restrict(env, {v \in V : Given(env, v)})]
      account(mode, V) == using(mode, V \cup {"AZURE_STORAGE_ACCOUNT"})
  IN  CASE env.PROVIDER = "s3" ->
             IF Sidecar(env) /\ env.STORE_CREDENTIAL_MODE = "aws-web-identity"
               THEN using("aws-web-identity", WebIdentity)
             ELSE IF Given(env, "AWS_ACCESS_KEY_ID_FILE")
               THEN using("static-files", StaticFiles)
             ELSE using("ambient", {})
        [] env.PROVIDER = "azure" ->
             IF Given(env, "AZURE_STORAGE_CONNECTION_STRING_FILE")
               THEN using("connection-string-file", {"AZURE_STORAGE_CONNECTION_STRING_FILE"})
             ELSE IF Given(env, "AZURE_STORAGE_ACCOUNT_KEY_FILE")
               THEN account("account-key-file", {"AZURE_STORAGE_ACCOUNT_KEY_FILE"})
             ELSE IF Given(env, "AZURE_STORAGE_SAS_TOKEN_FILE")
               THEN account("sas-token-file", {"AZURE_STORAGE_SAS_TOKEN_FILE"})
             ELSE account("ambient", {})
        [] OTHER ->
             IF Given(env, "GOOGLE_APPLICATION_CREDENTIALS")
               THEN using("json-file", {"GOOGLE_APPLICATION_CREDENTIALS"})
             ELSE using("ambient", {})

OneName(names) == IF names = "one-twice" THEN "one" ELSE names

Load(env) ==
  [sidecar     |-> Sidecar(env),
   format      |-> env.REPOSITORY_FORMAT,
   provider    |-> env.PROVIDER,
   destination |-> env.DESTINATION_PATH,
   endpoint    |-> env.ENDPOINT_URL,
   caBundle    |-> env.ENDPOINT_CA_FILE,
   servers     |-> OneName(env.BARMAN_SERVER_NAMES),
   stanzas     |-> OneName(env.PGBACKREST_STANZAS),
   cipher      |-> env.PGBACKREST_CIPHER_PASS_FILE,
   listenAddr  |-> IF env.LISTEN_ADDR = Empty THEN Absent ELSE env.LISTEN_ADDR,
   userHeader  |-> env.TRUSTED_USER_HEADER,
   download    |-> env.ALLOW_DOWNLOAD = "true",
   tokenFile   |-> env.EVIDENCE_TOKEN_FILE,
   cluster     |-> <<env.CNPG_CLUSTER_NAMESPACE, env.CNPG_CLUSTER_UID, env.CNPG_CLUSTER_NAME>>,
   interval    |-> env.CATALOG_REFRESH_INTERVAL,
   timeout     |-> env.STORE_REQUEST_TIMEOUT,
   concurrency |-> env.SCAN_CONCURRENCY,
   maxObjects  |-> env.MAX_OBJECTS_PER_SCAN,
   walPageSize |-> env.WAL_PAGE_SIZE,
   retention   |-> <<env.EXPECTED_RETENTION_POLICY, env.EXPECTED_MINIMUM_REDUNDANCY>>,
   region      |-> IF env.PROVIDER = "s3" THEN env.AWS_REGION ELSE Absent,
   credentials |-> Credentials(env)]
=============================================================================
