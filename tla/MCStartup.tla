----------------------------- MODULE MCStartup -----------------------------
(***************************************************************************)
(* Every environment that differs in at most two variables from one of     *)
(* seven working ones: each provider, standalone and sidecar, each family  *)
(* of credentials, each format.                                            *)
(***************************************************************************)
EXTENDS Startup, TLC

Base(format, provider, destination) ==
  [Nothing EXCEPT !.REPOSITORY_FORMAT = format, !.PROVIDER = provider,
                  !.DESTINATION_PATH = destination]

StaticKeys == "AWS_ACCESS_KEY_ID_FILE" :> "file" @@ "AWS_SECRET_ACCESS_KEY_FILE" :> "file"

SidecarBase ==
  [Base("barman-cloud", "s3", "s3") EXCEPT
     !.RUNTIME_MODE = "pgconsole-sidecar", !.BARMAN_SERVER_NAMES = "one",
     !.EVIDENCE_TOKEN_FILE = "token", !.CNPG_CLUSTER_NAMESPACE = "text",
     !.CNPG_CLUSTER_UID = "text"]

Working ==
  {Base("barman-cloud", "s3", "s3"),
   StaticKeys @@ Base("pgbackrest", "s3", "s3"),
   [Base("barman-cloud", "azure", "azure") EXCEPT !.AZURE_STORAGE_ACCOUNT = "text"],
   [Base("pgbackrest", "azure", "azure") EXCEPT
      !.AZURE_STORAGE_ACCOUNT = "text", !.AZURE_STORAGE_ACCOUNT_KEY_FILE = "file"],
   Base("barman-cloud", "gcs", "gs"),
   StaticKeys @@ ("STORE_CREDENTIAL_MODE" :> "static-files") @@ SidecarBase,
   [SidecarBase EXCEPT !.STORE_CREDENTIAL_MODE = "aws-web-identity", !.AWS_REGION = "text",
      !.AWS_WEB_IDENTITY_TOKEN_FILE = "absolute", !.AWS_ROLE_ARN = "role"]}

Setting == UNION {{v} \X (Values[v] \cup {Absent}) : v \in Variable}

MCEnvironments ==
  {[e EXCEPT ![s[1]] = s[2], ![t[1]] = t[2]] : e \in Working, s \in Setting, t \in Setting}

MCInterval == Absent :> 4 @@ "least" :> 2 @@ "most" :> 5
MCTimeout  == Absent :> 1 @@ "least" :> 1 @@ "most" :> 4
=============================================================================
