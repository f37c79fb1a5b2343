---------------------------- MODULE MCCredentials ----------------------------
(***************************************************************************)
(* The instance checked: two calls with a stored login, two with a cloud   *)
(* chain whose machine changes once, and sites that differ from a plain    *)
(* one in a few things at a time.                                          *)
(***************************************************************************)
EXTENDS Credentials

Plain ==
  [env |-> {}, path |-> {}, files |-> {}, malformed |-> {}, profiles |-> ("active" :> NoProfile),
   gac |-> Null, adc |-> Null, answers |-> <<>>, narrow |-> Null, ssoCache |-> "none", loginCache |-> "none"]

Profiles(active) == "active" :> active @@ "base" :> [NoProfile EXCEPT !.saved = TRUE]

GoogleInfo == [type |-> "authorized_user", complete |-> TRUE, subject |-> "none", source |-> Null,
               impersonates |-> FALSE, project |-> FALSE]

-----------------------------------------------------------------------------
(* Machines by cloud: the sources of one or two rungs, and one endpoint or *)
(* command that refuses, cannot be reached or answers in part.             *)

AwsEnvs ==
  { {}, {"AWS_ACCESS_KEY_ID", "AWS_SECRET_ACCESS_KEY"}, {"AWS_ACCESS_KEY_ID"},
    {"AWS_WEB_IDENTITY_TOKEN_FILE", "AWS_ROLE_ARN"}, {"AWS_EC2_METADATA_DISABLED"},
    {"AWS_CONTAINER_CREDENTIALS_RELATIVE_URI"}, {"AWS_CONTAINER_CREDENTIALS_FULL_URI"} }

AwsProfiles ==
  { NoProfile, [NoProfile EXCEPT !.keys = TRUE], [NoProfile EXCEPT !.saved = TRUE, !.process = TRUE],
    [NoProfile EXCEPT !.role = TRUE, !.source = "base"], [NoProfile EXCEPT !.role = TRUE, !.source = "active"],
    [NoProfile EXCEPT !.role = TRUE, !.from = "Environment"], [NoProfile EXCEPT !.role = TRUE, !.from = "EcsContainer"],
    [NoProfile EXCEPT !.role = TRUE, !.from = "Ec2InstanceMetadata", !.region = TRUE],
    [NoProfile EXCEPT !.role = TRUE, !.web = TRUE], [NoProfile EXCEPT !.sso = "session", !.saved = TRUE],
    [NoProfile EXCEPT !.sso = "url", !.account = FALSE], [NoProfile EXCEPT !.sso = "nameless", !.region = TRUE],
    [NoProfile EXCEPT !.login = TRUE, !.keys = TRUE], [NoProfile EXCEPT !.process = TRUE] }

AwsMachines ==
  { [Plain EXCEPT !.env = e, !.profiles = Profiles(p), !.malformed = bad, !.loginCache = "fresh"] :
      e \in AwsEnvs, p \in AwsProfiles, bad \in {{}, {"aws"}, {"container"}} } \cup
  { [Plain EXCEPT !.env = {"AWS_WEB_IDENTITY_TOKEN_FILE", "AWS_ROLE_ARN", "AWS_REGION"}, !.files = {"web token"},
                  !.profiles = Profiles(p), !.path = cmd, !.answers = a, !.ssoCache = c] :
      p \in AwsProfiles, cmd \in {{}, {"process"}}, a \in {<<>>, "sts" :> "refused", "imds" :> "unreachable"},
      c \in {"fresh", "renewable", "stale"} }

AzureEnvs ==
  { {}, {"AZURE_TENANT_ID", "AZURE_CLIENT_ID", "AZURE_CLIENT_SECRET"},
    {"AZURE_TENANT_ID", "AZURE_CLIENT_ID", "AZURE_CLIENT_CERTIFICATE_PATH"},
    {"AZURE_TENANT_ID", "AZURE_CLIENT_ID", "AZURE_FEDERATED_TOKEN_FILE"},
    {"IDENTITY_ENDPOINT", "IDENTITY_HEADER"}, {"IDENTITY_ENDPOINT", "IMDS_ENDPOINT"}, {"MSI_ENDPOINT"},
    {"IDENTITY_ENDPOINT", "IDENTITY_HEADER", "IDENTITY_SERVER_THUMBPRINT"} }

AzureMachines ==
  { [Plain EXCEPT !.env = e, !.files = f, !.path = cmd, !.answers = a, !.narrow = n] :
      e \in {x \cup {"ANTHROPIC_FOUNDRY_RESOURCE"} : x \in AzureEnvs}, f \in {{}, {"federated token", "certificate", "arc key"}}, cmd \in {{}, {"az"}, {"az", "azd"}},
      a \in {<<>>, "msi" :> "unreachable", "az" :> "refused", "az" :> "incomplete"},
      n \in {Null, "prod", "dev", "az", "environment"} }

GoogleFiles ==
  { Null, GoogleInfo, [GoogleInfo EXCEPT !.complete = FALSE, !.project = TRUE],
    [GoogleInfo EXCEPT !.type = "service_account", !.project = TRUE],
    [GoogleInfo EXCEPT !.type = "external_account", !.subject = "executable", !.impersonates = TRUE],
    [GoogleInfo EXCEPT !.type = "impersonated_service_account", !.source = "authorized_user"],
    [GoogleInfo EXCEPT !.type = "other"] }

GcpMachines ==
  { [Plain EXCEPT !.env = e, !.gac = g, !.adc = d, !.malformed = bad] :
      e \in {{}, {"NO_GCE_CHECK"}, {"GOOGLE_CLOUD_PROJECT"}, {"GCLOUD_PROJECT", "NO_GCE_CHECK"}, {"CLOUDSDK_CORE_PROJECT", "NO_GCE_CHECK"}},
      g \in GoogleFiles, d \in {Null, GoogleInfo, [GoogleInfo EXCEPT !.type = "external_account", !.subject = "file"]},
      bad \in {{}, {"gac"}, {"adc"}} } \cup
  { [Plain EXCEPT !.env = {"GOOGLE_EXTERNAL_ACCOUNT_ALLOW_EXECUTABLES"}, !.gac = g, !.adc = d, !.path = cmd, !.answers = a] :
      g \in GoogleFiles, d \in {Null, GoogleInfo}, cmd \in {{}, {"gcloud", "executable"}},
      a \in {<<>>, "gce" :> "unreachable", "gce project" :> "refused", "gce" :> "incomplete"} }

-----------------------------------------------------------------------------
(* Sites by row *)

PlainSite ==
  [machine |-> Plain, process |-> FALSE, keys |-> <<>>, named |-> Null, given |-> {}, url |-> Null,
   stored |-> "absent", managed |-> Null]

FewAws ==
  { [Plain EXCEPT !.profiles = Profiles(p)] : p \in {NoProfile, [NoProfile EXCEPT !.keys = TRUE, !.region = TRUE]} }
FewAzure == {Plain, [Plain EXCEPT !.path = {"az"}, !.narrow = "az"]}
FewGcp == {Plain, [Plain EXCEPT !.adc = GoogleInfo, !.path = {"gcloud"}, !.answers = "gce project" :> "refused"]}

Identities == {Null, "platform", "workload", "environment", "cli"}

\* A cloud row: every machine under every identity, and a few machines with
\* the other ways to configure it.
CloudSites(machines, few, own, setting) ==
  { [PlainSite EXCEPT !.machine = m, !.named = n] : m \in machines, n \in Identities } \cup
  { [PlainSite EXCEPT !.machine = [m EXCEPT !.env = @ \cup door], !.named = n, !.keys = k, !.given = g,
                      !.url = u, !.managed = a, !.process = p] :
      m \in few,
      door \in {{}, {"AWS_BEARER_TOKEN_BEDROCK"}, {"ANTHROPIC_FOUNDRY_API_KEY"}},
      n \in {Null, "cli"}, k \in {<<>>, own :> "text", own :> "empty"}, g \in {{}, {setting}, {"unknown"}},
      u \in {Null, "good", "bad"}, a \in {Null, "none", "signed_out", "ready", "cloud", "later"}, p \in BOOLEAN }

KeyEnvs ==
  {{}, {"OPENAI_API_KEY"}, {"GOOGLE_API_KEY", "OPENAI_API_KEY"}, {"XAI_API_KEY"}, {"GEMINI_API_KEY", "GOOGLE_API_KEY"}}

KeyEntries ==
  { <<>>, "openai" :> "text", "openai-chat" :> "text", "openai" :> "text" @@ "openai-chat" :> "text",
    "xai" :> "text", "ollama" :> "text", "vertex-express" :> "text", "claude-code" :> "empty" }

KeySites ==
  { [PlainSite EXCEPT !.machine = [Plain EXCEPT !.env = e], !.keys = k, !.stored = s] :
      e \in KeyEnvs, k \in KeyEntries, s \in {"absent", "usable", "unusable", "logged_out"} } \cup
  { [PlainSite EXCEPT !.machine = [Plain EXCEPT !.env = e], !.keys = k, !.given = g, !.stored = "usable", !.managed = a] :
      e \in {{}, {"GOOGLE_API_KEY", "XAI_API_KEY"}}, k \in KeyEntries,
      g \in {{}, {"client_version"}, {"unknown"}}, a \in {Null, "none", "signed_out", "needs_login", "ready", "later"} }

MCSites ==
  [id \in {r.id : r \in Rows} |->
    CASE id = "bedrock-anthropic" -> CloudSites(AwsMachines, FewAws, id, "region")
      [] id = "azure-anthropic" -> CloudSites(AzureMachines, FewAzure, id, "resource")
      [] id = "vertex" -> CloudSites(GcpMachines, FewGcp, id, "project")
      [] OTHER -> KeySites]

-----------------------------------------------------------------------------
(* The machines a shared walk meets: a login appears or goes away. *)

MCMoving ==
  "aws-chain" :> << [Plain EXCEPT !.profiles = Profiles([NoProfile EXCEPT !.process = TRUE]), !.path = {"process"}],
                    [Plain EXCEPT !.profiles = Profiles([NoProfile EXCEPT !.keys = TRUE])] >>
  @@ "azure-chain" :> << [Plain EXCEPT !.path = {"az", "azd"}, !.answers = ("msi" :> "unreachable") @@ ("az" :> "refused")],
                         [Plain EXCEPT !.path = {"az"}, !.answers = "msi" :> "incomplete"] >>
  @@ "gcp-chain" :> << [Plain EXCEPT !.answers = "gce" :> "unreachable", !.path = {"gcloud"}],
                       [Plain EXCEPT !.answers = "gce" :> "unreachable", !.adc = GoogleInfo] >>
=============================================================================
